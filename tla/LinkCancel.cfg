\* docs/profile-v1.md:71 against a cancellation in the first steps of a scan.
SPECIFICATION Spec
CONSTANTS
  Tasks = {t1, t2}
  Profiles = {p1}
  Settings = {s1}
  MaxProbes = 1
  Free = Free
PROPERTIES CancelStopsScan
