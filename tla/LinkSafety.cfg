\* Three tasks, two profiles, two settings; more probes are in the proofs.
\* Leads-to, therefore no symmetry.
SPECIFICATION FairSpec
CONSTANTS
  Tasks = {t1, t2, t3}
  Profiles = {p1, p2}
  Settings = {s1, s2}
  MaxProbes = 1
  Free = Free
INVARIANTS TypeOK OneMaster FlagTracksTask DeviceConsistent
PROPERTIES ProfileKeptWhileUsed LinkGivenBack
