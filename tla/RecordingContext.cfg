SPECIFICATION Spec
CONSTANTS
  Owners = {modbus, ethercat}
  Versions = {v1, v2}
  MaxTold = 4
  Quiet = Quiet
INVARIANT DecodedAsConfigured
