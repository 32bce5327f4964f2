\* Three clients share one Edge TPU: the safety properties and the refinement.
SPECIFICATION Spec
CONSTANTS
  c1 = c1
  c2 = c2
  c3 = c3
  d1 = d1
  d2 = d2
  d3 = d3
  d4 = d4
  d5 = d5
  NULL = NULL
  Clients = {c1, c2, c3}
  Devices = {d1, d2, d3, d4, d5}
  Calls = {"GetTemperature", "Invoke"}
  QueueLength = 4
  Faults = {}
  MaxFaults = 0
  DelaySuffices = TRUE
SYMMETRY Symmetry
INVARIANTS
  TypeOK
  CountBalances
  PowerWhileInUse
  NoSelfBlock
PROPERTIES
  RefinesLease
