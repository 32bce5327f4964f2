\* A second client opens the device while the first one drops it.
SPECIFICATION Spec
CONSTANTS
  c1 = c1
  c2 = c2
  d1 = d1
  d2 = d2
  d3 = d3
  d4 = d4
  d5 = d5
  NULL = NULL
  Clients = {c1, c2}
  Devices = {d1, d2, d3, d4, d5}
  Calls = {}
  QueueLength = 4
  Faults = {}
  MaxFaults = 0
  DelaySuffices = TRUE
SYMMETRY Symmetry
INVARIANTS
  OpensLiveDevice
