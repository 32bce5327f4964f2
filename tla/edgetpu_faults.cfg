\* One client that opens, uses and drops the device over and over, while the USB
\* side fails at most once.
SPECIFICATION FairSpec
CONSTANTS
  c1 = c1
  d1 = d1
  d2 = d2
  d3 = d3
  d4 = d4
  d5 = d5
  NULL = NULL
  Clients = {c1}
  Devices = {d1, d2, d3, d4, d5}
  Calls = {"GetTemperature", "Invoke", "GetPower"}
  QueueLength = 4
  Faults = {"enum", "event", "alloc", "iface", "loss", "silent"}
  MaxFaults = 1
  DelaySuffices = TRUE
\* OpenDevice may poll for ever for a device that stays silent.
CHECK_DEADLOCK FALSE
INVARIANTS
  NoUseAfterFree
  OpensLiveDevice
PROPERTIES
  ContextOnLiveDevice
  OpenReturns
  PowersDown
