\* A board that is flashed, and the console, pins, RPC server and cascade of models
\* of what runs.
SPECIFICATION BoardSpec
CONSTANTS
  DataFiles <- OneFile
  Packets = 2
  MaxDisturbances = 1
  RingSize = 4
  ReadSizes = {1, 2, 4}
  QueueSize = 2
  MaxTimeouts = 1
  Pins = {p1}
  Width = 4
  Rollovers = 3
  Interval = 2
  MaxDelay = 1
  Connections = {h1, h2}
  Requests = {r1, r2}
  RequestPackets = 2
  Pictures = {"a", "b"}
  CommandSlots = 2
  SuspendsInTime = TRUE
INVARIANTS
  FlashingUndisturbed
  BootsWhatWasFlashed
  RingHoldsLatest
  OneByOne
  Debounced
  RepliesBelong
  OneCoreHasCamera
  PictureStays
PROPERTIES
  FlashingSucceeds
  CoresTakeTurns
CHECK_DEADLOCK FALSE
