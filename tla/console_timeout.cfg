\* The host takes a message later than after 200 ms.
SPECIFICATION ConsoleSpec
CONSTANTS
  RingSize = 2
  ReadSizes = {2}
  QueueSize = 2
  MaxTimeouts = 1
INVARIANT
  GiveAccepted
