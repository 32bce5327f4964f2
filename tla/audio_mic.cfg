\* One client removes its callback.
SPECIFICATION FairSpec
CONSTANTS
  c1 = c1
  NULL = NULL
  Clients = {c1}
  QueueLength = 5
  RingFrames = 2
  DropFrames = 1
  Records = TRUE
  MaxIds = 2
\* A destroyed service does nothing.
CHECK_DEADLOCK FALSE
PROPERTIES
  MicPowersOff
