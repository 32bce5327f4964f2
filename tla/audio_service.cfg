\* Two clients add and remove callbacks, which may end themselves; destruction.
SPECIFICATION FairSpec
CONSTANTS
  c1 = c1
  c2 = c2
  NULL = NULL
  Clients = {c1, c2}
  QueueLength = 1
  RingFrames = 1
  DropFrames = 1
  Records = TRUE
  MaxIds = 3
\* A destroyed service does nothing.
CHECK_DEADLOCK FALSE
INVARIANTS
  NoCallAfterRemove
  RemovesOwnCallback
  DestroyedIsSilent
PROPERTIES
  CallsReturn
  CallbacksServed
