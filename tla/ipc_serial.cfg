\* Boot, and an M7 application whose messages the M4 answers, one sender at a time.
SPECIFICATION FairSpec
CONSTANTS
  a7 = a7
  b7 = b7
  a4 = a4
  NULL = NULL
  Apps <- OneOnM7
  AppCore <- CoreOfApp
  MaxSends = 3
  Capacity = 2
  Replies = {"M4"}
  Serialized = TRUE
\* The applications may stop sending.
CHECK_DEADLOCK FALSE
INVARIANTS
  GiveSucceeds
  NoDanglingMessage
PROPERTIES
  RefinesChannel
  WakeupsKept
  SendReturns
  MessagesReceived
