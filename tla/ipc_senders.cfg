\* Two M7 applications and the console task send as they like.
SPECIFICATION Spec
CONSTANTS
  a7 = a7
  b7 = b7
  a4 = a4
  NULL = NULL
  Apps <- TwoOnM7
  AppCore <- CoreOfApp
  MaxSends = 1
  Capacity = 7
  Replies = {}
  Serialized = FALSE
\* The applications may stop sending.
CHECK_DEADLOCK FALSE
INVARIANTS
  GiveSucceeds
