\* Two tasks that keep to the rules.
SPECIFICATION FairSpec
CONSTANTS
  c1 = c1
  c2 = c2
  Clients = {c1, c2}
  QueueLength = 3
  FramebufferCount = 3
  MaxDiscard = 1
  Rules <- AllRules
INVARIANTS
  OneOwner
  EnabledIsCapturing
  TriggerMeansPicture
  InterruptFits
PROPERTIES
  CallsReturn
