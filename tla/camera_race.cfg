\* One task enables the camera while another one disables it.
SPECIFICATION Spec
CONSTANTS
  c1 = c1
  c2 = c2
  Clients = {c1, c2}
  QueueLength = 2
  FramebufferCount = 3
  MaxDiscard = 1
  Rules <- NotExclusive
INVARIANT
  EnabledIsCapturing
