SPECIFICATION PSpec
CONSTANTS
  NVars = 3
  Nids = {1, 2}
  FrameSize = 1
PROPERTIES HeartbeatGoesOn
