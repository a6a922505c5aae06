CONSTANTS
  Surfaces = {root, child}
  Callbacks = {}
  Buffers = {b1}
  NoSurface = NoSurface
  NoBuffer = NoBuffer
  FrameCapacity = 1
SPECIFICATION FairSpec
PROPERTY SyncStateFollowsParent
