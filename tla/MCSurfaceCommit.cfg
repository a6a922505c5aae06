CONSTANTS
  Surfaces = {root, child}
  Callbacks = {c1, c2}
  Buffers = {}
  NoSurface = NoSurface
  NoBuffer = NoBuffer
  FrameCapacity = 1
SPECIFICATION FairSpec
INVARIANTS TypeOK CallbackConservation FramePipeline EffectiveInReach
PROPERTIES OnlyCommittedFires CommittedCallbackIsDone KeepsPromise
