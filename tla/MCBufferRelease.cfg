CONSTANTS
  Surfaces = {s1, s2}
  MaxPoint = 4
  NoSubmit = NoSubmit
SPECIFICATION Spec
INVARIANTS
  TypeOK
  NoEarlyRelease
  OneReleasePerCommit
  AbortedIsReplaced
  SomeoneSignals
PROPERTIES
  LetGoIsReleased
CHECK_DEADLOCK FALSE
