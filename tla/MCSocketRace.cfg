CONSTANTS
  Services = {s1, s2, s3}
  Finders = {}
  Nobody = Nobody
SPECIFICATION Spec
INVARIANT LockMeansFree
SYMMETRY ProcessSymmetry
CHECK_DEADLOCK FALSE
