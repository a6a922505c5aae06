CONSTANTS
  Services = {s1, s2, s3}
  Finders = {f1}
  Nobody = Nobody
SPECIFICATION Spec
INVARIANTS TypeOK OneHolder ServesItsSocket LockMeansStart
SYMMETRY ProcessSymmetry
CHECK_DEADLOCK FALSE
