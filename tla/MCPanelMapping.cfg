CONSTANTS
  Root = root
  Children = {child}
  Items = {i1, i2}
  NoItem = NoItem
  MaxCommits = 1
  Unmade = {}
  Unsent = {root}
SPECIFICATION Spec
INVARIANTS TypeOK SettledShowsLatest
PROPERTIES KeepsItemPromise
SYMMETRY ItemSymmetry
CHECK_DEADLOCK FALSE
