CONSTANTS
  Root = root
  Children = {}
  Items = {i1, i2}
  NoItem = NoItem
  MaxCommits = 1
  Unmade = {}
  Unsent = {}
SPECIFICATION Spec
INVARIANT BufferedIsApplied
CHECK_DEADLOCK FALSE
