CONSTANTS
  Root = root
  Children = {}
  Items = {i1, i2}
  NoItem = NoItem
  MaxCommits = 2
  Unmade = {root}
  Unsent = {}
SPECIFICATION FairSpec
INVARIANT SettledShowsLatest
PROPERTIES MapsOrFails DestroyedUnmaps
CHECK_DEADLOCK FALSE
