CONSTANTS
  Modulus = 64
  Root = root
  Children = {child}
  Items = {i1, i2}
  Ids = {d1, d2}
  Places <- MCPlaces
  Origin <- MCOrigin
  Data <- MCData
  Attributes = {title}
  Resent = {title}
  Keys = {k1}
  Versions = {4, 8}
  Toplevel = toplevel
  NoItem = NoItem
  NoId = NoId
  NoSurface = NoSurface
  Unknown = Unknown
  MaxWork = 2
SYMMETRY Symmetry
SPECIFICATION Spec
INVARIANTS TypeOK ChildrenAgree ChildrenLive PlacesAgree AttributesKnown FocusAgrees NoStuckKey FocusBelongsToShell EventsWithinVersion
CHECK_DEADLOCK FALSE
