SPECIFICATION AnchorsSpec
CONSTANTS
  c = c
  d = d
  p = p
  f = f
  NoAnchor = none
  Anchors = {c, d, f}
  OwnToggle = {c, d}
  Kind <- ClassKind
  Tabs <- SiteTabs
  DefaultTab <- ClassMembers
  Sourcesets = {main}
  SetsOf <- AllSets
  MaxMoves = 3
INVARIANT SettledAtHash
