SPECIFICATION MCSpec
CONSTANTS
  c = c
  d = d
  p = p
  f = f
  NoAnchor = none
  Anchors = {c, d, f}
  OwnToggle = {c, d}
  Kind <- ClassKind
  Tabs <- TwoTabs
  DefaultTab <- Functions
  Sourcesets = {common, jvm}
  SetsOf <- OneOrTwo
  MaxMoves = 3
  Symbols = {"head", "long", "longer", "short"}
  Members = {"long", "longer", "short"}
  Widths = {1, 2, 3}
  Text <- MCText
  MaxResizes = 4
  Declarations <- MCDeclarations
  Module <- MCModule
  Package <- MCPackage
  Name <- MCName
  Member <- MCMember
  Menu <- MCMenu
  Icons = {i, j, k}
  Nothing = nothing
  MaxClicks = 4
  Windows = {w1, w2, w3}
  Unset = unset
INVARIANTS
  AnchorsTypeOK HighlightFollowsHash TargetInOpenTab SettledUnlessOvertaken
  SymbolTypeOK WrappedAsNeeded OneSpareIndent
  MenuTypeOK MarksPage
  ClipboardTypeOK
  ThemeKept
PROPERTIES AnchorReached GetsWrapped MenuShown PopupEnds
CHECK_DEADLOCK FALSE
