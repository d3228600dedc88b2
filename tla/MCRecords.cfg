CONSTANTS
  draft = draft  posted = posted  A = A  B = B  c1 = c1  c2 = c2
  Blank = Blank  NoOne = NoOne  AnyVersion = AnyVersion
  Ids = {1, 2}
  Codes = {A, B}
  Initial = draft
  Transitions <- PostingGraph
  HasStatus = TRUE
  Clients = {c1, c2}
  Legacy <- NoLegacy
  LegacyKeyed = TRUE
  PageSize = 1
  BackfillAlone = TRUE
  MaxVersion = 3
SPECIFICATION Spec
SYMMETRY ClientAndCodeSymmetry
INVARIANTS KeysAgree
PROPERTIES ImplementsTable StatusFollowsGraph NoEditLost
CHECK_DEADLOCK FALSE
