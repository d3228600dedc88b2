CONSTANTS
  draft = draft  posted = posted  A = A  B = B  c1 = c1  c2 = c2
  Blank = Blank  NoOne = NoOne  AnyVersion = AnyVersion
  Ids = {1, 2}
  Codes = {A, B}
  Initial = draft
  Transitions <- NoGraph
  HasStatus = FALSE
  Clients = {c1}
  Legacy <- OneOld
  LegacyKeyed = TRUE
  PageSize = 1
  BackfillAlone = FALSE
  MaxVersion = 3
SPECIFICATION Spec
INVARIANTS SavedRecordsAreUnique
CHECK_DEADLOCK FALSE
