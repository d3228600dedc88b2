CONSTANTS
  draft = draft  posted = posted  A = A  B = B  c1 = c1  c2 = c2
  Blank = Blank  NoOne = NoOne  AnyVersion = AnyVersion
  Ids = {1, 2}
  Codes = {A, B}
  Initial = draft
  Transitions <- NoGraph
  HasStatus = FALSE
  Clients = {c1, c2}
  Legacy <- TwoAlike
  LegacyKeyed = FALSE
  PageSize = 1
  BackfillAlone = TRUE
  MaxVersion = 2
SPECIFICATION FairSpec
INVARIANTS SavedRecordsAreUnique
PROPERTIES CoveredWhenDone TransactionsEnd
CHECK_DEADLOCK FALSE
