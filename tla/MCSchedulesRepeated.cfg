CONSTANTS
  nightly = nightly  audit = audit  p1 = p1  p2 = p2  r1 = r1  r2 = r2
  NoRow = NoRow  Manual = Manual
  Names = {nightly}
  Versions = {1, 2, 3}
  Trigger <- Triggers
  NextAfter <- NextMultiple
  Pollers = {p1, p2}
  RunnerOf <- TwoRunners
  Runners = {r1, r2}
  SyncInterval = 2
  MaxPerTick = 1
  Horizon = 5
  LastChange = 4
  MaxFailures = 1
  SyncsMayOverrun = FALSE
SPECIFICATION Spec
INVARIANTS OneRunPerOccurrence
