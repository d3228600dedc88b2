CONSTANTS
  cfo = cfo  manager = manager  j1 = j1  j2 = j2  p1 = p1  p2 = p2
  NoJob = NoJob
  Jobs = {j1, j2}
  Pollers = {p1, p2}
  Requests = {manager}
  Steps <- OneApproval
  MaxAttempts = 2
  MaxCrashes = 1
  HandlersMayOutliveLease = TRUE
  nightly = nightly  audit = audit  NoSchedule = NoSchedule  Manual = Manual  Nobody = Nobody
SPECIFICATION FairProgressSpec
PROPERTIES EveryJobSettles DueRowsLeave TableConverges SeedersConverge 
CHECK_DEADLOCK FALSE
