CONSTANTS
  cfo = cfo  manager = manager  j1 = j1  j2 = j2  p1 = p1  p2 = p2
  NoJob = NoJob
  Jobs = {j1}
  Pollers = {p1, p2}
  Requests = {manager, cfo}
  Steps <- TwoEscalations
  MaxAttempts = 3
  MaxCrashes = 1
  HandlersMayOutliveLease = FALSE
SPECIFICATION Spec
INVARIANTS EscalatedIsOverdue
