------------------------ MODULE MCWorkflowSchedules ------------------------
(* Instances of WorkflowSchedules for TLC.                                 *)
EXTENDS WorkflowSchedules, TLC

CONSTANTS nightly, audit, p1, p2, r1, r2

(* A cron expression is the period of its occurrences.                     *)
NextMultiple(period, t) == (t \div period + 1) * period

(* nightly changes its expression and becomes manual; audit keeps its own. *)
Triggers ==
  [n \in Names |-> IF n = nightly THEN <<2, 3, Manual>> ELSE <<2, 2, 2>>]
OneRunner == [p \in Pollers |-> r1]
TwoRunners == [p \in Pollers |-> IF p = p1 THEN r1 ELSE r2]
PollerSymmetry == Permutations(Pollers)
=============================================================================
