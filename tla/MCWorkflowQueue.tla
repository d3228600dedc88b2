-------------------------- MODULE MCWorkflowQueue --------------------------
(* Instances of WorkflowQueue for TLC.                                     *)
EXTENDS WorkflowQueue, TLC

CONSTANTS cfo, manager, j1, j2, p1, p2

Notify == [kind |-> "notify", approvers |-> {}, substitutes |-> {}]

(* An approval of the manager that escalates to the cfo, then one of the   *)
(* cfo alone, with a notification before, between and after them.          *)
TwoApprovals ==
  << Notify,
     [kind |-> "require_approval", approvers |-> {manager}, substitutes |-> {cfo}],
     Notify,
     [kind |-> "require_approval", approvers |-> {cfo}, substitutes |-> {}],
     Notify >>

(* Two approvals of which both escalate.                                   *)
TwoEscalations ==
  << [kind |-> "require_approval", approvers |-> {manager}, substitutes |-> {cfo}],
     [kind |-> "require_approval", approvers |-> {manager}, substitutes |-> {cfo}] >>

(* One escalating approval between two notifications, by one person.       *)
OneApproval ==
  << Notify,
     [kind |-> "require_approval", approvers |-> {manager}, substitutes |-> {manager}],
     Notify >>

PollerSymmetry == Permutations({p1, p2})
QueueSymmetry == Permutations({p1, p2}) \union Permutations({j1, j2})
=============================================================================
