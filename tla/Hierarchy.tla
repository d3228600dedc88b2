------------------------------ MODULE Hierarchy ------------------------------
(* References between records that a Definition constrains, on the type that *)
(* has both kinds: a Task's parent is a Task (crud.Engine's cycle guard) of  *)
(* its own project (MustMatchParentField), its assignee a Party that holds   *)
(* the employee role (TargetFilter, by a join on PartyRole).                 *)
(*                                                                           *)
(* Update is its two halves: everything it reads, under the advisory lock of *)
(* the entity type, and its write and commit.  Create takes no lock, and no  *)
(* chain can lead to a record that does not exist yet.  A version conflict   *)
(* makes an Update end like any other failure.                               *)
EXTENDS Integers

CONSTANTS
  Tasks, Projects, Parties,
  NoTask, NoParty,       \* no value in the field
  Editors

VARIABLES
  task,        \* id -> [state, project, parent, assignee]
  employee,    \* the parties with a PartyRole row of that role
  edit         \* editor -> what its transaction is about to write, or Idle

vars == <<task, employee, edit>>

Row(state, project, parent, assignee) ==
  [state |-> state, project |-> project, parent |-> parent, assignee |-> assignee]
Values == [state : {"live"}, project : Projects, parent : Tasks \union {NoTask},
           assignee : Parties \union {NoParty}]
Absent == [state |-> "absent"]
Idle == [pc |-> "idle"]

Live == {t \in Tasks : task[t].state = "live"}
GetTxIncludingDeleted == {t \in Tasks : task[t].state # "absent"}

(* The id of a record is random: nobody writes one that is still to come.    *)
Known(parent) == parent \in GetTxIncludingDeleted \union {NoTask}

Init ==
  /\ task = [t \in Tasks |-> Absent]
  /\ employee = {}
  /\ edit = [e \in Editors |-> Idle]

------------------------------------------------------------------------------
(* checkSelfReferenceCycle walks from start over the parents in the rows of  *)
(* the table, the deleted ones too, up to one that is nowhere or a second    *)
(* time there: it visits the smallest set that has start and the parents of  *)
(* its own.                                                                  *)
Parent(t) == IF t \in GetTxIncludingDeleted THEN task[t].parent ELSE NoTask
HasParents(S) == \A t \in S : Parent(t) \in S \union {NoTask}
Chain(start) ==
  {t \in Tasks : \A S \in SUBSET Tasks : start \in S /\ HasParents(S) => t \in S}
FormsCycle(id, parent) == parent # NoTask /\ id \in Chain(parent)

(* Faulty variant: the lock is not taken.                                    *)
NoLock == TRUE
(* pg_advisory_xact_lock: the other Updates have ended.                      *)
LockSelfReferenceChainTx == \A e \in Editors : edit[e] = Idle

(* checkReferenceTargetConstraints: a target that is not there is not judged *)
(* and one without the role is refused.                                      *)
ParentFits(parent, project) == parent \in Live => task[parent].project = project
AssigneeFits(party) == party # NoParty => party \in employee
CheckReferenceTargets(row) ==
  ParentFits(row.parent, row.project) /\ AssigneeFits(row.assignee)

------------------------------------------------------------------------------
(* The id of the new record is any that was not used.                        *)
Create(row) ==
  LET id == CHOOSE t \in Tasks : task[t] = Absent IN
  /\ GetTxIncludingDeleted # Tasks /\ Known(row.parent)
  /\ CheckReferenceTargets(row)
  /\ task' = [task EXCEPT ![id] = row]
  /\ UNCHANGED <<employee, edit>>

(* Update up to its write; what it refuses it leaves as it was.              *)
CheckUpdate(e, id, row) ==
  /\ edit[e] = Idle /\ LockSelfReferenceChainTx
  /\ task[id].state = "live" /\ Known(row.parent)
  /\ ~FormsCycle(id, row.parent)
  /\ CheckReferenceTargets(row)
  /\ edit' = [edit EXCEPT ![e] = [pc |-> "write", id |-> id, row |-> row]]
  /\ UNCHANGED <<task, employee>>

CommitUpdate(e) ==
  /\ edit[e] # Idle /\ edit[e].id \in Live
  /\ task' = [task EXCEPT ![edit[e].id] = edit[e].row]
  /\ edit' = [edit EXCEPT ![e] = Idle]
  /\ UNCHANGED employee

RollbackUpdate(e) ==
  /\ edit[e] # Idle
  /\ edit' = [edit EXCEPT ![e] = Idle]
  /\ UNCHANGED <<task, employee>>

Delete(id) ==
  /\ task[id].state = "live"
  /\ task' = [task EXCEPT ![id].state = "deleted"]
  /\ UNCHANGED <<employee, edit>>

(* Somebody creates or deletes the PartyRole row.                            *)
ChangeRole(party) ==
  /\ employee' = IF party \in employee THEN employee \ {party} ELSE employee \union {party}
  /\ UNCHANGED <<task, edit>>

Next ==
  \/ \E row \in Values : Create(row)
  \/ \E e \in Editors : \/ \E id \in Tasks, row \in Values : CheckUpdate(e, id, row)
                        \/ CommitUpdate(e) \/ RollbackUpdate(e)
  \/ \E id \in Tasks : Delete(id)
  \/ \E party \in Parties : ChangeRole(party)

Spec == Init /\ [][Next]_vars

------------------------------------------------------------------------------
(* What the picker of a viewer who may read PartyRole offers.                *)

(* ResolveReferenceFilter for parent_task_id and a project already chosen.   *)
OfferedParents(sibling) == {t \in Live : task[t].project = sibling}
(* ResolveReferenceFilter for assignee_id.                                   *)
OfferedAssignees == Parties \intersect employee

------------------------------------------------------------------------------
TypeOK ==
  /\ \A t \in Tasks : task[t] # Absent =>
       task[t] \in [state : {"live", "deleted"}, project : Projects, parent : Tasks \union {NoTask},
                   assignee : Parties \union {NoParty}]
  /\ employee \subseteq Parties

(* The guard of Update: no task is its own ancestor in what the table holds, *)
(* deleted rows included, whoever edits what at the same time.               *)
NoCycle == \A t \in GetTxIncludingDeleted : ~FormsCycle(t, task[t].parent)

(* The picker and the check never diverge: what the picker offers now is     *)
(* accepted now.                                                             *)
PickerAgrees ==
  /\ \A p \in Projects : \A t \in OfferedParents(p) : ParentFits(t, p)
  /\ \A party \in OfferedAssignees : AssigneeFits(party)

(* projects.go, "a parent task must be in the SAME project as the child":    *)
(* true of every save, but a parent may move.                                *)
ParentsShareProject ==
  \A t \in Live : task[t].parent \in Live => task[task[t].parent].project = task[t].project

=============================================================================
