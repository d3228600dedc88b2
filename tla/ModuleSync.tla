------------------------------ MODULE ModuleSync ------------------------------
(* cmd/sync-tenant-modules on one tenant: a run infers from the registry     *)
(* which modules the tenant has, publishes what its release has of them,     *)
(* finds out which types moved and writes the unique keys of the records     *)
(* that a new constraint finds there.  cmd/provision-tenant publishes too,   *)
(* without that last part; a version may be rolled back at any time; users   *)
(* save records throughout; a run may fail or die at any statement.          *)
(*                                                                           *)
(* The states of a version before "published" are one here, and publishing   *)
(* it one step: DefinitionRegistry has the steps.  The backfill of one       *)
(* constraint is one step: RecordStore has its records.                      *)
EXTENDS Integers, FiniteSetsExt

CONSTANTS
  Types, Versions, Module,  \* entity types, their versions; type -> module
  UniqueIn,      \* UniqueIn[t][v]: the unique constraints v of t declares
  Runs,          \* runs of the commands
  Release,       \* run -> the <<type, version>> of its binary, in order
  Grants,        \* run -> the modules it may be told to publish; {} is a sync
  Registries,    \* what a tenant's registry holds at first, the work of runs
                 \* that have ended: sets of <<type, version>>
  MaxFaults      \* bound: failures and deaths of runs

VARIABLES
  status,        \* status[t][v]: "absent", "published" or "rolled_back"
  granted,       \* the modules the tenant was ever given
  unkeyed,       \* <<t, n>>: t has a record without its key for constraint n
  run,           \* run -> [pc, present, before, todo, failed]
  lost,          \* types one of whose backfills did not happen
  faults

vars == <<status, granted, unkeyed, run, lost, faults>>

Foundation == "foundation"
NamesOf(t) == UNION {UniqueIn[t][v] : v \in Versions}
Synchronizes(r) == Grants[r] = {}

------------------------------------------------------------------------------
(* What the registry says.                                                   *)
GetPublished(st, t) == LET up == {v \in Versions : st[t][v] = "published"}
                       IN  IF up = {} THEN 0 ELSE Max(up)
PublishedVersions == [t \in Types |-> GetPublished(status, t)]
PublishedModules == {Module[t] : t \in {u \in Types : PublishedVersions[u] # 0}}
Constraints(t, v) == IF v = 0 THEN {} ELSE UniqueIn[t][v]
InForce(t) == Constraints(t, PublishedVersions[t])

NewRun == [pc |-> "start", present |-> {}, before |-> <<>>, todo |-> {}, failed |-> FALSE]

Init ==
  /\ \E items \in Registries :
       /\ status = [t \in Types |-> [v \in Versions |->
                      IF <<t, v>> \in items THEN "published" ELSE "absent"]]
       /\ granted = {Module[item[1]] : item \in items}
  /\ unkeyed = {} /\ lost = {} /\ faults = 0
  /\ run = [r \in Runs |-> NewRun]

Fault == faults < MaxFaults /\ faults' = faults + 1
NoFault == UNCHANGED faults

------------------------------------------------------------------------------
(* A run, up to the publication of its last type.                            *)

(* Faulty variant: every module of the release is taken.                     *)
EveryModule(r, present) == DOMAIN Release[r]
(* foundation and the optional modules the tenant has, or is given: where    *)
(* their types are in the release.                                           *)
ToPublish(r, present) ==
  {i \in DOMAIN Release[r] : Module[Release[r][i][1]] \in present \union {Foundation}}

(* provision-tenant is told what to publish besides foundation.              *)
Provision(r, modules) ==
  /\ ~Synchronizes(r) /\ run[r].pc = "start"
  /\ granted' = granted \union (modules \union {Foundation})
  /\ run' = [run EXCEPT ![r] = [@ EXCEPT !.pc = "publish", !.present = modules,
                                         !.todo = ToPublish(r, modules)]]
  /\ UNCHANGED <<status, unkeyed, lost, faults>>

IsProvisioned(present) == Foundation \in present

(* syncTenant reads the modules and skips what is not a provisioned tenant;  *)
(* a run that skips the tenant, or cannot read it, has done nothing.         *)
ReadModules(r) ==
  /\ Synchronizes(r) /\ run[r].pc = "start"
  /\ IsProvisioned(PublishedModules)
  /\ run' = [run EXCEPT ![r].pc = "before", ![r].present = PublishedModules]
  /\ UNCHANGED <<status, granted, unkeyed, lost, faults>>

ReadBefore(r) ==
  /\ run[r].pc = "before"
  /\ run' = [run EXCEPT ![r] = [@ EXCEPT !.pc = "publish", !.before = PublishedVersions,
                                         !.todo = ToPublish(r, run[r].present)]]
  /\ UNCHANGED <<status, granted, unkeyed, lost, faults>>

(* publishOne leaves a version alone that is published or rolled back.       *)
PublishedAs(st, t, v) == IF st[t][v] = "absent" THEN [st EXCEPT ![t][v] = "published"] ELSE st
Newly(t, st) == Constraints(t, GetPublished(st, t)) \ InForce(t)
(* Of those, what no backfill of this run will write: all for a provisioning,*)
(* and for a sync what its type declared when the sync began, and a rollback *)
(* or another run has taken away since.                                      *)
Unseen(r, t, st) ==
  Newly(t, st) \intersect (IF Synchronizes(r) THEN Constraints(t, run[r].before[t]) ELSE NamesOf(t))

Publish(r) ==
  /\ run[r].pc = "publish" /\ run[r].todo # {}
  /\ LET item == Release[r][Min(run[r].todo)]  t == item[1]
     IN  /\ status' = PublishedAs(status, t, item[2])
         /\ lost' = IF Unseen(r, t, status') # {} THEN lost \union {t} ELSE lost
  /\ run' = [run EXCEPT ![r].todo = @ \ {Min(@)}]
  /\ UNCHANGED <<granted, unkeyed, faults>>

(* The first type that fails is the last one this run publishes.             *)
PublishFails(r) ==
  /\ run[r].pc = "publish" /\ run[r].todo # {} /\ Fault
  /\ run' = [run EXCEPT ![r].todo = {}, ![r].failed = TRUE]
  /\ UNCHANGED <<status, granted, unkeyed, lost>>

(* Faulty variant: a sync that could not publish everything ends here too.   *)
EndsOnFailure(r) == ~Synchronizes(r) \/ run[r].failed
(* provision-tenant has nothing more to do.                                  *)
EndsHere(r) == ~Synchronizes(r)
PublishEnds(r) ==
  /\ run[r].pc = "publish" /\ run[r].todo = {}
  /\ run' = [run EXCEPT ![r] = IF EndsHere(r) THEN NewRun ELSE [@ EXCEPT !.pc = "after"]]
  /\ UNCHANGED <<status, granted, unkeyed, lost, faults>>

------------------------------------------------------------------------------
(* The second half of syncTenant.                                            *)

Landed(r) == {t \in Types : PublishedVersions[t] # run[r].before[t]}

(* publishedVersions again, and diffVersions: the types that moved.          *)
DiffVersions(r) ==
  LET now == PublishedVersions
  IN  {t \in Types : now[t] # 0 /\ now[t] # run[r].before[t]}
ReadAfter(r) ==
  /\ run[r].pc = "after"
  /\ \/ /\ NoFault /\ lost' = lost
        /\ run' = [run EXCEPT ![r].pc = "backfill", ![r].todo = DiffVersions(r)]
     \/ /\ Fault /\ lost' = lost \union Landed(r)
        /\ run' = [run EXCEPT ![r] = NewRun]
  /\ UNCHANGED <<status, granted, unkeyed>>

(* newlyAddedUniqueSets: what the definition in force now declares and the   *)
(* one before did not.                                                       *)
NewlyAdded(r, t) == InForce(t) \ Constraints(t, run[r].before[t])

(* backfillNewUniqueConstraints of one type, in any order; its failure is    *)
(* only a warning.                                                           *)
Backfill(r) ==
  /\ run[r].pc = "backfill"
  /\ \E t \in run[r].todo :
       /\ \/ /\ NoFault /\ lost' = lost
             /\ unkeyed' = unkeyed \ ({t} \X NewlyAdded(r, t))
          \/ /\ Fault /\ lost' = lost \union {t}
             /\ UNCHANGED unkeyed
       /\ run' = [run EXCEPT ![r].todo = @ \ {t}]
  /\ UNCHANGED <<status, granted>>

Finish(r) ==
  /\ run[r].pc = "backfill" /\ run[r].todo = {}
  /\ run' = [run EXCEPT ![r] = NewRun]
  /\ UNCHANGED <<status, granted, unkeyed, lost, faults>>

Working(r) == run[r].pc # "start"
Die(r) ==
  /\ Working(r) /\ Fault
  /\ run' = [run EXCEPT ![r] = NewRun]
  /\ lost' = IF run[r].before = <<>> THEN lost ELSE lost \union Landed(r)
  /\ UNCHANGED <<status, granted, unkeyed>>

(* sync-tenant-modules -backfill-only: every constraint in force.            *)
BackfillForced(t) ==
  /\ PublishedVersions[t] # 0
  /\ unkeyed' = unkeyed \ ({t} \X InForce(t))
  /\ lost' = lost \ {t}
  /\ UNCHANGED <<status, granted, run, faults>>

------------------------------------------------------------------------------
(* A version is withdrawn.  The one below may declare what it did not.       *)
Rollback(t, v) ==
  /\ status[t][v] = "published"
  /\ status' = [status EXCEPT ![t][v] = "rolled_back"]
  /\ lost' = IF Newly(t, status') # {} THEN lost \union {t} ELSE lost
  /\ UNCHANGED <<granted, unkeyed, run, faults>>

(* A record gets the keys of the constraints in force.                       *)
SaveRecord(t) ==
  /\ PublishedVersions[t] # 0
  /\ unkeyed' = unkeyed \union ({t} \X (NamesOf(t) \ InForce(t)))
  /\ UNCHANGED <<status, granted, run, lost, faults>>

RunStep(r) ==
  \/ \E modules \in SUBSET Grants[r] : Provision(r, modules)
  \/ ReadModules(r) \/ ReadBefore(r)
  \/ Publish(r) \/ PublishFails(r) \/ PublishEnds(r)
  \/ ReadAfter(r) \/ Backfill(r) \/ Finish(r) \/ Die(r)

Next ==
  \/ \E r \in Runs : RunStep(r)
  \/ \E t \in Types : BackfillForced(t) \/ SaveRecord(t)
  \/ \E t \in Types, v \in Versions : Rollback(t, v)

Spec == Init /\ [][Next]_vars

------------------------------------------------------------------------------
TypeOK ==
  /\ status \in [Types -> [Versions -> {"absent", "published", "rolled_back"}]]
  /\ unkeyed \subseteq UNION {{t} \X NamesOf(t) : t \in Types} /\ lost \subseteq Types
  /\ \A r \in Runs : run[r].pc \in
       {"start", "before", "publish", "after", "backfill"}
  /\ faults \in 0..MaxFaults

(* A sync updates the modules a tenant has and never gives it another one,   *)
(* foundation included, whatever was rolled back since it read them.         *)
NeverGrants == PublishedModules \subseteq granted

(* Once no run is under way, a unique constraint in force has the keys of    *)
(* every record, those it found included, but for the types of which a       *)
(* backfill failed, a command died or never does one, or a sync published    *)
(* anew what it had found declared and a rollback had withdrawn since.       *)
ConstraintsProtect ==
  (\A r \in Runs : ~Working(r)) =>
    \A t \in Types \ lost : unkeyed \intersect ({t} \X InForce(t)) = {}

(* plannedChanges of a dry run.                                              *)
Planned(t, v) == v > PublishedVersions[t] /\ status[t][v] # "rolled_back"

Published(items) ==
  [t \in Types |-> [v \in Versions |->
     IF <<t, v>> \in items THEN PublishedAs(status, t, v)[t][v] ELSE status[t][v]]]

(* A dry run announces exactly the types a real run would move: it promises  *)
(* nothing the registry refuses and is silent about nothing.                 *)
DryRunIsHonest ==
  \A r \in Runs :
    LET items == {Release[r][i] : i \in ToPublish(r, PublishedModules)}
    IN  {t \in Types : GetPublished(Published(items), t) # PublishedVersions[t]}
        = {item[1] : item \in {i \in items : Planned(i[1], i[2])}}

=============================================================================
