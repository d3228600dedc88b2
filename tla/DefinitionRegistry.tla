------------------------- MODULE DefinitionRegistry -------------------------
(***************************************************************************)
(* The registry of versioned definitions of one tenant                     *)
(* (internal/data/definitions.go; the entity, form and workflow tables are *)
(* the same), and the seeders that publish a module's definitions through  *)
(* it (internal/kernel/moduleseed/moduleseed.go). A seeder reads a         *)
(* version's status once and then drives it forward, one transaction per   *)
(* state; other seeders and rollbacks come in between.                     *)
(***************************************************************************)
EXTENDS Integers, Sequences, FiniteSetsExt

CONSTANTS
  Keys,       \* entity types or workflow names
  Versions,   \* version numbers, from 1
  Seeders,    \* callers of moduleseed.PublishAll
  Items,      \* Items[s]: what s publishes, a sequence of <<key, version>>
  MaxStops    \* bound: how often a seeder dies half way

ASSUME VersionsAssumption == Versions \subseteq Nat \ {0} /\ IsFiniteSet(Versions)
ASSUME ItemsAssumption ==
  /\ Items \in [Seeders -> Seq(Keys \X Versions)]
  /\ \A s \in Seeders : Items[s] # <<>>
ASSUME StopsAssumption == MaxStops \in Nat

VARIABLES
  registry,  \* registry[k][v]: the row's status, "absent" before its INSERT
  pc,        \* pc[s]: the next statement of publishOne in seeder s
  pos,       \* pos[s]: which item of PublishAll it is at
  stops      \* how often a seeder died

seederVars == <<pc, pos, stops>>
registryVars == <<registry, seederVars>>

RegistryStatuses == {"absent", "draft", "approved", "published", "rolled_back"}
Settled == {"published", "rolled_back"}

RegistryInit ==
  /\ registry = [k \in Keys |-> [v \in Versions |-> "absent"]]
  /\ pc = [s \in Seeders |-> "idle"]
  /\ pos = [s \in Seeders |-> 1]
  /\ stops = 0

-----------------------------------------------------------------------------
(* The statements of definitionRepo.                                       *)

(* Faulty variant: the UPDATE does not look at the status it leaves.       *)
TransitionUnguarded(k, v, from, to) ==
  registry' = [registry EXCEPT ![k][v] = to]

Transition(k, v, from, to) ==
  /\ registry[k][v] = from
  /\ registry' = [registry EXCEPT ![k][v] = to]

PublishedVersions(k) == {v \in Versions : registry[k][v] = "published"}

(* getPublished: the version in force; 0 stands for ErrNotFound.           *)
(* Faulty variant: ascending order.                                        *)
LowestPublished(k) == IF PublishedVersions(k) = {} THEN 0 ELSE Min(PublishedVersions(k))

GetPublished(k) == IF PublishedVersions(k) = {} THEN 0 ELSE Max(PublishedVersions(k))

-----------------------------------------------------------------------------
(* PublishAll and publishOne of a seeder.                                  *)
Item(s) == Items[s][pos[s]]
Key(s) == Item(s)[1]
Version(s) == Item(s)[2]
Continue(s, at) == pc' = [pc EXCEPT ![s] = at] /\ UNCHANGED <<pos, stops>>

NextItem(s) ==
  /\ IF pos[s] < Len(Items[s])
       THEN pc' = [pc EXCEPT ![s] = "check"] /\ pos' = [pos EXCEPT ![s] = @ + 1]
       ELSE pc' = [pc EXCEPT ![s] = "succeeded"] /\ pos' = pos
  /\ UNCHANGED stops

(* A first call, or the call again of one that failed.                     *)
PublishAll(s) ==
  /\ pc[s] \in {"idle", "failed"}
  /\ pc' = [pc EXCEPT ![s] = "check"]
  /\ pos' = [pos EXCEPT ![s] = 1]
  /\ UNCHANGED <<registry, stops>>

(* GetVersion and the switch on what it says.                              *)
(* Faulty variants: a version that was rolled back is taken for approved;  *)
(* any version that has a row counts as seeded.                            *)
CheckVersionAgain(s) ==
  /\ pc[s] = "check"
  /\ LET status == registry[Key(s)][Version(s)] IN
       \/ status = "published" /\ NextItem(s)
       \/ status = "absent" /\ Continue(s, "draft")
       \/ status = "draft" /\ Continue(s, "approve")
       \/ status \in {"approved", "rolled_back"} /\ Continue(s, "publish")
  /\ UNCHANGED registry
CheckVersionExists(s) ==
  /\ pc[s] = "check"
  /\ LET status == registry[Key(s)][Version(s)] IN
       \/ status # "absent" /\ NextItem(s)
       \/ status = "absent" /\ Continue(s, "draft")
  /\ UNCHANGED registry

CheckVersion(s) ==
  /\ pc[s] = "check"
  /\ LET status == registry[Key(s)][Version(s)] IN
       \/ status \in Settled /\ NextItem(s)
       \/ status = "absent" /\ Continue(s, "draft")
       \/ status = "draft" /\ Continue(s, "approve")
       \/ status = "approved" /\ Continue(s, "publish")
  /\ UNCHANGED registry

(* A statement of publishOne: it goes on as "then" says when the row is    *)
(* where the statement wants it, and fails otherwise (a duplicate INSERT,  *)
(* ErrInvalidStatusTransition).                                            *)
Attempt(s, at, from, to, then) ==
  /\ pc[s] = at
  /\ \/ Transition(Key(s), Version(s), from, to) /\ then
     \/ /\ registry[Key(s)][Version(s)] # from
        /\ Continue(s, "failed")
        /\ UNCHANGED registry

CreateDraft(s) == Attempt(s, "draft", "absent", "draft", Continue(s, "approve"))
Approve(s) == Attempt(s, "approve", "draft", "approved", Continue(s, "publish"))
Publish(s) == Attempt(s, "publish", "approved", "published", NextItem(s))

Stop(s) ==
  /\ pc[s] \notin {"idle", "succeeded"}
  /\ stops < MaxStops
  /\ stops' = stops + 1
  /\ pc' = [pc EXCEPT ![s] = "idle"]
  /\ UNCHANGED <<registry, pos>>

Rollback(k, v) ==
  /\ Transition(k, v, "published", "rolled_back")
  /\ UNCHANGED seederVars

-----------------------------------------------------------------------------
Seed(s) == PublishAll(s) \/ CheckVersion(s) \/ CreateDraft(s) \/ Approve(s) \/ Publish(s)

RegistryNext ==
  \/ \E s \in Seeders : Seed(s) \/ Stop(s)
  \/ \E k \in Keys, v \in Versions : Rollback(k, v)

RegistrySpec == RegistryInit /\ [][RegistryNext]_registryVars
(* A call that fails is made again, and every call runs on.                *)
RegistryFairSpec == RegistrySpec /\ \A s \in Seeders : WF_registryVars(Seed(s))

-----------------------------------------------------------------------------
(* Every variable stays in its type.                                       *)
RegistryTypeOK ==
  /\ registry \in [Keys -> [Versions -> RegistryStatuses]]
  /\ pc \in [Seeders -> {"idle", "check", "draft", "approve", "publish", "failed", "succeeded"}]
  /\ pos \in [Seeders -> Nat \ {0}] /\ \A s \in Seeders : pos[s] <= Len(Items[s])
  /\ stops \in 0..MaxStops

(* Between them, seeders that act on a status they read earlier move every *)
(* version along draft, approved, published, rolled_back one state at a    *)
(* time; in particular nobody publishes again what was rolled back         *)
(* (transition's WHERE clause).                                            *)
Order == <<"absent", "draft", "approved", "published", "rolled_back">>
OneStateAtATime ==
  [][\A k \in Keys, v \in Versions : registry'[k][v] # registry[k][v] =>
       \E i \in 1..4 : registry[k][v] = Order[i] /\ registry'[k][v] = Order[i + 1]]_registryVars

(* The version in force goes back only when the one in force was rolled    *)
(* back: publishing an older version late changes nothing (getPublished).  *)
InForceFallsByRollback ==
  [][\A k \in Keys : GetPublished(k)' < GetPublished(k) =>
       registry'[k][GetPublished(k)] = "rolled_back"]_registryVars

(* A PublishAll that returned nil has left every item published or rolled  *)
(* back, whoever else was publishing the same ones.                        *)
SuccessMeansSettled ==
  \A s \in Seeders : pc[s] = "succeeded" =>
    \A i \in 1..Len(Items[s]) : registry[Items[s][i][1]][Items[s][i][2]] \in Settled

(* Colliding seeders fail cleanly, and calling again gets every one of     *)
(* them through (PublishAll: every collision is a retryable error).        *)
SeedersConverge == []<>(\A s \in Seeders : pc[s] = "succeeded")
=============================================================================
