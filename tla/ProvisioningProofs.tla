------------------------- MODULE ProvisioningProofs -------------------------
(***************************************************************************)
(* What holds of the registry and of provisioning for any instance: the    *)
(* seeders of the registry, and its version in force.                      *)
(***************************************************************************)
EXTENDS Provisioning, FiniteSetTheorems, TLAPS

USE VersionsAssumption, ItemsAssumption, StopsAssumption

(* The version item i of seeder s is about is settled.                     *)
ItemSettled(s, i) == registry[Items[s][i][1]][Items[s][i][2]] \in Settled

(* A seeder passes an item only when it is settled, so that all of them    *)
(* are when it has passed the last.                                        *)
PassedAreSettled ==
  \A s \in Seeders : \A i \in 1..Len(Items[s]) :
    i < pos[s] \/ pc[s] = "succeeded" => ItemSettled(s, i)

RegistryInv == RegistryTypeOK /\ PassedAreSettled

(* A step leaves settled versions settled.                                 *)
StaysSettled ==
  \A k \in Keys, v \in Versions : registry[k][v] \in Settled => registry'[k][v] \in Settled

LEMMA ItemType ==
  ASSUME NEW s \in Seeders, NEW i \in 1..Len(Items[s])
  PROVE  Items[s][i][1] \in Keys /\ Items[s][i][2] \in Versions
<1>1. Items[s][i] \in Keys \X Versions
  OBVIOUS
<1> QED
  BY <1>1

LEMMA CurrentItemType ==
  ASSUME RegistryTypeOK, NEW s \in Seeders
  PROVE  /\ pos[s] \in 1..Len(Items[s])
         /\ Key(s) \in Keys /\ Version(s) \in Versions
BY ItemType DEF RegistryTypeOK, Key, Version, Item

LEMMA ItemsStaySettled ==
  ASSUME StaysSettled, NEW s \in Seeders, NEW i \in 1..Len(Items[s]), ItemSettled(s, i)
  PROVE  ItemSettled(s, i)'
BY ItemType DEF StaysSettled, ItemSettled

(* Every transition of the code is one of these three, or a rollback.      *)
LEMMA TransitionType ==
  ASSUME RegistryTypeOK, NEW k \in Keys, NEW v \in Versions,
         NEW from \in RegistryStatuses, NEW to \in RegistryStatuses,
         from \in Settled => to \in Settled,
         Transition(k, v, from, to)
  PROVE  /\ registry' \in [Keys -> [Versions -> RegistryStatuses]]
         /\ StaysSettled
         /\ registry'[k][v] = to
         /\ \A l \in Keys, w \in Versions :
              registry'[l][w] # registry[l][w] => l = k /\ w = v
BY DEF Transition, RegistryTypeOK, StaysSettled

LEMMA UnchangedSettled == ASSUME registry' = registry PROVE StaysSettled
BY DEF StaysSettled

(* A seeder that goes on to its next item, its present one being settled.  *)
LEMMA NextItemInv ==
  ASSUME RegistryInv, NEW s \in Seeders, NextItem(s),
         registry' \in [Keys -> [Versions -> RegistryStatuses]],
         StaysSettled, NEW c \in 1..Len(Items[s]), c = pos[s], ItemSettled(s, c)'
  PROVE  RegistryInv'
<1> USE DEF RegistryInv
<1>1. pos[s] \in 1..Len(Items[s]) /\ Len(Items[s]) \in Nat
  BY CurrentItemType
<1>2. RegistryTypeOK'
  <2>1. CASE pos[s] < Len(Items[s])
    <3>1. /\ pc' = [pc EXCEPT ![s] = "check"]
          /\ pos' = [pos EXCEPT ![s] = pos[s] + 1]
          /\ stops' = stops
      BY <2>1 DEF NextItem
    <3>2. pos[s] \in Nat /\ pos[s] + 1 <= Len(Items[s])
      BY <1>1, <2>1
    <3>3. pos' \in [Seeders -> Nat \ {0}]
      BY <3>1, <3>2 DEF RegistryTypeOK
    <3>4. \A t \in Seeders : pos'[t] <= Len(Items[t])
      BY <3>1, <3>2 DEF RegistryTypeOK
    <3> QED
      BY <3>1, <3>3, <3>4 DEF RegistryTypeOK
  <2>2. CASE ~(pos[s] < Len(Items[s]))
    BY <2>2 DEF RegistryTypeOK, NextItem
  <2> QED
    BY <2>1, <2>2
<1>3. PassedAreSettled'
  <2> SUFFICES ASSUME NEW t \in Seeders, NEW i \in 1..Len(Items[t]),
                      i < pos'[t] \/ pc'[t] = "succeeded"
               PROVE  ItemSettled(t, i)'
    BY DEF PassedAreSettled
  <2>1. CASE t # s
    BY <2>1, ItemsStaySettled DEF PassedAreSettled, NextItem, RegistryTypeOK
  <2>2. CASE t = s /\ i = c
    BY <2>2
  <2>3. CASE t = s /\ i # c
    <3>1. i < c
      BY <1>1, <2>3 DEF NextItem, RegistryTypeOK
    <3> QED
      BY <2>3, <3>1, ItemsStaySettled DEF PassedAreSettled
  <2> QED
    BY <2>1, <2>2, <2>3
<1> QED
  BY <1>2, <1>3

(* A seeder that goes on with the same item.                               *)
LEMMA ContinueInv ==
  ASSUME RegistryInv, NEW s \in Seeders,
         NEW to \in {"draft", "approve", "publish", "failed"}, Continue(s, to),
         registry' \in [Keys -> [Versions -> RegistryStatuses]], StaysSettled
  PROVE  RegistryInv'
<1> USE DEF RegistryInv
<1>1. RegistryTypeOK'
  BY DEF RegistryTypeOK, Continue
<1>2. PassedAreSettled'
  BY ItemsStaySettled DEF PassedAreSettled, Continue, RegistryTypeOK
<1> QED
  BY <1>1, <1>2

LEMMA InitRegistryInv == RegistryInit => RegistryInv
<1> SUFFICES ASSUME RegistryInit PROVE RegistryInv
  OBVIOUS
<1>1. \A s \in Seeders : Len(Items[s]) \in Nat \ {0}
  OBVIOUS
<1>2. RegistryTypeOK
  BY <1>1 DEF RegistryInit, RegistryTypeOK, RegistryStatuses
<1>3. PassedAreSettled
  BY <1>1 DEF RegistryInit, PassedAreSettled
<1> QED
  BY <1>2, <1>3 DEF RegistryInv

LEMMA PublishAllInv == ASSUME RegistryInv, NEW s \in Seeders, PublishAll(s) PROVE RegistryInv'
<1> USE DEF RegistryInv, PublishAll
<1>1. Len(Items[s]) \in Nat \ {0}
  OBVIOUS
<1>2. RegistryTypeOK'
  BY <1>1 DEF RegistryTypeOK
<1>3. PassedAreSettled'
  BY <1>1, ItemsStaySettled, UnchangedSettled DEF PassedAreSettled, RegistryTypeOK
<1> QED
  BY <1>2, <1>3

LEMMA CheckVersionInv == ASSUME RegistryInv, NEW s \in Seeders, CheckVersion(s) PROVE RegistryInv'
<1>1. registry' \in [Keys -> [Versions -> RegistryStatuses]] /\ StaysSettled
  BY UnchangedSettled DEF CheckVersion, RegistryInv, RegistryTypeOK
<1>2. CASE registry[Key(s)][Version(s)] \in Settled /\ NextItem(s)
  <2>0. PICK c \in 1..Len(Items[s]) : c = pos[s]
    BY CurrentItemType DEF RegistryInv
  <2>1. ItemSettled(s, c)'
    BY <1>2, <2>0 DEF CheckVersion, ItemSettled, Key, Version, Item
  <2> QED
    BY <1>1, <1>2, <2>0, <2>1, NextItemInv
<1>3. CASE \E to \in {"draft", "approve", "publish"} : Continue(s, to)
  BY <1>1, <1>3, ContinueInv
<1> QED
  BY <1>2, <1>3 DEF CheckVersion

(* CreateDraft, Approve and Publish succeed or fail alike.                 *)
LEMMA FailedAttemptInv ==
  ASSUME RegistryInv, NEW s \in Seeders, Continue(s, "failed"), UNCHANGED registry
  PROVE  RegistryInv'
<1>1. registry' \in [Keys -> [Versions -> RegistryStatuses]] /\ StaysSettled
  BY UnchangedSettled DEF RegistryInv, RegistryTypeOK
<1> QED
  BY <1>1, ContinueInv

LEMMA CreateDraftInv == ASSUME RegistryInv, NEW s \in Seeders, CreateDraft(s) PROVE RegistryInv'
<1>1. CASE Transition(Key(s), Version(s), "absent", "draft") /\ Continue(s, "approve")
  <2>1. registry' \in [Keys -> [Versions -> RegistryStatuses]] /\ StaysSettled
    BY <1>1, TransitionType, CurrentItemType DEF RegistryInv, RegistryStatuses, Settled
  <2> QED
    BY <1>1, <2>1, ContinueInv
<1> QED
  BY <1>1, FailedAttemptInv DEF CreateDraft, Attempt

LEMMA ApproveInv == ASSUME RegistryInv, NEW s \in Seeders, Approve(s) PROVE RegistryInv'
<1>1. CASE Transition(Key(s), Version(s), "draft", "approved") /\ Continue(s, "publish")
  <2>1. registry' \in [Keys -> [Versions -> RegistryStatuses]] /\ StaysSettled
    BY <1>1, TransitionType, CurrentItemType DEF RegistryInv, RegistryStatuses, Settled
  <2> QED
    BY <1>1, <2>1, ContinueInv
<1> QED
  BY <1>1, FailedAttemptInv DEF Approve, Attempt

LEMMA PublishInv == ASSUME RegistryInv, NEW s \in Seeders, Publish(s) PROVE RegistryInv'
<1>1. CASE Transition(Key(s), Version(s), "approved", "published") /\ NextItem(s)
  <2>1. /\ registry' \in [Keys -> [Versions -> RegistryStatuses]] /\ StaysSettled
        /\ registry'[Key(s)][Version(s)] = "published"
    BY <1>1, TransitionType, CurrentItemType DEF RegistryInv, RegistryStatuses, Settled
  <2>2. PICK c \in 1..Len(Items[s]) : c = pos[s]
    BY CurrentItemType DEF RegistryInv
  <2>3. ItemSettled(s, c)'
    BY <2>1, <2>2 DEF ItemSettled, Key, Version, Item, Settled
  <2> QED
    BY <1>1, <2>1, <2>2, <2>3, NextItemInv
<1> QED
  BY <1>1, FailedAttemptInv DEF Publish, Attempt

LEMMA StopInv == ASSUME RegistryInv, NEW s \in Seeders, Stop(s) PROVE RegistryInv'
<1> USE DEF RegistryInv, Stop
<1>1. RegistryTypeOK'
  BY DEF RegistryTypeOK
<1>2. PassedAreSettled'
  BY ItemsStaySettled, UnchangedSettled DEF PassedAreSettled, RegistryTypeOK
<1> QED
  BY <1>1, <1>2

LEMMA RollbackInv ==
  ASSUME RegistryInv, NEW k \in Keys, NEW v \in Versions, Rollback(k, v) PROVE RegistryInv'
<1> USE DEF RegistryInv, Rollback, seederVars
<1>1. registry' \in [Keys -> [Versions -> RegistryStatuses]] /\ StaysSettled
  BY TransitionType DEF RegistryStatuses, Settled
<1>2. RegistryTypeOK'
  BY <1>1 DEF RegistryTypeOK
<1>3. PassedAreSettled'
  BY <1>1, ItemsStaySettled DEF PassedAreSettled
<1> QED
  BY <1>2, <1>3

LEMMA NextRegistryInv == RegistryInv /\ [RegistryNext]_registryVars => RegistryInv'
<1> SUFFICES ASSUME RegistryInv, [RegistryNext]_registryVars PROVE RegistryInv'
  OBVIOUS
<1>1. CASE \E s \in Seeders : Seed(s)
  BY <1>1, PublishAllInv, CheckVersionInv, CreateDraftInv, ApproveInv, PublishInv DEF Seed
<1>2. CASE \E s \in Seeders : Stop(s)
  BY <1>2, StopInv
<1>3. CASE \E k \in Keys, v \in Versions : Rollback(k, v)
  BY <1>3, RollbackInv
<1>4. CASE UNCHANGED registryVars
  BY <1>4 DEF registryVars, seederVars, RegistryInv, RegistryTypeOK, PassedAreSettled, ItemSettled
<1> QED
  BY <1>1, <1>2, <1>3, <1>4 DEF RegistryNext

(* Every variable keeps its type, and a seeder has passed settled items    *)
(* only (PublishAll's loop over publishOne).                               *)
THEOREM RegistryInvariant == RegistrySpec => []RegistryInv
BY InitRegistryInv, NextRegistryInv, PTL DEF RegistrySpec

(* Every variable of the registry and its seeders keeps its type.          *)
THEOREM RegistryTypeCorrect == RegistrySpec => []RegistryTypeOK
BY RegistryInvariant, PTL DEF RegistryInv

(* A PublishAll that returned nil has left all its items published or      *)
(* rolled back, however many seeders and rollbacks came in between.        *)
THEOREM SuccessSettles == RegistrySpec => []SuccessMeansSettled
<1>1. RegistryInv => SuccessMeansSettled
  BY DEF RegistryInv, PassedAreSettled, SuccessMeansSettled, ItemSettled
<1> QED
  BY <1>1, RegistryInvariant, PTL

(* No UPDATE of definitionRepo skips or repeats a state of a version.      *)
LEMMA StepIsOneState ==
  ASSUME RegistryInv, [RegistryNext]_registryVars, NEW k \in Keys, NEW v \in Versions,
         registry'[k][v] # registry[k][v]
  PROVE  \E i \in 1..4 : registry[k][v] = Order[i] /\ registry'[k][v] = Order[i + 1]
<1> USE DEF RegistryInv
<1>0. /\ Order[1] = "absent" /\ Order[1 + 1] = "draft"
      /\ Order[2] = "draft" /\ Order[2 + 1] = "approved"
      /\ Order[3] = "approved" /\ Order[3 + 1] = "published"
      /\ Order[4] = "published" /\ Order[4 + 1] = "rolled_back"
  BY DEF Order
<1>1. ASSUME NEW l \in Keys, NEW w \in Versions, NEW i \in 1..4,
             Transition(l, w, Order[i], Order[i + 1])
      PROVE  registry[k][v] = Order[i] /\ registry'[k][v] = Order[i + 1]
  BY <1>1 DEF Transition, RegistryTypeOK
<1>2. CASE \E s \in Seeders : Seed(s)
  <2>1. PICK s \in Seeders : Seed(s)
    BY <1>2
  <2>2. Key(s) \in Keys /\ Version(s) \in Versions
    BY CurrentItemType
  <2>3. \/ Transition(Key(s), Version(s), "absent", "draft")
        \/ Transition(Key(s), Version(s), "draft", "approved")
        \/ Transition(Key(s), Version(s), "approved", "published")
    BY <2>1 DEF Seed, PublishAll, CheckVersion, CreateDraft, Approve, Publish, Attempt
  <2>4. \E i \in 1..4 : Transition(Key(s), Version(s), Order[i], Order[i + 1])
    BY <1>0, <2>3
  <2> QED
    BY <1>1, <2>2, <2>4
<1>3. CASE \E s \in Seeders : Stop(s)
  BY <1>3 DEF Stop
<1>4. CASE \E l \in Keys, w \in Versions : Rollback(l, w)
  BY <1>0, <1>1, <1>4 DEF Rollback
<1>5. CASE UNCHANGED registryVars
  BY <1>5 DEF registryVars
<1> QED
  BY <1>2, <1>3, <1>4, <1>5 DEF RegistryNext

(* Every version goes through draft, approved, published, rolled_back one  *)
(* state at a time, whatever the seeders read before they wrote            *)
(* (transition's WHERE clause).                                            *)
THEOREM VersionsMoveInOrder == RegistrySpec => OneStateAtATime
<1>1. RegistryInv /\ [RegistryNext]_registryVars =>
        [\A k \in Keys, v \in Versions : registry'[k][v] # registry[k][v] =>
           \E i \in 1..4 : registry[k][v] = Order[i] /\ registry'[k][v] = Order[i + 1]]_registryVars
  BY StepIsOneState
<1> QED
  BY <1>1, RegistryInvariant, PTL DEF RegistrySpec, OneStateAtATime

-----------------------------------------------------------------------------
(* The version in force.                                                   *)

(* The smallest of some finite sets: none of the sets strictly inside it is*)
(* one of them.                                                            *)
LEMMA SmallestSet ==
  ASSUME NEW S, IsFiniteSet(S), NEW T \in SUBSET SUBSET S, T # {}
  PROVE  \E s \in T : \A t \in T : ~(t \subseteq s /\ t # s)
<1>1. FiniteSubsetsOf(S) = SUBSET S
  BY FS_FiniteSubsetsOfFinite
<1>2. IsWellFoundedOn(StrictSubsetOrdering(S), SUBSET S)
  BY <1>1, FS_StrictSubsetOrderingWellFounded
<1>3. PICK s \in T : \A t \in T : ~(<<t, s>> \in StrictSubsetOrdering(S))
  BY <1>2, WFMin
<1> QED
  BY <1>3 DEF StrictSubsetOrdering

(* Some version numbers have a greatest one.                               *)
LEMMA GreatestExists ==
  ASSUME NEW S, S \subseteq Nat, IsFiniteSet(S), S # {}
  PROVE  \E x \in S : \A y \in S : x >= y
<1> DEFINE Bad == {s \in SUBSET S : s # {} /\ ~\E x \in s : \A y \in s : x >= y}
<1>1. ASSUME NEW s \in Bad, \A t \in Bad : ~(t \subseteq s /\ t # s)
      PROVE  FALSE
  <2>2. PICK e : e \in s
    OBVIOUS
  <2>3. s \ {e} \notin Bad
    BY <1>1, <2>2
  <2>4. CASE s \ {e} = {}
    BY <2>2, <2>4
  <2>5. CASE s \ {e} # {}
    <3>1. PICK x \in s \ {e} : \A y \in s \ {e} : x >= y
      BY <2>3, <2>5
    <3>2. x \in Nat /\ e \in Nat /\ s \subseteq Nat
      BY <2>2, <3>1
    <3>3. CASE x >= e
      BY <3>1, <3>2, <3>3
    <3>4. CASE ~(x >= e)
      <4>1. \A y \in s : e >= y
        BY <3>1, <3>2, <3>4
      <4> QED
        BY <2>2, <4>1
    <3> QED
      BY <3>3, <3>4
  <2> QED
    BY <2>4, <2>5
<1>2. Bad \in SUBSET SUBSET S
  OBVIOUS
<1>3. Bad = {}
  <2> HIDE DEF Bad
  <2>1. SUFFICES ASSUME Bad # {} PROVE FALSE
    OBVIOUS
  <2>2. IsFiniteSet(S)
    OBVIOUS
  <2>3. \E s \in Bad : \A t \in Bad : ~(t \subseteq s /\ t # s)
    BY ONLY <1>2, <2>1, <2>2, SmallestSet
  <2> QED
    BY <1>1, <2>3
<1> QED
  BY <1>3

(* getPublished: the greatest of the versions that are published.          *)
LEMMA GreatestPublished ==
  ASSUME NEW S \in SUBSET Versions, S # {}
  PROVE  Max(S) \in S /\ \A y \in S : Max(S) >= y
<1>1. IsFiniteSet(S) /\ S \subseteq Nat
  BY FS_Subset
<1>2. \E x \in S : \A y \in S : x >= y
  BY <1>1, GreatestExists
<1> QED
  BY <1>2 DEF Max

(* When the version in force falls, the one that was has lost its state,   *)
(* and a rollback is the only statement that takes it.                     *)
LEMMA FallIsRollback ==
  ASSUME RegistryInv, RegistryInv', [RegistryNext]_registryVars, NEW k \in Keys,
         GetPublished(k)' < GetPublished(k)
  PROVE  registry'[k][GetPublished(k)] = "rolled_back"
<1> DEFINE up == PublishedVersions(k)
           then == PublishedVersions(k)'
<1>1. up \subseteq Versions /\ then \subseteq Versions
  BY DEF PublishedVersions
<1>2. /\ up = {} => GetPublished(k) = 0
      /\ up # {} => GetPublished(k) = Max(up)
  BY DEF GetPublished
<1>3. /\ then = {} => GetPublished(k)' = 0
      /\ then # {} => GetPublished(k)' = Max(then)
  BY DEF GetPublished
<1>4. then # {} => Max(then) \in then /\ \A y \in then : Max(then) >= y
  BY <1>1, GreatestPublished
<1>5. up # {} => Max(up) \in up
  BY <1>1, GreatestPublished
<1>a. Versions \subseteq Nat
  OBVIOUS
<1> HIDE DEF up, then
<1>6. up # {}
  <2>1. then # {} => Max(then) \in Nat
    BY <1>1, <1>4, <1>a
  <2>2. GetPublished(k)' \in Nat
    BY <1>3, <2>1
  <2> QED
    BY <1>2, <2>2
<1>7. Max(up) \in Versions /\ registry[k][Max(up)] = "published" /\ Max(up) \notin then
  <2>1. ASSUME Max(up) \in then
        PROVE  FALSE
    <3>1. Max(then) \in Nat /\ Max(up) \in Nat /\ Max(then) >= Max(up)
      BY <1>1, <1>4, <1>5, <1>6, <1>a, <2>1
    <3>2. Max(then) < Max(up)
      BY <1>2, <1>3, <1>6, <2>1
    <3> QED
      BY <3>1, <3>2
  <2> QED
    BY <1>5, <1>6, <2>1 DEF PublishedVersions, up
<1>8. registry'[k][Max(up)] # "published"
  BY <1>7 DEF PublishedVersions, then
<1>9. PICK i \in 1..4 : registry[k][Max(up)] = Order[i] /\ registry'[k][Max(up)] = Order[i + 1]
  BY <1>7, <1>8, StepIsOneState
<1>10. registry'[k][Max(up)] = "rolled_back"
  BY <1>7, <1>9 DEF Order
<1> QED
  BY <1>2, <1>6, <1>10

(* Publishing an older version late changes nothing: the version in force  *)
(* goes back only by a rollback of the one that is (getPublished).         *)
THEOREM InForceFalls == RegistrySpec => InForceFallsByRollback
<1>1. RegistryInv /\ RegistryInv' /\ [RegistryNext]_registryVars =>
        [\A k \in Keys : GetPublished(k)' < GetPublished(k) =>
           registry'[k][GetPublished(k)] = "rolled_back"]_registryVars
  BY FallIsRollback
<1> QED
  BY <1>1, RegistryInvariant, PTL DEF RegistrySpec, InForceFallsByRollback


-----------------------------------------------------------------------------
(* Tenants and their databases.                                            *)

Work == [pc : {"new", "database", "lock", "check", "exec", "commit", "done", "failed",
               "undo", "crashed"},
         slug : 1..Slugs, at : 1..(Migrations + 1), inTx : BOOLEAN]
GetRequest == [pc : {"idle", "fly", "open"}, tenant : Makers \union {Nobody}]

TenancyTypes ==
  /\ tenantRow \in [Makers -> 0..Slugs]
  /\ database \in [Makers -> {"none", "made"}]
  /\ applied \in [Makers -> SUBSET (1..Migrations)]
  /\ runs \in [Makers \X (1..Migrations) -> Nat]
  /\ lock \in [Makers -> Tenancy!Workers \union {Nobody}]
  /\ work \in [Tenancy!Workers -> Work]
  /\ pool \in [Makers -> BOOLEAN]
  /\ opened \in [Makers -> Nat]
  /\ flight \in [Makers -> Callers \union {Nobody}]
  /\ call \in [Callers -> GetRequest]
  /\ tenantFaults \in 0..MaxFaults

(* A worker has the migrations behind it, and only one that is in a        *)
(* transaction is about to commit: one that is not committed, and that no  *)
(* other worker of the database is about to commit.                        *)
Unended == {"new", "database", "lock", "check", "exec", "commit"}
WorkersInTurn ==
  \A w \in Tenancy!Workers :
    /\ work[w].pc \in Unended =>
         \A i \in 1..Migrations : i < work[w].at => i \in applied[w[1]]
    /\ work[w].pc \in {"exec", "commit"} => work[w].at \in 1..Migrations
    /\ work[w].inTx <=> work[w].pc = "commit"
    /\ work[w].pc = "commit" =>
         /\ work[w].at \notin applied[w[1]]
         /\ \A v \in Tenancy!Workers :
              v[1] = w[1] /\ work[v].pc = "commit" /\ work[v].at = work[w].at => v = w

(* What Create has made by the statement it is at.                         *)
CreatedSoFar ==
  \A m \in Makers :
    LET at == work[<<m, "create">>].pc IN
    /\ at \in {"new", "failed"} => tenantRow[m] = 0
    /\ at \in {"database", "lock", "check", "exec", "commit", "done"} => tenantRow[m] # 0
    /\ at \in {"lock", "check", "exec", "commit", "done"} => database[m] = "made"
    /\ at = "done" => applied[m] = 1..Migrations

SlugsApart ==
  \A m, n \in Makers :
    m # n /\ NameOf[n] = NameOf[m] /\ tenantRow[n] = tenantRow[m] => tenantRow[m] = 0

(* A flight is of the one caller that opens the pool, and opens one that   *)
(* is not there.                                                           *)
FlightsOpen ==
  /\ \A c \in Callers :
       /\ call[c].pc # "idle" => call[c].tenant \in Makers
       /\ call[c].pc = "open" => flight[call[c].tenant] = c /\ ~pool[call[c].tenant]
  /\ \A m \in Makers : flight[m] \in Callers =>
       call[flight[m]].pc = "open" /\ call[flight[m]].tenant = m

TenancyInv ==
  /\ TenancyTypes /\ WorkersInTurn /\ Tenancy!MigratedOnce
  /\ CreatedSoFar /\ SlugsApart /\ FlightsOpen /\ Tenancy!OnePoolPerTenant

Statements == {"new", "database", "lock", "check", "exec", "commit", "done", "failed",
               "undo", "crashed"}
StepTo(w, p, s, i, tx) ==
  LET r == [pc |-> p, slug |-> s, at |-> i, inTx |-> tx]
  IN  r \in Work /\ work' = [work EXCEPT ![w] = r]

LEMMA TenancyConstants ==
  /\ Migrations \in Nat /\ Slugs \in Nat \ {0} /\ MaxFaults \in Nat
  /\ Nobody \notin Callers
  /\ \A m \in Makers : <<m, "create">> \in Tenancy!Workers
  /\ \A m \in Migrators : <<m, "migrate">> \in Tenancy!Workers
  /\ \A w \in Tenancy!Workers : w[1] \in Makers /\ (w[2] = "create" => w = <<w[1], "create">>)
BY TenancyAssumption DEF Tenancy!Workers

(* The forms in which a statement writes the worker that makes it.         *)
LEMMA WorkGoto ==
  ASSUME TenancyTypes, NEW w \in Tenancy!Workers, NEW p \in Statements, Tenancy!Goto(w, p)
  PROVE  StepTo(w, p, work[w].slug, work[w].at, work[w].inTx)
<1>1. PICK q \in Work : q = work[w]
  BY DEF TenancyTypes
<1>2. PICK n : n = [q EXCEPT !.pc = p]
  OBVIOUS
<1>3. n = [pc |-> p, slug |-> q.slug, at |-> q.at, inTx |-> q.inTx]
  BY <1>2 DEF Work
<1>4. n \in Work
  BY <1>3 DEF Work, Statements
<1>5. work' = [work EXCEPT ![w] = n]
  BY <1>1, <1>2 DEF Tenancy!Goto
<1> QED
  BY <1>1, <1>3, <1>4, <1>5 DEF StepTo

LEMMA WorkSlug ==
  ASSUME TenancyTypes, NEW w \in Tenancy!Workers, work[w].slug # Slugs,
         work' = [work EXCEPT ![w] = [work[w] EXCEPT !.slug = work[w].slug + 1]]
  PROVE  StepTo(w, work[w].pc, work[w].slug + 1, work[w].at, work[w].inTx)
<1>1. PICK q \in Work : q = work[w]
  BY DEF TenancyTypes
<1>2. PICK n : n = [q EXCEPT !.slug = q.slug + 1]
  OBVIOUS
<1>3. n = [pc |-> q.pc, slug |-> q.slug + 1, at |-> q.at, inTx |-> q.inTx]
  BY <1>2 DEF Work
<1>a. q.slug + 1 \in 1..Slugs
  BY <1>1, TenancyConstants DEF Work
<1>4. n \in Work
  BY <1>3, <1>a DEF Work
<1>5. work' = [work EXCEPT ![w] = n]
  BY <1>1, <1>2
<1> QED
  BY <1>1, <1>3, <1>4, <1>5 DEF StepTo

LEMMA WorkInTx ==
  ASSUME TenancyTypes, NEW w \in Tenancy!Workers, NEW p \in Statements, NEW tx \in BOOLEAN,
         work' = [work EXCEPT ![w] = [work[w] EXCEPT !.inTx = tx, !.pc = p]]
  PROVE  StepTo(w, p, work[w].slug, work[w].at, tx)
<1>1. PICK q \in Work : q = work[w]
  BY DEF TenancyTypes
<1>2. PICK n : n = [q EXCEPT !.inTx = tx, !.pc = p]
  OBVIOUS
<1>3. n = [pc |-> p, slug |-> q.slug, at |-> q.at, inTx |-> tx]
  BY <1>2 DEF Work
<1>4. n \in Work
  BY <1>3 DEF Work, Statements
<1>5. work' = [work EXCEPT ![w] = n]
  BY <1>1, <1>2
<1> QED
  BY <1>1, <1>3, <1>4, <1>5 DEF StepTo

LEMMA WorkNext ==
  ASSUME TenancyTypes, NEW w \in Tenancy!Workers, work[w].at \in 1..Migrations,
         work[w].pc \in {"check", "commit"},
         work' = [work EXCEPT ![w] = Tenancy!Next_(w)]
  PROVE  StepTo(w, "check", work[w].slug, work[w].at + 1, FALSE)
<1>1. PICK q \in Work : q = work[w]
  BY DEF TenancyTypes
<1>2. PICK n : n = [q EXCEPT !.pc = "check", !.at = q.at + 1, !.inTx = FALSE]
  OBVIOUS
<1>3. n = [pc |-> "check", slug |-> q.slug, at |-> q.at + 1, inTx |-> FALSE]
  BY <1>2 DEF Work
<1>a. q.at + 1 \in 1..(Migrations + 1)
  BY <1>1, TenancyConstants
<1>4. n \in Work
  BY <1>3, <1>a DEF Work
<1>5. Tenancy!Next_(w) = n
  BY <1>1, <1>2 DEF Tenancy!Next_
<1> QED
  BY <1>1, <1>3, <1>4, <1>5 DEF StepTo

LEMMA StepFields ==
  ASSUME TenancyTypes, NEW w \in Tenancy!Workers, NEW p, NEW s, NEW i, NEW tx,
         StepTo(w, p, s, i, tx)
  PROVE  /\ work' \in [Tenancy!Workers -> Work]
         /\ work'[w].pc = p /\ work'[w].at = i /\ work'[w].inTx = tx
         /\ \A v \in Tenancy!Workers : v # w => work'[v] = work[v]
         /\ p \in Statements /\ i \in 1..(Migrations + 1)
<1> DEFINE r == [pc |-> p, slug |-> s, at |-> i, inTx |-> tx]
<1>1. r \in Work /\ work' = [work EXCEPT ![w] = r]
  BY DEF StepTo
<1>2. r.pc = p /\ r.at = i /\ r.inTx = tx
  OBVIOUS
<1>3. r.pc \in Statements /\ r.at \in 1..(Migrations + 1)
  BY <1>1 DEF Work, Statements
<1> HIDE DEF r
<1> QED
  BY <1>1, <1>2, <1>3 DEF TenancyTypes

(* A step of one worker leaves the others in their turn.                   *)
LEMMA TurnsKept ==
  ASSUME TenancyTypes, WorkersInTurn, NEW w \in Tenancy!Workers,
         NEW p, NEW s, NEW i, NEW tx, StepTo(w, p, s, i, tx), applied' = applied,
         tx <=> p = "commit",
         p \in Unended =>
           \A j \in 1..Migrations : j < i => j \in applied[w[1]],
         p \in {"exec", "commit"} => i \in 1..Migrations,
         p = "commit" =>
           /\ i \notin applied[w[1]]
           /\ \A v \in Tenancy!Workers :
                v # w /\ v[1] = w[1] /\ work[v].pc = "commit" => work[v].at # i
  PROVE  WorkersInTurn'
<1>1. /\ work'[w].pc = p /\ work'[w].at = i /\ work'[w].inTx = tx
      /\ \A v \in Tenancy!Workers : v # w => work'[v] = work[v]
  BY StepFields
<1>2. SUFFICES ASSUME NEW v \in Tenancy!Workers
               PROVE  /\ work'[v].pc \in Unended =>
                           \A j \in 1..Migrations : j < work'[v].at => j \in applied[v[1]]
                      /\ work'[v].pc \in {"exec", "commit"} => work'[v].at \in 1..Migrations
                      /\ work'[v].inTx <=> work'[v].pc = "commit"
                      /\ work'[v].pc = "commit" =>
                           /\ work'[v].at \notin applied[v[1]]
                           /\ \A u \in Tenancy!Workers :
                                u[1] = v[1] /\ work'[u].pc = "commit" /\ work'[u].at = work'[v].at
                                  => u = v
  BY DEF WorkersInTurn
<1>3. CASE v = w
  BY <1>1, <1>3
<1>4. CASE v # w
  <2>1. work'[v] = work[v]
    BY <1>1, <1>4
  <2>2. ASSUME NEW u \in Tenancy!Workers, work[v].pc = "commit",
               u[1] = v[1], work'[u].pc = "commit", work'[u].at = work[v].at
        PROVE  u = v
    <3>1. CASE u = w
      BY <1>1, <1>4, <2>2, <3>1
    <3>2. CASE u # w
      BY <1>1, <2>2, <3>2 DEF WorkersInTurn
    <3> QED
      BY <3>1, <3>2
  <2> QED
    BY <2>1, <2>2 DEF WorkersInTurn
<1> QED
  BY <1>3, <1>4

(* What Create has made stands, for every tenant but the one whose command *)
(* makes this step, and for that one if the step says so.                  *)
LEMMA CreatedKept ==
  ASSUME TenancyTypes, CreatedSoFar, NEW w \in Tenancy!Workers,
         NEW p, NEW s, NEW i, NEW tx, StepTo(w, p, s, i, tx),
         applied' \in [Makers -> SUBSET (1..Migrations)],
         \A m \in Makers : applied[m] \subseteq applied'[m],
         \A m \in Makers : database[m] = "made" => database'[m] = "made",
         \A m \in Makers : w # <<m, "create">> => tenantRow'[m] = tenantRow[m],
         w[2] = "create" =>
           /\ p \in {"new", "failed"} => tenantRow'[w[1]] = 0
           /\ p \in {"database", "lock", "check", "exec", "commit", "done"} => tenantRow'[w[1]] # 0
           /\ p \in {"lock", "check", "exec", "commit", "done"} => database'[w[1]] = "made"
           /\ p = "done" => applied'[w[1]] = 1..Migrations
  PROVE  CreatedSoFar'
<1>1. /\ work'[w].pc = p
      /\ \A v \in Tenancy!Workers : v # w => work'[v] = work[v]
  BY StepFields
<1>2. SUFFICES ASSUME NEW m \in Makers
               PROVE  /\ work'[<<m, "create">>].pc \in {"new", "failed"} => tenantRow'[m] = 0
                      /\ work'[<<m, "create">>].pc \in
                           {"database", "lock", "check", "exec", "commit", "done"} => tenantRow'[m] # 0
                      /\ work'[<<m, "create">>].pc \in {"lock", "check", "exec", "commit", "done"}
                           => database'[m] = "made"
                      /\ work'[<<m, "create">>].pc = "done" => applied'[m] = 1..Migrations
  BY DEF CreatedSoFar
<1>3. CASE w = <<m, "create">>
  <2>1. w[1] = m /\ w[2] = "create"
    BY <1>3
  <2> QED
    BY <1>1, <1>3, <2>1
<1>4. CASE w # <<m, "create">>
  <2>1. work'[<<m, "create">>] = work[<<m, "create">>] /\ tenantRow'[m] = tenantRow[m]
    BY <1>1, <1>4, TenancyConstants
  <2>2. applied[m] = 1..Migrations => applied'[m] = 1..Migrations
    <3>1. applied'[m] \subseteq 1..Migrations
      OBVIOUS
    <3> QED
      BY <3>1
  <2> QED
    BY <2>1, <2>2 DEF CreatedSoFar
<1> QED
  BY <1>3, <1>4

(* A statement that changes nothing but its worker and the lock.           *)
LEMMA StatementKeeps ==
  ASSUME TenancyInv, NEW w \in Tenancy!Workers,
         NEW p, NEW s, NEW i, NEW tx, StepTo(w, p, s, i, tx),
         UNCHANGED <<applied, runs, database, tenantRow, pool, opened, flight, call>>,
         lock' \in [Makers -> Tenancy!Workers \union {Nobody}],
         tenantFaults' \in 0..MaxFaults,
         tx <=> p = "commit",
         p \in Unended =>
           \A j \in 1..Migrations : j < i => j \in applied[w[1]],
         p \in {"exec", "commit"} => i \in 1..Migrations,
         p = "commit" =>
           /\ i \notin applied[w[1]]
           /\ \A v \in Tenancy!Workers :
                v # w /\ v[1] = w[1] /\ work[v].pc = "commit" => work[v].at # i,
         w[2] = "create" =>
           /\ p \in {"new", "failed"} => tenantRow[w[1]] = 0
           /\ p \in {"database", "lock", "check", "exec", "commit", "done"} => tenantRow[w[1]] # 0
           /\ p \in {"lock", "check", "exec", "commit", "done"} => database[w[1]] = "made"
           /\ p = "done" => applied[w[1]] = 1..Migrations
  PROVE  TenancyInv'
<1>1. TenancyTypes'
  BY StepFields DEF TenancyInv, TenancyTypes
<1>2. WorkersInTurn'
  BY TurnsKept DEF TenancyInv
<1>3. CreatedSoFar'
  <2>1. applied' \in [Makers -> SUBSET (1..Migrations)]
    BY DEF TenancyInv, TenancyTypes
  <2>2. /\ \A m \in Makers : applied[m] \subseteq applied'[m]
        /\ \A m \in Makers : database[m] = "made" => database'[m] = "made"
        /\ \A m \in Makers : w # <<m, "create">> => tenantRow'[m] = tenantRow[m]
    OBVIOUS
  <2> QED
    BY <2>1, <2>2, CreatedKept DEF TenancyInv
<1>4. SlugsApart' /\ FlightsOpen' /\ Tenancy!MigratedOnce' /\ Tenancy!OnePoolPerTenant'
  BY DEF TenancyInv, SlugsApart, FlightsOpen, Tenancy!MigratedOnce, Tenancy!OnePoolPerTenant
<1> QED
  BY <1>1, <1>2, <1>3, <1>4 DEF TenancyInv

LEMMA TenancyInit == Tenancy!Init => TenancyInv
<1> SUFFICES ASSUME Tenancy!Init PROVE TenancyInv
  OBVIOUS
<1> USE TenancyConstants DEF Tenancy!Init
<1>1. \A w \in Tenancy!Workers : work[w] = [pc |-> "new", slug |-> 1, at |-> 1, inTx |-> FALSE]
  BY DEF Tenancy!Rest
<1>2. [pc |-> "new", slug |-> 1, at |-> 1, inTx |-> FALSE] \in Work
  BY DEF Work
<1>3. \A c \in Callers : call[c] = [pc |-> "idle", tenant |-> Nobody]
  BY DEF Tenancy!NoCall
<1>4. [pc |-> "idle", tenant |-> Nobody] \in GetRequest
  BY DEF GetRequest
<1>5. TenancyTypes
  <2>1. work \in [Tenancy!Workers -> Work]
    BY <1>1, <1>2
  <2>2. call \in [Callers -> GetRequest]
    BY <1>3, <1>4
  <2> QED
    BY <2>1, <2>2 DEF TenancyTypes
<1>a. ASSUME NEW w \in Tenancy!Workers
      PROVE  work[w].pc = "new" /\ work[w].at = 1 /\ work[w].inTx = FALSE
  <2>1. work[w] = [pc |-> "new", slug |-> 1, at |-> 1, inTx |-> FALSE]
    BY ONLY <1>1, w \in Tenancy!Workers
  <2> QED
    BY ONLY <2>1
<1>b. \A j \in 1..Migrations : ~(j < 1)
  OBVIOUS
<1>6. WorkersInTurn
  BY <1>a, <1>b DEF WorkersInTurn
<1>7. CreatedSoFar
  <2>1. \A m \in Makers : work[<<m, "create">>].pc = "new" /\ tenantRow[m] = 0
    BY <1>a
  <2> QED
    BY <2>1 DEF CreatedSoFar
<1>8. SlugsApart /\ Tenancy!OnePoolPerTenant /\ Tenancy!MigratedOnce
  BY DEF SlugsApart, Tenancy!OnePoolPerTenant, Tenancy!MigratedOnce
<1>9. FlightsOpen
  BY <1>3 DEF FlightsOpen
<1> QED
  BY <1>5, <1>6, <1>7, <1>8, <1>9 DEF TenancyInv

LEMMA LocksReleased ==
  ASSUME TenancyTypes, NEW w \in Tenancy!Workers, lock' = Tenancy!Released(w)
  PROVE  lock' \in [Makers -> Tenancy!Workers \union {Nobody}]
BY TenancyConstants DEF TenancyTypes, Tenancy!Released, Tenancy!Db

(* What every worker that runs applyFS has behind it.                      *)
LEMMA Working ==
  ASSUME TenancyInv, NEW w \in Tenancy!Workers
  PROVE  /\ TenancyTypes /\ work[w] \in Work /\ w[1] \in Makers
         /\ work[w].inTx = TRUE <=> work[w].pc = "commit"
         /\ work[w].pc # "commit" => work[w].inTx = FALSE
         /\ work[w].pc \in Unended =>
              \A j \in 1..Migrations : j < work[w].at => j \in applied[w[1]]
         /\ w[2] = "create" =>
              /\ work[w].pc \in {"new", "failed"} => tenantRow[w[1]] = 0
              /\ work[w].pc \in {"database", "lock", "check", "exec", "commit", "done"} =>
                   tenantRow[w[1]] # 0
              /\ work[w].pc \in {"lock", "check", "exec", "commit", "done"} =>
                   database[w[1]] = "made"
<1>1. TenancyTypes /\ work[w] \in Work /\ w[1] \in Makers
  BY TenancyConstants DEF TenancyInv, TenancyTypes
<1>2. work[w].inTx \in BOOLEAN /\ (work[w].inTx <=> work[w].pc = "commit")
  BY <1>1 DEF TenancyInv, WorkersInTurn, Work
<1>3. w[2] = "create" => w = <<w[1], "create">>
  BY TenancyConstants
<1>4. CreatedSoFar /\ WorkersInTurn
  BY DEF TenancyInv
<1> QED
  BY <1>1, <1>2, <1>3, <1>4 DEF CreatedSoFar, WorkersInTurn

LEMMA InsertTenantKeeps ==
  ASSUME TenancyInv, NEW m \in Makers, Tenancy!InsertTenant(m)
  PROVE  TenancyInv'
<1> DEFINE w == <<m, "create">>
           s == work[w].slug
<1>0. w \in Tenancy!Workers /\ w[1] = m /\ w[2] = "create" /\ TenancyTypes
  BY TenancyConstants DEF TenancyInv
<1>a. work[w] \in Work
  BY <1>0 DEF TenancyTypes
<1>1. /\ work[w].pc = "new" /\ work[w].inTx = FALSE /\ tenantRow[m] = 0
      /\ UNCHANGED <<database, applied, runs, lock, pool, opened, flight, call, tenantFaults>>
  BY <1>0, <1>a DEF Work, TenancyInv, WorkersInTurn, CreatedSoFar, Tenancy!InsertTenant, Tenancy!poolVars
<1>2. s \in 1..Slugs
  BY <1>a DEF Work
<1>b. \A j \in 1..Migrations : j < work[w].at => j \in applied[w[1]]
  BY <1>0, <1>1, Working DEF Unended
<1>3. CASE ~Tenancy!SlugTaken(m, s)
  <2>1. tenantRow' = [tenantRow EXCEPT ![m] = s] /\ Tenancy!Goto(w, "database")
    BY <1>3 DEF Tenancy!InsertTenant
  <2>2. StepTo(w, "database", s, work[w].at, FALSE)
    BY <1>0, <1>1, <2>1, WorkGoto DEF Statements
  <2>3. TenancyTypes'
    <3>1. tenantRow' \in [Makers -> 0..Slugs]
      BY <1>0, <1>2, <2>1 DEF TenancyTypes
    <3>2. work' \in [Tenancy!Workers -> Work]
      BY <1>0, <2>2, StepFields
    <3> QED
      BY <1>0, <1>1, <3>1, <3>2 DEF TenancyTypes
  <2>4. WorkersInTurn'
    BY <1>0, <1>1, <2>2, <1>b, TurnsKept DEF TenancyInv
  <2>5. CreatedSoFar'
    <3>1. /\ applied' \in [Makers -> SUBSET (1..Migrations)]
          /\ \A n \in Makers : applied[n] \subseteq applied'[n]
          /\ \A n \in Makers : database[n] = "made" => database'[n] = "made"
      BY <1>0, <1>1 DEF TenancyTypes
    <3>2. tenantRow'[m] # 0
      BY <1>0, <1>2, <2>1 DEF TenancyTypes
    <3>3. \A n \in Makers : w # <<n, "create">> => tenantRow'[n] = tenantRow[n]
      BY <1>0, <2>1 DEF TenancyTypes
    <3> HIDE DEF w
    <3> QED
      BY <1>0, <2>2, <3>1, <3>2, <3>3, CreatedKept DEF TenancyInv
  <2>6. SlugsApart'
    <3>1. SUFFICES ASSUME NEW a \in Makers, NEW b \in Makers, a # b, NameOf[b] = NameOf[a],
                          tenantRow'[b] = tenantRow'[a], tenantRow'[a] # 0
                   PROVE  FALSE
      BY DEF SlugsApart
    <3>2. \A n \in Makers : tenantRow'[n] = IF n = m THEN s ELSE tenantRow[n]
      BY <1>0, <2>1 DEF TenancyTypes
    <3>3. \A n \in Makers : NameOf[n] = NameOf[m] => tenantRow[n] # s
      BY <1>3 DEF Tenancy!SlugTaken
    <3>4. SlugsApart
      BY DEF TenancyInv
    <3> HIDE DEF s
    <3> QED
      BY <3>1, <3>2, <3>3, <3>4 DEF SlugsApart
  <2>7. FlightsOpen' /\ Tenancy!MigratedOnce' /\ Tenancy!OnePoolPerTenant'
    BY <1>1 DEF TenancyInv, FlightsOpen, Tenancy!MigratedOnce, Tenancy!OnePoolPerTenant
  <2> QED
    BY <2>3, <2>4, <2>5, <2>6, <2>7 DEF TenancyInv
<1>4. CASE Tenancy!SlugTaken(m, s)
  <2>1. /\ tenantRow' = tenantRow
        /\ work' = [work EXCEPT ![w] = IF work[w].slug = Slugs
                                       THEN [work[w] EXCEPT !.pc = "failed"]
                                       ELSE [work[w] EXCEPT !.slug = work[w].slug + 1]]
    BY <1>4 DEF Tenancy!InsertTenant
  <2>2. lock' \in [Makers -> Tenancy!Workers \union {Nobody}] /\ tenantFaults' \in 0..MaxFaults
    BY <1>0, <1>1 DEF TenancyTypes
  <2>3. CASE s = Slugs
    <3>1. Tenancy!Goto(w, "failed")
      BY <2>1, <2>3 DEF Tenancy!Goto
    <3>2. StepTo(w, "failed", s, work[w].at, FALSE)
      BY <1>0, <1>1, <3>1, WorkGoto DEF Statements
    <3> HIDE DEF w, s
    <3> QED
      BY <1>0, <1>1, <2>1, <2>2, <3>2, <1>b, StatementKeeps
  <2>4. CASE s # Slugs
    <3>1. work' = [work EXCEPT ![w] = [work[w] EXCEPT !.slug = work[w].slug + 1]]
      BY <2>1, <2>4
    <3>2. StepTo(w, "new", s + 1, work[w].at, FALSE)
      BY <1>0, <1>1, <2>4, <3>1, WorkSlug
    <3> HIDE DEF w, s
    <3> QED
      BY <1>0, <1>1, <2>1, <2>2, <3>2, <1>b, StatementKeeps
  <2> QED
    BY <2>3, <2>4
<1> QED
  BY <1>3, <1>4

(* The worker of the command that makes tenant m.                          *)
LEMMA Creating ==
  ASSUME TenancyInv, NEW m \in Makers
  PROVE  /\ <<m, "create">> \in Tenancy!Workers
         /\ <<m, "create">>[1] = m /\ <<m, "create">>[2] = "create"
         /\ TenancyTypes /\ work[<<m, "create">>] \in Work
BY TenancyConstants DEF TenancyInv, TenancyTypes

LEMMA CreateDatabaseKeeps ==
  ASSUME TenancyInv, NEW m \in Makers, Tenancy!CreateDatabase(m)
  PROVE  TenancyInv'
<1> DEFINE w == <<m, "create">>
           q == work[w]
<1>0. w \in Tenancy!Workers /\ w[1] = m /\ w[2] = "create" /\ TenancyTypes /\ q \in Work
  BY Creating
<1>1. /\ q.pc = "database" /\ q.inTx = FALSE
      /\ database' = [database EXCEPT ![m] = "made"] /\ Tenancy!Goto(w, "lock")
      /\ UNCHANGED <<tenantRow, applied, runs, lock, pool, opened, flight, call, tenantFaults>>
  BY <1>0 DEF TenancyInv, WorkersInTurn, Work, Tenancy!CreateDatabase, Tenancy!poolVars
<1>b. \A j \in 1..Migrations : j < q.at => j \in applied[w[1]]
  BY <1>0, <1>1, Working DEF Unended
<1>2. StepTo(w, "lock", q.slug, q.at, FALSE)
  BY <1>0, <1>1, WorkGoto DEF Statements
<1>3. tenantRow[m] # 0
  BY <1>1 DEF TenancyInv, CreatedSoFar
<1>4. \A n \in Makers : database'[n] = IF n = m THEN "made" ELSE database[n]
  BY <1>0, <1>1 DEF TenancyTypes
<1> HIDE DEF w
<1>5. TenancyTypes'
  <2>1. database' \in [Makers -> {"none", "made"}]
    BY <1>0, <1>1 DEF TenancyTypes
  <2>2. work' \in [Tenancy!Workers -> Work]
    BY <1>0, <1>2, StepFields
  <2> QED
    BY <1>0, <1>1, <2>1, <2>2 DEF TenancyTypes
<1>6. WorkersInTurn'
  BY <1>0, <1>1, <1>2, <1>b, TurnsKept DEF TenancyInv
<1>7. CreatedSoFar'
  <2>1. /\ applied' \in [Makers -> SUBSET (1..Migrations)]
        /\ \A n \in Makers : applied[n] \subseteq applied'[n]
        /\ \A n \in Makers : database[n] = "made" => database'[n] = "made"
        /\ \A n \in Makers : w # <<n, "create">> => tenantRow'[n] = tenantRow[n]
        /\ tenantRow'[w[1]] # 0 /\ database'[w[1]] = "made"
    BY <1>0, <1>1, <1>3, <1>4 DEF TenancyTypes
  <2> QED
    BY <1>0, <1>2, <2>1, CreatedKept DEF TenancyInv
<1>8. SlugsApart' /\ FlightsOpen' /\ Tenancy!MigratedOnce' /\ Tenancy!OnePoolPerTenant'
  BY <1>1 DEF TenancyInv, SlugsApart, FlightsOpen, Tenancy!MigratedOnce, Tenancy!OnePoolPerTenant
<1> QED
  BY <1>5, <1>6, <1>7, <1>8 DEF TenancyInv

LEMMA UndoKeeps ==
  ASSUME TenancyInv, NEW m \in Makers, Tenancy!Undo(m)
  PROVE  TenancyInv'
<1> DEFINE w == <<m, "create">>
           q == work[w]
<1>0. w \in Tenancy!Workers /\ w[1] = m /\ w[2] = "create" /\ TenancyTypes /\ q \in Work
  BY Creating
<1>1. /\ q.pc = "undo" /\ q.inTx = FALSE
      /\ tenantRow' = [tenantRow EXCEPT ![m] = 0] /\ Tenancy!Goto(w, "failed")
      /\ UNCHANGED <<database, applied, runs, lock, pool, opened, flight, call, tenantFaults>>
  BY <1>0 DEF TenancyInv, WorkersInTurn, Work, Tenancy!Undo, Tenancy!DeleteRow, Tenancy!poolVars
<1>2. StepTo(w, "failed", q.slug, q.at, FALSE)
  BY <1>0, <1>1, WorkGoto DEF Statements
<1>4. \A n \in Makers : tenantRow'[n] = IF n = m THEN 0 ELSE tenantRow[n]
  BY <1>0, <1>1 DEF TenancyTypes
<1>a. \A n \in Makers : w # <<n, "create">> => tenantRow'[n] = tenantRow[n]
  BY <1>4
<1> HIDE DEF w
<1>5. TenancyTypes'
  <2>1. tenantRow' \in [Makers -> 0..Slugs]
    BY <1>0, <1>1, TenancyConstants DEF TenancyTypes
  <2>2. work' \in [Tenancy!Workers -> Work]
    BY <1>0, <1>2, StepFields
  <2> QED
    BY <1>0, <1>1, <2>1, <2>2 DEF TenancyTypes
<1>6. WorkersInTurn'
  BY <1>0, <1>1, <1>2, TurnsKept DEF TenancyInv, Unended
<1>7. CreatedSoFar'
  <2>1. /\ applied' \in [Makers -> SUBSET (1..Migrations)]
        /\ \A n \in Makers : applied[n] \subseteq applied'[n]
        /\ \A n \in Makers : database[n] = "made" => database'[n] = "made"
        /\ tenantRow'[w[1]] = 0
    BY <1>0, <1>1, <1>4 DEF TenancyTypes
  <2> QED
    BY <1>0, <1>2, <1>a, <2>1, CreatedKept DEF TenancyInv
<1>8. SlugsApart'
  BY <1>4 DEF TenancyInv, SlugsApart
<1>9. FlightsOpen' /\ Tenancy!MigratedOnce' /\ Tenancy!OnePoolPerTenant'
  BY <1>1 DEF TenancyInv, FlightsOpen, Tenancy!MigratedOnce, Tenancy!OnePoolPerTenant
<1> QED
  BY <1>5, <1>6, <1>7, <1>8, <1>9 DEF TenancyInv

LEMMA StartMigrateKeeps ==
  ASSUME TenancyInv, NEW m \in Makers, Tenancy!StartMigrate(m)
  PROVE  TenancyInv'
<1> DEFINE w == <<m, "migrate">>
           q == work[w]
<1>0. w \in Tenancy!Workers /\ w[1] = m /\ w[2] = "migrate" /\ TenancyTypes /\ q \in Work
  BY TenancyConstants DEF TenancyInv, TenancyTypes, Tenancy!StartMigrate
<1>1. /\ q.pc = "new" /\ q.inTx = FALSE /\ Tenancy!Goto(w, "lock")
      /\ UNCHANGED <<tenantRow, database, applied, runs, lock, pool, opened, flight, call,
                     tenantFaults>>
  BY <1>0 DEF TenancyInv, WorkersInTurn, Work, Tenancy!StartMigrate, Tenancy!poolVars
<1>b. \A j \in 1..Migrations : j < q.at => j \in applied[w[1]]
  BY <1>0, <1>1, Working DEF Unended
<1>2. StepTo(w, "lock", q.slug, q.at, FALSE)
  BY <1>0, <1>1, WorkGoto DEF Statements
<1>3. lock' \in [Makers -> Tenancy!Workers \union {Nobody}] /\ tenantFaults' \in 0..MaxFaults
  BY <1>0, <1>1 DEF TenancyTypes
<1> HIDE DEF w
<1> QED
  BY <1>0, <1>1, <1>2, <1>3, <1>b, StatementKeeps

LEMMA AcquireLockKeeps ==
  ASSUME TenancyInv, NEW w \in Tenancy!Workers, Tenancy!AcquireLock(w)
  PROVE  TenancyInv'
<1>0. /\ TenancyTypes /\ work[w] \in Work /\ w[1] \in Makers /\ work[w].pc = "lock"
      /\ work[w].inTx = FALSE
  BY Working DEF Tenancy!AcquireLock
<1>1. /\ Tenancy!Goto(w, "check") /\ lock' = [lock EXCEPT ![w[1]] = w]
      /\ UNCHANGED <<tenantRow, database, applied, runs, pool, opened, flight, call, tenantFaults>>
  BY DEF Tenancy!AcquireLock, Tenancy!Db, Tenancy!poolVars
<1>b. \A j \in 1..Migrations : j < work[w].at => j \in applied[w[1]]
  BY <1>0, <1>1, Working DEF Unended
<1>2. StepTo(w, "check", work[w].slug, work[w].at, FALSE)
  BY <1>0, <1>1, WorkGoto DEF Statements
<1>3. lock' \in [Makers -> Tenancy!Workers \union {Nobody}] /\ tenantFaults' \in 0..MaxFaults
  BY <1>0, <1>1 DEF TenancyTypes
<1> QED
  BY <1>0, <1>1, <1>2, <1>3, Working, <1>b, StatementKeeps

LEMMA CheckAppliedKeeps ==
  ASSUME TenancyInv, NEW w \in Tenancy!Workers, Tenancy!CheckApplied(w)
  PROVE  TenancyInv'
<1> DEFINE i == work[w].at
<1>0. /\ TenancyTypes /\ work[w] \in Work /\ w[1] \in Makers /\ work[w].pc = "check"
      /\ work[w].inTx = FALSE
  BY Working DEF Tenancy!CheckApplied
<1>1. /\ i \in 1..Migrations
      /\ UNCHANGED <<tenantRow, database, applied, runs, lock, pool, opened, flight, call,
                     tenantFaults>>
  BY <1>0, TenancyConstants DEF Tenancy!CheckApplied, Tenancy!poolVars, Work
<1>2. \A j \in 1..Migrations : j < i => j \in applied[w[1]]
  BY <1>0, Working DEF Unended
<1>3. lock' \in [Makers -> Tenancy!Workers \union {Nobody}] /\ tenantFaults' \in 0..MaxFaults
  BY <1>0, <1>1 DEF TenancyTypes
<1>4. CASE i \in applied[w[1]]
  <2>1. work' = [work EXCEPT ![w] = Tenancy!Next_(w)]
    BY <1>4 DEF Tenancy!CheckApplied, Tenancy!Db
  <2>2. StepTo(w, "check", work[w].slug, i + 1, FALSE)
    BY <1>0, <1>1, <2>1, WorkNext
  <2>3. \A j \in 1..Migrations : j < i + 1 => j \in applied[w[1]]
    BY <1>1, <1>2, <1>4
  <2> HIDE DEF i
  <2> QED
    BY <1>0, <1>1, <1>3, <2>2, <2>3, Working, StatementKeeps
<1>5. CASE i \notin applied[w[1]]
  <2>1. Tenancy!Goto(w, "exec")
    BY <1>5 DEF Tenancy!CheckApplied, Tenancy!Db, Tenancy!Goto
  <2>2. StepTo(w, "exec", work[w].slug, i, FALSE)
    BY <1>0, <2>1, WorkGoto DEF Statements
  <2> HIDE DEF i
  <2> QED
    BY <1>0, <1>1, <1>2, <1>3, <2>2, Working, StatementKeeps
<1> QED
  BY <1>4, <1>5

(* A worker that ends, by an error or by a crash.                          *)
LEMMA EndKeeps ==
  ASSUME TenancyInv, NEW w \in Tenancy!Workers, NEW p \in {"undo", "failed", "crashed"},
         NEW s, NEW i, StepTo(w, p, s, i, FALSE),
         p = "failed" => w[2] # "create",
         UNCHANGED <<applied, runs, database, tenantRow, pool, opened, flight, call>>,
         lock' \in [Makers -> Tenancy!Workers \union {Nobody}],
         tenantFaults' \in 0..MaxFaults
  PROVE  TenancyInv'
<1>1. p \notin Unended /\ p \notin {"commit", "new", "done"}
  BY DEF Unended
<1> QED
  BY <1>1, StatementKeeps

LEMMA ExecKeeps ==
  ASSUME TenancyInv, NEW w \in Tenancy!Workers, Tenancy!Exec(w)
  PROVE  TenancyInv'
<1> DEFINE i == work[w].at
<1>0. /\ TenancyTypes /\ work[w] \in Work /\ w[1] \in Makers /\ work[w].pc = "exec"
      /\ work[w].inTx = FALSE
  BY Working DEF Tenancy!Exec
<1>1. /\ i \in 1..Migrations
      /\ UNCHANGED <<tenantRow, database, applied, runs, pool, opened, flight, call, tenantFaults>>
  BY <1>0 DEF Tenancy!Exec, Tenancy!poolVars, TenancyInv, WorkersInTurn
<1>2. \A j \in 1..Migrations : j < i => j \in applied[w[1]]
  BY <1>0, Working DEF Unended
<1>3. tenantFaults' \in 0..MaxFaults
  BY <1>0, <1>1 DEF TenancyTypes
<1>4. CASE i \in applied[w[1]]
  <2>1. \E p \in {"undo", "failed"} : /\ p = "failed" => w[2] # "create"
                                      /\ Tenancy!Goto(w, p)
    BY <1>4 DEF Tenancy!Exec, Tenancy!Db, Tenancy!ApplyFails
  <2>2. PICK p \in {"undo", "failed"} : /\ p = "failed" => w[2] # "create"
                                        /\ Tenancy!Goto(w, p)
    BY <2>1
  <2>3. StepTo(w, p, work[w].slug, i, FALSE)
    BY <1>0, <2>2, WorkGoto DEF Statements
  <2>4. lock' \in [Makers -> Tenancy!Workers \union {Nobody}]
    BY <1>0, <1>4, LocksReleased DEF Tenancy!Exec, Tenancy!Db, Tenancy!ApplyFails
  <2> HIDE DEF i
  <2> QED
    BY <1>1, <1>3, <2>2, <2>3, <2>4, EndKeeps
<1>5. CASE i \notin applied[w[1]]
  <2>1. /\ work' = [work EXCEPT ![w] = [work[w] EXCEPT !.pc = "commit", !.inTx = TRUE]]
        /\ lock' = lock
    BY <1>5 DEF Tenancy!Exec, Tenancy!Db
  <2>2. StepTo(w, "commit", work[w].slug, i, TRUE)
    <3>1. work' = [work EXCEPT ![w] = [work[w] EXCEPT !.inTx = TRUE, !.pc = "commit"]]
      <4>1. PICK q \in Work : q = work[w]
        BY <1>0
      <4>2. [q EXCEPT !.pc = "commit", !.inTx = TRUE] = [q EXCEPT !.inTx = TRUE, !.pc = "commit"]
        BY DEF Work
      <4> QED
        BY <2>1, <4>1, <4>2
    <3> QED
      BY <1>0, <3>1, WorkInTx DEF Statements
  <2>3. lock' \in [Makers -> Tenancy!Workers \union {Nobody}]
    BY <1>0, <2>1 DEF TenancyTypes
  <2>4. ASSUME NEW v \in Tenancy!Workers, v # w, v[1] = w[1], work[v].pc = "commit"
        PROVE  work[v].at # i
    <3>1. work[v].inTx
      BY <2>4 DEF TenancyInv, WorkersInTurn
    <3> QED
      BY <2>4, <3>1 DEF Tenancy!Exec, Tenancy!Db
  <2> HIDE DEF i
  <2> QED
    BY <1>0, <1>1, <1>2, <1>3, <1>5, <2>2, <2>3, <2>4, Working, StatementKeeps
<1> QED
  BY <1>4, <1>5

LEMMA ReleaseLockKeeps ==
  ASSUME TenancyInv, NEW w \in Tenancy!Workers, Tenancy!ReleaseLock(w)
  PROVE  TenancyInv'
<1>0. /\ TenancyTypes /\ work[w] \in Work /\ w[1] \in Makers /\ work[w].pc = "check"
      /\ work[w].inTx = FALSE
  BY Working DEF Tenancy!ReleaseLock
<1>1. /\ Tenancy!Goto(w, "done") /\ work[w].at > Migrations
      /\ UNCHANGED <<tenantRow, database, applied, runs, pool, opened, flight, call, tenantFaults>>
  BY DEF Tenancy!ReleaseLock, Tenancy!poolVars
<1>2. StepTo(w, "done", work[w].slug, work[w].at, FALSE)
  BY <1>0, <1>1, WorkGoto DEF Statements
<1>3. lock' \in [Makers -> Tenancy!Workers \union {Nobody}] /\ tenantFaults' \in 0..MaxFaults
  BY <1>0, <1>1, LocksReleased DEF TenancyTypes, Tenancy!ReleaseLock
<1>4. applied[w[1]] = 1..Migrations
  <2>1. \A j \in 1..Migrations : j \in applied[w[1]]
    <3>1. work[w].at \in Nat
      BY <1>0 DEF Work
    <3>2. \A j \in 1..Migrations : j < work[w].at
      BY <1>1, <3>1, TenancyConstants
    <3> QED
      BY <1>0, <3>2, Working DEF Unended
  <2>2. applied[w[1]] \subseteq 1..Migrations
    BY <1>0 DEF TenancyTypes
  <2> QED
    BY <2>1, <2>2
<1>5. "done" \notin Unended
  BY DEF Unended
<1> QED
  BY <1>0, <1>1, <1>2, <1>3, <1>4, <1>5, Working, StatementKeeps

LEMMA FaultBound ==
  ASSUME TenancyTypes, Tenancy!Fault
  PROVE  tenantFaults' \in 0..MaxFaults
BY TenancyConstants DEF TenancyTypes, Tenancy!Fault

LEMMA FailKeeps ==
  ASSUME TenancyInv, NEW w \in Tenancy!Workers, Tenancy!Fail(w)
  PROVE  TenancyInv'
<1>0. TenancyTypes
  BY DEF TenancyInv
<1>1. UNCHANGED <<tenantRow, database, applied, runs, pool, opened, flight, call>>
  BY DEF Tenancy!Fail, Tenancy!poolVars
<1>2. PICK p \in {"undo", "failed"} :
        /\ p = "failed" => w[2] # "create"
        /\ work' = [work EXCEPT ![w] = [work[w] EXCEPT !.inTx = FALSE, !.pc = p]]
  BY DEF Tenancy!Fail
<1>3. StepTo(w, p, work[w].slug, work[w].at, FALSE)
  BY <1>0, <1>2, WorkInTx DEF Statements
<1>4. lock' \in [Makers -> Tenancy!Workers \union {Nobody}] /\ tenantFaults' \in 0..MaxFaults
  BY <1>0, LocksReleased, FaultBound DEF Tenancy!Fail
<1> QED
  BY <1>1, <1>2, <1>3, <1>4, EndKeeps

LEMMA CrashKeeps ==
  ASSUME TenancyInv, NEW w \in Tenancy!Workers, Tenancy!Crash(w)
  PROVE  TenancyInv'
<1>0. TenancyTypes
  BY DEF TenancyInv
<1>1. UNCHANGED <<tenantRow, database, applied, runs, pool, opened, flight, call>>
  BY DEF Tenancy!Crash, Tenancy!poolVars
<1>2. work' = [work EXCEPT ![w] = [work[w] EXCEPT !.inTx = FALSE, !.pc = "crashed"]]
  BY DEF Tenancy!Crash
<1>3. StepTo(w, "crashed", work[w].slug, work[w].at, FALSE)
  BY <1>0, <1>2, WorkInTx DEF Statements
<1>4. lock' \in [Makers -> Tenancy!Workers \union {Nobody}] /\ tenantFaults' \in 0..MaxFaults
  BY <1>0, LocksReleased, FaultBound DEF Tenancy!Crash
<1> QED
  BY <1>1, <1>3, <1>4, EndKeeps

LEMMA LoseLockKeeps ==
  ASSUME TenancyInv, NEW w \in Tenancy!Workers, Tenancy!LoseLock(w)
  PROVE  TenancyInv'
<1>0. TenancyTypes
  BY DEF TenancyInv
<1>1. UNCHANGED <<tenantRow, database, applied, runs, work, pool, opened, flight, call>>
  BY DEF Tenancy!LoseLock, Tenancy!poolVars
<1>2. lock' \in [Makers -> Tenancy!Workers \union {Nobody}] /\ tenantFaults' \in 0..MaxFaults
  BY <1>0, LocksReleased, FaultBound DEF Tenancy!LoseLock
<1>3. TenancyTypes'
  BY <1>0, <1>1, <1>2 DEF TenancyTypes
<1> QED
  BY <1>1, <1>3 DEF TenancyInv, WorkersInTurn, CreatedSoFar, SlugsApart, FlightsOpen,
     Tenancy!MigratedOnce, Tenancy!OnePoolPerTenant

LEMMA CommitMigrationKeeps ==
  ASSUME TenancyInv, NEW w \in Tenancy!Workers, Tenancy!CommitMigration(w)
  PROVE  TenancyInv'
<1> DEFINE i == work[w].at
           m == w[1]
<1>0. TenancyTypes /\ work[w] \in Work /\ m \in Makers /\ work[w].pc = "commit"
  BY Working DEF Tenancy!CommitMigration
<1>1. /\ applied' = [applied EXCEPT ![m] = @ \union {i}]
      /\ runs' = [runs EXCEPT ![<<m, i>>] = @ + 1]
      /\ work' = [work EXCEPT ![w] = Tenancy!Next_(w)]
      /\ UNCHANGED <<tenantRow, database, lock, pool, opened, flight, call, tenantFaults>>
  BY DEF Tenancy!CommitMigration, Tenancy!Recorded, Tenancy!Db, Tenancy!poolVars
<1>2. /\ i \in 1..Migrations /\ i \notin applied[m]
      /\ \A v \in Tenancy!Workers : v[1] = m /\ work[v].pc = "commit" /\ work[v].at = i => v = w
  BY <1>0 DEF TenancyInv, WorkersInTurn
<1>3. \A j \in 1..Migrations : j < i => j \in applied[m]
  BY <1>0, Working DEF Unended
<1>4. StepTo(w, "check", work[w].slug, i + 1, FALSE)
  BY <1>0, <1>1, <1>2, WorkNext
<1>5. /\ work'[w].pc = "check" /\ work'[w].at = i + 1 /\ work'[w].inTx = FALSE
      /\ \A v \in Tenancy!Workers : v # w => work'[v] = work[v]
      /\ work' \in [Tenancy!Workers -> Work]
  <2>1. PICK tx : tx = FALSE
    OBVIOUS
  <2>2. StepTo(w, "check", work[w].slug, i + 1, tx)
    BY <1>4, <2>1
  <2> HIDE DEF i
  <2>3. /\ work'[w].pc = "check" /\ work'[w].at = i + 1 /\ work'[w].inTx = tx
        /\ \A v \in Tenancy!Workers : v # w => work'[v] = work[v]
        /\ work' \in [Tenancy!Workers -> Work]
    BY <1>0, <2>2, StepFields
  <2> QED
    BY <2>1, <2>3
<1>6. /\ applied' \in [Makers -> SUBSET (1..Migrations)]
      /\ \A n \in Makers : applied'[n] = IF n = m THEN applied[m] \union {i} ELSE applied[n]
  BY <1>0, <1>1, <1>2 DEF TenancyTypes
<1>7. /\ runs' \in [Makers \X (1..Migrations) -> Nat]
      /\ \A n \in Makers, j \in 1..Migrations :
           runs'[<<n, j>>] = IF n = m /\ j = i THEN runs[<<m, i>>] + 1 ELSE runs[<<n, j>>]
  <2>1. runs \in [Makers \X (1..Migrations) -> Nat]
    BY <1>0 DEF TenancyTypes
  <2>2. <<m, i>> \in Makers \X (1..Migrations)
    BY <1>0, <1>2
  <2>3. runs[<<m, i>>] + 1 \in Nat
    BY <2>1, <2>2
  <2> HIDE DEF m, i
  <2> QED
    BY <1>0, <1>1, <1>2, <2>1, <2>2, <2>3
<1> HIDE DEF m, i
<1>8. TenancyTypes'
  BY <1>0, <1>1, <1>5, <1>6, <1>7 DEF TenancyTypes
<1>9. WorkersInTurn'
  <2>1. SUFFICES ASSUME NEW v \in Tenancy!Workers
                 PROVE  /\ work'[v].pc \in Unended =>
                             \A j \in 1..Migrations : j < work'[v].at => j \in applied'[v[1]]
                        /\ work'[v].pc \in {"exec", "commit"} => work'[v].at \in 1..Migrations
                        /\ work'[v].inTx <=> work'[v].pc = "commit"
                        /\ work'[v].pc = "commit" =>
                             /\ work'[v].at \notin applied'[v[1]]
                             /\ \A u \in Tenancy!Workers :
                                  u[1] = v[1] /\ work'[u].pc = "commit" /\ work'[u].at = work'[v].at
                                    => u = v
    BY DEF WorkersInTurn
  <2>2. CASE v = w
    <3>1. v[1] = m
      BY <2>2 DEF m
    <3>2. \A j \in 1..Migrations : j < i + 1 => j \in applied'[m]
      BY <1>0, <1>2, <1>3, <1>6
    <3> QED
      BY <1>5, <2>2, <3>1, <3>2
  <2>3. CASE v # w
    <3>1. work'[v] = work[v] /\ v[1] \in Makers
      BY <1>5, <2>3, TenancyConstants
    <3>2. applied[v[1]] \subseteq applied'[v[1]]
      BY <1>6, <3>1
    <3>3. work[v].pc = "commit" => work[v].at \notin applied'[v[1]]
      BY <1>2, <1>6, <2>3, <3>1 DEF TenancyInv, WorkersInTurn
    <3>4. ASSUME NEW u \in Tenancy!Workers, work[v].pc = "commit",
                 u[1] = v[1], work'[u].pc = "commit", work'[u].at = work[v].at
          PROVE  u = v
      <4>1. u # w
        BY <1>5, <3>4
      <4> QED
        BY <1>5, <3>4, <4>1 DEF TenancyInv, WorkersInTurn
    <3> QED
      BY <3>1, <3>2, <3>3, <3>4 DEF TenancyInv, WorkersInTurn
  <2> QED
    BY <2>2, <2>3
<1>10. CreatedSoFar'
  <2>1. /\ \A n \in Makers : applied[n] \subseteq applied'[n]
        /\ \A n \in Makers : database[n] = "made" => database'[n] = "made"
        /\ \A n \in Makers : w # <<n, "create">> => tenantRow'[n] = tenantRow[n]
    BY <1>1, <1>6
  <2>2. w[2] = "create" => tenantRow'[w[1]] # 0 /\ database'[w[1]] = "made"
    BY <1>0, <1>1, Working
  <2> QED
    BY <1>0, <1>4, <1>6, <2>1, <2>2, CreatedKept DEF TenancyInv
<1>11. Tenancy!MigratedOnce'
  <2>1. SUFFICES ASSUME NEW n \in Makers, NEW j \in 1..Migrations
                 PROVE  /\ runs'[<<n, j>>] = IF j \in applied'[n] THEN 1 ELSE 0
                        /\ j \in applied'[n] => 1..j \subseteq applied'[n]
    BY DEF Tenancy!MigratedOnce
  <2>2. /\ runs[<<n, j>>] = IF j \in applied[n] THEN 1 ELSE 0
        /\ j \in applied[n] => 1..j \subseteq applied[n]
    BY DEF TenancyInv, Tenancy!MigratedOnce
  <2>3. CASE n = m /\ j = i
    <3>1. runs'[<<n, j>>] = 1
      BY <1>2, <1>7, <2>2, <2>3
    <3>2. 1..i \subseteq applied'[m]
      BY <1>0, <1>2, <1>3, <1>6, TenancyConstants
    <3> QED
      BY <1>6, <2>3, <3>1, <3>2
  <2>4. CASE ~(n = m /\ j = i)
    BY <1>6, <1>7, <2>2, <2>4
  <2> QED
    BY <2>3, <2>4
<1>12. SlugsApart' /\ FlightsOpen' /\ Tenancy!OnePoolPerTenant'
  BY <1>1 DEF TenancyInv, SlugsApart, FlightsOpen, Tenancy!OnePoolPerTenant
<1> QED
  BY <1>8, <1>9, <1>10, <1>11, <1>12 DEF TenancyInv

(* A step of Router.Get leaves the databases alone.                        *)
LEMMA PoolStepKeeps ==
  ASSUME TenancyInv, UNCHANGED <<tenantRow, database, applied, runs, lock, work, tenantFaults>>,
         pool' \in [Makers -> BOOLEAN], opened' \in [Makers -> Nat],
         flight' \in [Makers -> Callers \union {Nobody}],
         call' \in [Callers -> GetRequest],
         FlightsOpen', Tenancy!OnePoolPerTenant'
  PROVE  TenancyInv'
<1>1. TenancyTypes'
  BY DEF TenancyInv, TenancyTypes
<1> QED
  BY <1>1 DEF TenancyInv, WorkersInTurn, CreatedSoFar, SlugsApart, Tenancy!MigratedOnce

LEMMA GetCallKeeps ==
  ASSUME TenancyInv, NEW c \in Callers, NEW m \in Makers, Tenancy!GetCall(c, m)
  PROVE  TenancyInv'
<1> DEFINE r == [pc |-> "fly", tenant |-> m]
<1>0. /\ TenancyTypes /\ call[c].pc = "idle" /\ call' = [call EXCEPT ![c] = r]
      /\ UNCHANGED <<tenantRow, database, applied, runs, lock, work, pool, opened, flight,
                     tenantFaults>>
  BY DEF TenancyInv, Tenancy!GetCall, Tenancy!makeVars
<1>1. r \in GetRequest /\ r.pc = "fly" /\ r.tenant = m
  BY DEF GetRequest
<1> HIDE DEF r
<1>2. call' \in [Callers -> GetRequest] /\ \A d \in Callers : call'[d] = IF d = c THEN r ELSE call[d]
  BY <1>0, <1>1 DEF TenancyTypes
<1>3. FlightsOpen'
  BY <1>0, <1>1, <1>2 DEF TenancyInv, FlightsOpen
<1>4. Tenancy!OnePoolPerTenant'
  BY <1>0 DEF TenancyInv, Tenancy!OnePoolPerTenant
<1> QED
  BY <1>0, <1>2, <1>3, <1>4, PoolStepKeeps DEF TenancyTypes

LEMMA FlyKeeps ==
  ASSUME TenancyInv, NEW c \in Callers, Tenancy!Fly(c)
  PROVE  TenancyInv'
<1> DEFINE m == call[c].tenant
<1>0. /\ TenancyTypes /\ call[c].pc = "fly" /\ flight[m] = Nobody /\ m \in Makers
      /\ UNCHANGED <<tenantRow, database, applied, runs, lock, work, pool, opened, tenantFaults>>
  BY DEF TenancyInv, FlightsOpen, Tenancy!Fly, Tenancy!FirstFlies, Tenancy!makeVars
<1>1. Tenancy!OnePoolPerTenant'
  BY <1>0 DEF TenancyInv, Tenancy!OnePoolPerTenant
<1>2. CASE pool[m]
  <2>1. call' = [call EXCEPT ![c] = Tenancy!NoCall] /\ flight' = flight
    BY <1>2 DEF Tenancy!Fly
  <2>2. Tenancy!NoCall \in GetRequest /\ Tenancy!NoCall.pc = "idle"
    BY DEF Tenancy!NoCall, GetRequest
  <2>3. /\ call' \in [Callers -> GetRequest]
        /\ \A d \in Callers : call'[d] = IF d = c THEN Tenancy!NoCall ELSE call[d]
    BY <1>0, <2>1, <2>2 DEF TenancyTypes
  <2>4. FlightsOpen'
    BY <1>0, <2>1, <2>2, <2>3 DEF TenancyInv, FlightsOpen
  <2> HIDE DEF m
  <2> QED
    BY <1>0, <1>1, <2>1, <2>3, <2>4, PoolStepKeeps DEF TenancyTypes
<1>3. CASE ~pool[m]
  <2>1. call' = [call EXCEPT ![c].pc = "open"] /\ flight' = [flight EXCEPT ![m] = c]
    BY <1>3 DEF Tenancy!Fly
  <2>2. PICK q \in GetRequest : q = call[c]
    BY <1>0 DEF TenancyTypes
  <2>3. PICK n : n = [q EXCEPT !.pc = "open"]
    OBVIOUS
  <2>4. n = [pc |-> "open", tenant |-> q.tenant]
    BY <2>3 DEF GetRequest
  <2>5. n \in GetRequest /\ n.pc = "open" /\ n.tenant = m
    BY <2>2, <2>4 DEF GetRequest
  <2>6. call' = [call EXCEPT ![c] = n]
    BY <2>1, <2>2, <2>3
  <2> HIDE DEF m
  <2>7. /\ call' \in [Callers -> GetRequest]
        /\ \A d \in Callers : call'[d] = IF d = c THEN n ELSE call[d]
    BY <1>0, <2>5, <2>6 DEF TenancyTypes
  <2>8. /\ flight' \in [Makers -> Callers \union {Nobody}]
        /\ \A k \in Makers : flight'[k] = IF k = m THEN c ELSE flight[k]
    BY <1>0, <2>1 DEF TenancyTypes
  <2>9. FlightsOpen'
    BY <1>0, <1>3, <2>5, <2>7, <2>8, TenancyConstants DEF TenancyInv, FlightsOpen
  <2> QED
    BY <1>0, <1>1, <2>7, <2>8, <2>9, PoolStepKeeps DEF TenancyTypes
<1> QED
  BY <1>2, <1>3

LEMMA OpenKeeps ==
  ASSUME TenancyInv, NEW c \in Callers, Tenancy!Open(c)
  PROVE  TenancyInv'
<1> DEFINE m == call[c].tenant
           opens == tenantRow[m] # 0 /\ database[m] = "made"
           ends(d) == d = c \/ (call[d] = [pc |-> "fly", tenant |-> m] /\ flight[m] = c)
<1>0. /\ TenancyTypes /\ call[c].pc = "open" /\ flight[m] = c /\ m \in Makers /\ ~pool[m]
      /\ UNCHANGED <<tenantRow, database, applied, runs, lock, work, tenantFaults>>
  BY DEF TenancyInv, FlightsOpen, Tenancy!Open, Tenancy!makeVars
<1>1. /\ opened' = [opened EXCEPT ![m] = IF opens THEN opened[m] + 1 ELSE opened[m]]
      /\ pool' = [pool EXCEPT ![m] = pool[m] \/ opens]
      /\ flight' = [flight EXCEPT ![m] = Nobody]
      /\ call' = [d \in Callers |-> IF ends(d) THEN Tenancy!NoCall ELSE call[d]]
  BY DEF Tenancy!Open
<1>2. Tenancy!NoCall \in GetRequest /\ Tenancy!NoCall.pc = "idle"
  BY DEF Tenancy!NoCall, GetRequest
<1>3. \A d \in Callers : call[d].pc = "open" /\ call[d].tenant = m => d = c
  BY <1>0 DEF TenancyInv, FlightsOpen
<1>4. \A d \in Callers : ends(d) /\ d # c => call[d].pc = "fly"
  OBVIOUS
<1> HIDE DEF m, opens, ends
<1>5. /\ call' \in [Callers -> GetRequest]
      /\ \A d \in Callers : call'[d] = IF ends(d) THEN Tenancy!NoCall ELSE call[d]
  BY <1>0, <1>1, <1>2 DEF TenancyTypes
<1>6. /\ flight' \in [Makers -> Callers \union {Nobody}]
      /\ \A k \in Makers : flight'[k] = IF k = m THEN Nobody ELSE flight[k]
  BY <1>0, <1>1 DEF TenancyTypes
<1>7. /\ pool' \in [Makers -> BOOLEAN]
      /\ \A k \in Makers : k # m => pool'[k] = pool[k]
      /\ pool'[m] <=> opens
  BY <1>0, <1>1 DEF TenancyTypes, opens
<1>8. opened[m] = 0
  BY <1>0 DEF TenancyInv, Tenancy!OnePoolPerTenant
<1>9. /\ opened' \in [Makers -> Nat]
      /\ \A k \in Makers : k # m => opened'[k] = opened[k]
      /\ opens => opened'[m] = 1
      /\ ~opens => opened'[m] = 0
  BY <1>0, <1>1, <1>8 DEF TenancyTypes
<1>10. Tenancy!OnePoolPerTenant'
  BY <1>7, <1>9 DEF TenancyInv, Tenancy!OnePoolPerTenant
<1>11. FlightsOpen'
  <2>1. ASSUME NEW d \in Callers, call'[d].pc # "idle"
        PROVE  call'[d] = call[d] /\ d # c
    BY <1>2, <1>5, <2>1 DEF ends
  <2>2. ASSUME NEW d \in Callers, call'[d].pc = "open"
        PROVE  flight'[call'[d].tenant] = d /\ ~pool'[call'[d].tenant]
    <3>1. call'[d] = call[d] /\ d # c
      BY <2>1, <2>2
    <3>2. call[d].tenant # m
      BY <1>3, <2>2, <3>1
    <3>3. call[d].tenant \in Makers /\ flight[call[d].tenant] = d /\ ~pool[call[d].tenant]
      BY <2>2, <3>1 DEF TenancyInv, FlightsOpen
    <3> QED
      BY <1>6, <1>7, <3>1, <3>2, <3>3
  <2>3. ASSUME NEW k \in Makers, flight'[k] \in Callers
        PROVE  call'[flight'[k]].pc = "open" /\ call'[flight'[k]].tenant = k
    <3>1. k # m /\ flight'[k] = flight[k]
      BY <1>6, <2>3, TenancyConstants
    <3>2. call[flight[k]].pc = "open" /\ call[flight[k]].tenant = k
      BY <2>3, <3>1 DEF TenancyInv, FlightsOpen
    <3>3. flight[k] # c
      BY <3>1, <3>2 DEF m
    <3>4. ~ends(flight[k])
      BY <1>4, <2>3, <3>1, <3>2, <3>3
    <3> QED
      BY <1>5, <2>3, <3>1, <3>2, <3>4
  <2> QED
    BY <2>1, <2>2, <2>3 DEF TenancyInv, FlightsOpen
<1> QED
  BY <1>0, <1>5, <1>6, <1>7, <1>9, <1>10, <1>11, PoolStepKeeps

LEMMA TenancyKept == ASSUME TenancyInv, Tenancy!Next PROVE TenancyInv'
<1>1. ASSUME NEW m \in Makers,
             \/ Tenancy!InsertTenant(m) \/ Tenancy!CreateDatabase(m)
             \/ Tenancy!StartMigrate(m) \/ Tenancy!Undo(m)
      PROVE  TenancyInv'
  BY <1>1, InsertTenantKeeps, CreateDatabaseKeeps, StartMigrateKeeps, UndoKeeps
<1>2. ASSUME NEW w \in Tenancy!Workers,
             \/ Tenancy!AcquireLock(w) \/ Tenancy!CheckApplied(w) \/ Tenancy!Exec(w)
             \/ Tenancy!CommitMigration(w) \/ Tenancy!ReleaseLock(w)
             \/ Tenancy!Fail(w) \/ Tenancy!Crash(w) \/ Tenancy!LoseLock(w)
      PROVE  TenancyInv'
  BY <1>2, AcquireLockKeeps, CheckAppliedKeeps, ExecKeeps, CommitMigrationKeeps,
     ReleaseLockKeeps, FailKeeps, CrashKeeps, LoseLockKeeps
<1>3. ASSUME NEW c \in Callers,
             (\E m \in Makers : Tenancy!GetCall(c, m)) \/ Tenancy!Fly(c) \/ Tenancy!Open(c)
      PROVE  TenancyInv'
  BY <1>3, GetCallKeeps, FlyKeeps, OpenKeeps
<1> QED
  BY <1>1, <1>2, <1>3 DEF Tenancy!Next

LEMMA TenancyImplies ==
  TenancyInv => /\ Tenancy!TypeOK /\ Tenancy!TenantsAreUsable
                /\ Tenancy!MigratedOnce /\ Tenancy!OnePoolPerTenant
<1> SUFFICES ASSUME TenancyInv
             PROVE  Tenancy!TypeOK /\ Tenancy!TenantsAreUsable
  BY DEF TenancyInv
<1>1. Tenancy!TypeOK
  BY DEF TenancyInv, TenancyTypes, Tenancy!TypeOK, GetRequest
<1>2. Tenancy!TenantsAreUsable
  BY DEF TenancyInv, CreatedSoFar, SlugsApart, Tenancy!TenantsAreUsable
<1> QED
  BY <1>1, <1>2

TenancyPartInv == part = "tenancy" => TenancyInv

LEMMA TenancyPartStep == TenancyPartInv /\ [Next]_vars => TenancyPartInv'
<1> SUFFICES ASSUME TenancyPartInv, [Next]_vars, part' = "tenancy" PROVE TenancyInv'
  BY DEF TenancyPartInv
<1>1. part = "tenancy" /\ (Tenancy!Next \/ UNCHANGED tenancyVars)
  BY DEF Next, OthersIdle, Idle, vars, RegistryStep, TenancyStep, SyncStep, BundleStep,
     SetupStep, GraphStep, RulesStep, MigrationStep
<1>2. TenancyInv
  BY <1>1 DEF TenancyPartInv
<1>3. CASE Tenancy!Next
  BY <1>2, <1>3, TenancyKept
<1>4. CASE UNCHANGED tenancyVars
  BY <1>2, <1>4 DEF tenancyVars, TenancyInv, TenancyTypes, WorkersInTurn, CreatedSoFar,
     SlugsApart, FlightsOpen, Tenancy!MigratedOnce, Tenancy!OnePoolPerTenant
<1> QED
  BY <1>1, <1>3, <1>4

(* For any commands that create tenants and migrate their databases, any   *)
(* names, migrations, crashes and lost locks: a tenant that Create returns *)
(* has its database with every migration, and its slug to itself; each     *)
(* migration takes effect once, even when the lock is lost; and Router.Get *)
(* opens one pool per tenant.                                              *)
THEOREM TenantsSound == Spec => []TenantsAreSound
<1>1. Init => TenancyPartInv
  BY TenancyInit DEF Init, TenancyPartInv
<1>2. TenancyPartInv => TenantsAreSound
  BY TenancyImplies DEF TenancyPartInv, TenantsAreSound
<1> QED
  BY <1>1, <1>2, TenancyPartStep, PTL DEF Spec
-----------------------------------------------------------------------------
(* Bundles that are installed.                                             *)

BundleKinds == {"entity", "form"} \X BundleTypes \X BundleVersions
BundleRow == [status : BundleInstall!Statuses, by : Bundles \union {"core", "none"}]
Install == [pc : {"idle", "refused", "publish", "check", "seed", "installed", "incomplete"},
            pos : Nat \ {0}, blocked : BOOLEAN]
ItemsOf(b) == {BundleItems[b][i] : i \in 1..Len(BundleItems[b])}

BundleTypesOK ==
  /\ bundleRow \in [BundleKinds -> BundleRow]
  /\ owners \in [Codes -> BundleTypes \union {"none"}]
  /\ graph \in [Codes -> SUBSET BundleTypes]
  /\ install \in [Bundles -> Install]
  /\ bundleStops \in 0..MaxBundleStops

InstallsAlone == \A a, b \in Bundles : BundleInstall!Running(a) /\ BundleInstall!Running(b) => a = b

(* A definition is of a bundle, or of the program and then of a type that  *)
(* ships with it.                                                          *)
RowsAreOwned ==
  \A k \in BundleKinds : bundleRow[k].status # "absent" =>
    /\ bundleRow[k].by # "none"
    /\ bundleRow[k].by = "core" => k[2] \in DOMAIN BuiltIn

(* What an install found before its first statement still holds at the last.*)
NothingSpeaksAgainst(b) ==
  /\ \A k \in ItemsOf(b) : bundleRow[k].status # "absent" => bundleRow[k].by = b
  /\ \A k \in ItemsOf(b), v \in BundleVersions :
       k[1] = "entity" /\ bundleRow[<<"entity", k[2], v>>].status = "published" =>
         BundleInstall!AuthorOf(bundleRow[<<"entity", k[2], v>>].by) = Author[b]
  /\ \A t \in DOMAIN Graphs[b] : owners[Graphs[b][t]] \in {"none", t}
ChecksHold == \A b \in Bundles : BundleInstall!Running(b) => NothingSpeaksAgainst(b)

(* An install leaves its items behind it as its own.                       *)
Landed(b, k) == bundleRow[k].by = b /\ bundleRow[k].status \in {"published", "rolled_back"}
InstallsLand ==
  \A b \in Bundles :
    /\ install[b].pc = "idle" => install[b].pos = 1
    /\ install[b].pc = "publish" =>
         /\ install[b].pos \in 1..Len(BundleItems[b])
         /\ \A i \in 1..Len(BundleItems[b]) : i < install[b].pos => Landed(b, BundleItems[b][i])
    /\ install[b].pc \in {"check", "seed", "installed", "incomplete"} =>
         \A k \in ItemsOf(b) : Landed(b, k)

(* A status graph has statuses of the type that owns its code.             *)
GraphsAreOwned == \A c \in Codes : \A t \in graph[c] : owners[c] = t

BundleInv ==
  /\ BundleTypesOK /\ InstallsAlone /\ RowsAreOwned /\ ChecksHold
  /\ InstallsLand /\ GraphsAreOwned /\ BundleInstall!OneOwner

Ended == {"idle", "refused", "installed", "incomplete"}
InstallTo(b, p, i, x) ==
  LET r == [pc |-> p, pos |-> i, blocked |-> x]
  IN  r \in Install /\ install' = [install EXCEPT ![b] = r]
RowTo(k, s, by) ==
  LET r == [status |-> s, by |-> by]
  IN  r \in BundleRow /\ bundleRow' = [bundleRow EXCEPT ![k] = r]

LEMMA BundleConstants ==
  /\ "core" \notin Bundles /\ "none" \notin Bundles /\ "none" \notin BundleTypes
  /\ MaxBundleStops \in Nat /\ BundleInstall!None = "none" /\ BundleInstall!Core = "core"
  /\ BundleInstall!Kinds \X BundleTypes \X BundleVersions = BundleKinds
BY BundlesAssumption DEF BundleInstall!None, BundleInstall!Core, BundleInstall!Kinds, BundleKinds

LEMMA BundleItemTypes ==
  ASSUME NEW b \in Bundles
  PROVE  /\ BundleInstall!Range(BundleItems[b]) = ItemsOf(b)
         /\ ItemsOf(b) \subseteq BundleKinds
         /\ Len(BundleItems[b]) \in Nat \ {0}
         /\ \A i \in 1..Len(BundleItems[b]) :
              BundleItems[b][i] \in BundleKinds /\ BundleItems[b][i] \in ItemsOf(b)
<1>1. BundleItems[b] \in Seq(BundleKinds) /\ BundleItems[b] # <<>>
  BY BundlesAssumption DEF BundleKinds
<1>2. DOMAIN BundleItems[b] = 1..Len(BundleItems[b]) /\ Len(BundleItems[b]) \in Nat \ {0}
  BY <1>1
<1>3. \A i \in 1..Len(BundleItems[b]) : BundleItems[b][i] \in BundleKinds
  BY <1>1
<1> QED
  BY <1>2, <1>3 DEF ItemsOf, BundleInstall!Range

LEMMA BundleKindParts ==
  ASSUME NEW k \in BundleKinds
  PROVE  /\ k = <<k[1], k[2], k[3]>>
         /\ k[1] \in {"entity", "form"} /\ k[2] \in BundleTypes /\ k[3] \in BundleVersions
BY DEF BundleKinds

LEMMA InstallGoto ==
  ASSUME BundleTypesOK, NEW b \in Bundles, NEW p, NEW i, BundleInstall!Goto(b, p, i),
         p \in {"publish", "check"}, i \in Nat \ {0}
  PROVE  InstallTo(b, p, i, install[b].blocked)
<1>1. PICK q \in Install : q = install[b]
  BY DEF BundleTypesOK
<1>2. PICK n : n = [q EXCEPT !.pc = p, !.pos = i]
  OBVIOUS
<1>3. n = [pc |-> p, pos |-> i, blocked |-> q.blocked]
  BY <1>2 DEF Install
<1>4. n \in Install
  BY <1>3 DEF Install
<1>5. install' = [install EXCEPT ![b] = n]
  BY <1>1, <1>2 DEF BundleInstall!Goto
<1> QED
  BY <1>1, <1>3, <1>4, <1>5 DEF InstallTo

LEMMA InstallPc ==
  ASSUME BundleTypesOK, NEW b \in Bundles, NEW p, install' = [install EXCEPT ![b].pc = p],
         p \in {"idle", "refused", "publish", "check", "seed", "installed", "incomplete"}
  PROVE  InstallTo(b, p, install[b].pos, install[b].blocked)
<1>1. PICK q \in Install : q = install[b]
  BY DEF BundleTypesOK
<1>2. PICK n : n = [q EXCEPT !.pc = p]
  OBVIOUS
<1>3. n = [pc |-> p, pos |-> q.pos, blocked |-> q.blocked]
  BY <1>2 DEF Install
<1>4. n \in Install
  BY <1>3 DEF Install
<1>5. install' = [install EXCEPT ![b] = n]
  BY <1>1, <1>2
<1> QED
  BY <1>1, <1>3, <1>4, <1>5 DEF InstallTo

LEMMA InstallFields ==
  ASSUME BundleTypesOK, NEW b \in Bundles, NEW p, NEW i, NEW x, InstallTo(b, p, i, x)
  PROVE  /\ install' \in [Bundles -> Install]
         /\ install'[b].pc = p /\ install'[b].pos = i
         /\ \A a \in Bundles : a # b => install'[a] = install[a]
<1> DEFINE r == [pc |-> p, pos |-> i, blocked |-> x]
<1>1. r \in Install /\ install' = [install EXCEPT ![b] = r]
  BY DEF InstallTo
<1>2. r.pc = p /\ r.pos = i
  OBVIOUS
<1> HIDE DEF r
<1> QED
  BY <1>1, <1>2 DEF BundleTypesOK

LEMMA RowFields ==
  ASSUME BundleTypesOK, NEW k \in BundleKinds, NEW s, NEW by, RowTo(k, s, by)
  PROVE  /\ bundleRow' \in [BundleKinds -> BundleRow]
         /\ bundleRow'[k].status = s /\ bundleRow'[k].by = by
         /\ \A j \in BundleKinds : j # k => bundleRow'[j] = bundleRow[j]
<1> DEFINE r == [status |-> s, by |-> by]
<1>1. r \in BundleRow /\ bundleRow' = [bundleRow EXCEPT ![k] = r]
  BY DEF RowTo
<1>2. r.status = s /\ r.by = by
  OBVIOUS
<1> HIDE DEF r
<1> QED
  BY <1>1, <1>2 DEF BundleTypesOK

(* What a step leaves true of the registry for every install.              *)
RegistryKept ==
  /\ bundleRow' \in [BundleKinds -> BundleRow]
  /\ owners' \in [Codes -> BundleTypes \union {"none"}] /\ graph' \in [Codes -> SUBSET BundleTypes]
  /\ RowsAreOwned' /\ GraphsAreOwned' /\ BundleInstall!OneOwner'
  /\ \A a \in Bundles : BundleInstall!Running(a) => NothingSpeaksAgainst(a)'
  /\ \A a \in Bundles, k \in BundleKinds : Landed(a, k) => Landed(a, k)'

LEMMA RegistryUntouched ==
  ASSUME BundleInv, UNCHANGED <<bundleRow, owners, graph>>
  PROVE  RegistryKept /\ \A a \in Bundles : NothingSpeaksAgainst(a) => NothingSpeaksAgainst(a)'
<1>1. \A a \in Bundles : NothingSpeaksAgainst(a) => NothingSpeaksAgainst(a)'
  BY DEF NothingSpeaksAgainst
<1>2. \A a \in Bundles, k \in BundleKinds : Landed(a, k) => Landed(a, k)'
  BY DEF Landed
<1>3. RowsAreOwned' /\ GraphsAreOwned' /\ BundleInstall!OneOwner'
  BY DEF BundleInv, RowsAreOwned, GraphsAreOwned, BundleInstall!OneOwner
<1> QED
  BY <1>1, <1>2, <1>3 DEF BundleInv, BundleTypesOK, ChecksHold, RegistryKept

LEMMA RegistryKeeps ==
  ASSUME BundleInv, RegistryKept, UNCHANGED <<install, bundleStops>>
  PROVE  BundleInv'
<1>1. BundleTypesOK' /\ InstallsAlone' /\ ChecksHold'
  BY DEF BundleInv, RegistryKept, BundleTypesOK, InstallsAlone, ChecksHold, BundleInstall!Running
<1>2. InstallsLand'
  <2>1. SUFFICES ASSUME NEW a \in Bundles
                 PROVE  /\ install[a].pc = "idle" => install[a].pos = 1
                        /\ install[a].pc = "publish" =>
                             /\ install[a].pos \in 1..Len(BundleItems[a])
                             /\ \A j \in 1..Len(BundleItems[a]) :
                                  j < install[a].pos => Landed(a, BundleItems[a][j])'
                        /\ install[a].pc \in {"check", "seed", "installed", "incomplete"} =>
                             \A k \in ItemsOf(a) : Landed(a, k)'
    BY DEF InstallsLand
  <2> QED
    BY BundleItemTypes DEF BundleInv, InstallsLand, RegistryKept
<1> QED
  BY <1>1, <1>2 DEF BundleInv, RegistryKept

(* A step of one install, with what it does to the registry.               *)
LEMMA InstallKeeps ==
  ASSUME BundleInv, RegistryKept, NEW b \in Bundles, NEW p, NEW i, NEW x,
         InstallTo(b, p, i, x), bundleStops' \in 0..MaxBundleStops,
         p = "idle" => i = 1,
         p \notin Ended => NothingSpeaksAgainst(b)',
         p \notin Ended => \A a \in Bundles : BundleInstall!Running(a) => a = b,
         p = "publish" => /\ i \in 1..Len(BundleItems[b])
                          /\ \A j \in 1..Len(BundleItems[b]) : j < i => Landed(b, BundleItems[b][j])',
         p \in {"check", "seed", "installed", "incomplete"} => \A k \in ItemsOf(b) : Landed(b, k)'
  PROVE  BundleInv'
<1>1. /\ install' \in [Bundles -> Install]
      /\ install'[b].pc = p /\ install'[b].pos = i
      /\ \A a \in Bundles : a # b => install'[a] = install[a]
  BY InstallFields DEF BundleInv
<1>2. BundleTypesOK'
  BY <1>1 DEF RegistryKept, BundleTypesOK
<1>3. /\ BundleInstall!Running(b)' <=> p \notin Ended
      /\ \A a \in Bundles : a # b => (BundleInstall!Running(a)' <=> BundleInstall!Running(a))
  BY <1>1 DEF BundleInstall!Running, Ended
<1>4. InstallsAlone'
  <2>1. SUFFICES ASSUME NEW a \in Bundles, NEW c \in Bundles,
                        BundleInstall!Running(a)', BundleInstall!Running(c)'
                 PROVE  a = c
    BY DEF InstallsAlone
  <2> QED
    BY <1>3, <2>1 DEF BundleInv, InstallsAlone
<1>5. ChecksHold'
  <2>1. SUFFICES ASSUME NEW a \in Bundles, BundleInstall!Running(a)' PROVE NothingSpeaksAgainst(a)'
    BY DEF ChecksHold
  <2> QED
    BY <1>3, <2>1 DEF RegistryKept
<1>6. InstallsLand'
  <2>1. SUFFICES ASSUME NEW a \in Bundles
                 PROVE  /\ install'[a].pc = "idle" => install'[a].pos = 1
                        /\ install'[a].pc = "publish" =>
                             /\ install'[a].pos \in 1..Len(BundleItems[a])
                             /\ \A j \in 1..Len(BundleItems[a]) :
                                  j < install'[a].pos => Landed(a, BundleItems[a][j])'
                        /\ install'[a].pc \in {"check", "seed", "installed", "incomplete"} =>
                             \A k \in ItemsOf(a) : Landed(a, k)'
    BY DEF InstallsLand
  <2>2. CASE a = b
    BY <1>1, <2>2
  <2>3. CASE a # b
    <3>1. install'[a] = install[a]
      BY <1>1, <2>3
    <3> QED
      BY <3>1, BundleItemTypes DEF BundleInv, InstallsLand, RegistryKept
  <2> QED
    BY <2>2, <2>3
<1> QED
  BY <1>2, <1>4, <1>5, <1>6 DEF BundleInv, RegistryKept

(* A step that moves one definition on.                                    *)
LEMMA RowKeeps ==
  ASSUME BundleInv, NEW k \in BundleKinds, NEW s, NEW by, RowTo(k, s, by),
         UNCHANGED <<owners, graph>>, s # "absent", by # "none",
         by = "core" => bundleRow[k].by = "core" /\ bundleRow[k].status # "absent",
         bundleRow[k].status \in {"published", "rolled_back"} =>
           by = bundleRow[k].by /\ s \in {"published", "rolled_back"},
         \A a \in Bundles : BundleInstall!Running(a) =>
           (bundleRow[k].status # "absent" /\ by = bundleRow[k].by) \/ by = a,
         s = "published" =>
           /\ by \in Bundles
           /\ \A a \in Bundles : BundleInstall!Running(a) => a = by
           /\ k[1] = "entity" => \A v \in BundleVersions :
                bundleRow[<<"entity", k[2], v>>].status = "published" =>
                  BundleInstall!AuthorOf(bundleRow[<<"entity", k[2], v>>].by) = Author[by]
  PROVE  RegistryKept
<1>1. /\ bundleRow' \in [BundleKinds -> BundleRow]
      /\ bundleRow'[k].status = s /\ bundleRow'[k].by = by
      /\ \A j \in BundleKinds : j # k => bundleRow'[j] = bundleRow[j]
  BY RowFields DEF BundleInv
<1>2. RowsAreOwned'
  <2>1. SUFFICES ASSUME NEW j \in BundleKinds, bundleRow'[j].status # "absent"
                 PROVE  /\ bundleRow'[j].by # "none"
                        /\ bundleRow'[j].by = "core" => j[2] \in DOMAIN BuiltIn
    BY DEF RowsAreOwned
  <2>2. CASE j = k
    BY <1>1, <2>2 DEF BundleInv, RowsAreOwned
  <2>3. CASE j # k
    BY <1>1, <2>1, <2>3 DEF BundleInv, RowsAreOwned
  <2> QED
    BY <2>2, <2>3
<1>3. GraphsAreOwned'
  BY DEF BundleInv, GraphsAreOwned
<1>4. s = "published" => BundleInstall!AuthorOf(by) = Author[by]
  BY BundleConstants DEF BundleInstall!AuthorOf
<1>5. ASSUME NEW t \in BundleTypes, NEW v \in BundleVersions,
             bundleRow'[<<"entity", t, v>>].status = "published"
      PROVE  \/ /\ bundleRow'[<<"entity", t, v>>] = bundleRow[<<"entity", t, v>>]
                /\ bundleRow[<<"entity", t, v>>].status = "published"
             \/ k = <<"entity", t, v>> /\ s = "published"
  <2>1. <<"entity", t, v>> \in BundleKinds
    BY DEF BundleKinds
  <2> QED
    BY <1>1, <1>5, <2>1
<1>6. BundleInstall!OneOwner'
  <2>1. SUFFICES ASSUME NEW t \in BundleTypes, NEW v \in BundleVersions, NEW w \in BundleVersions,
                        bundleRow'[<<"entity", t, v>>].status = "published",
                        bundleRow'[<<"entity", t, w>>].status = "published"
                 PROVE  BundleInstall!AuthorOf(bundleRow'[<<"entity", t, v>>].by)
                          = BundleInstall!AuthorOf(bundleRow'[<<"entity", t, w>>].by)
    BY DEF BundleInstall!OneOwner, BundleInstall!AuthorOf
  <2>2. ASSUME NEW u \in BundleVersions, bundleRow'[<<"entity", t, u>>].status = "published",
               s = "published", k[1] = "entity", k[2] = t
        PROVE  BundleInstall!AuthorOf(bundleRow'[<<"entity", t, u>>].by) = Author[by]
    BY <1>1, <1>4, <1>5, <2>2
  <2>3. CASE k = <<"entity", t, v>> /\ s = "published"
    BY <2>1, <2>2, <2>3
  <2>4. CASE k = <<"entity", t, w>> /\ s = "published"
    BY <2>1, <2>2, <2>4
  <2>5. CASE /\ bundleRow'[<<"entity", t, v>>] = bundleRow[<<"entity", t, v>>]
             /\ bundleRow'[<<"entity", t, w>>] = bundleRow[<<"entity", t, w>>]
             /\ bundleRow[<<"entity", t, v>>].status = "published"
             /\ bundleRow[<<"entity", t, w>>].status = "published"
    BY <2>5 DEF BundleInv, BundleInstall!OneOwner
  <2> QED
    BY <1>5, <2>1, <2>3, <2>4, <2>5
<1>7. ASSUME NEW a \in Bundles, BundleInstall!Running(a)
      PROVE  NothingSpeaksAgainst(a)'
  <2>1. NothingSpeaksAgainst(a)
    BY <1>7 DEF BundleInv, ChecksHold
  <2>2. ASSUME NEW j \in ItemsOf(a), bundleRow'[j].status # "absent"
        PROVE  bundleRow'[j].by = a
    <3>1. j \in BundleKinds
      BY BundleItemTypes
    <3>2. CASE j = k
      BY <1>1, <1>7, <2>1, <3>2 DEF NothingSpeaksAgainst
    <3>3. CASE j # k
      BY <1>1, <2>1, <2>2, <3>1, <3>3 DEF NothingSpeaksAgainst
    <3> QED
      BY <3>2, <3>3
  <2>3. ASSUME NEW j \in ItemsOf(a), NEW v \in BundleVersions, j[1] = "entity",
               bundleRow'[<<"entity", j[2], v>>].status = "published"
        PROVE  BundleInstall!AuthorOf(bundleRow'[<<"entity", j[2], v>>].by) = Author[a]
    <3>1. j[2] \in BundleTypes
      BY BundleItemTypes, BundleKindParts
    <3>2. CASE k = <<"entity", j[2], v>> /\ s = "published"
      BY <1>1, <1>4, <1>7, <3>2
    <3>3. CASE /\ bundleRow'[<<"entity", j[2], v>>] = bundleRow[<<"entity", j[2], v>>]
               /\ bundleRow[<<"entity", j[2], v>>].status = "published"
      BY <2>1, <2>3, <3>3 DEF NothingSpeaksAgainst
    <3> QED
      BY <1>5, <2>3, <3>1, <3>2, <3>3
  <2> QED
    BY <2>1, <2>2, <2>3 DEF NothingSpeaksAgainst, BundleInstall!AuthorOf
<1>8. ASSUME NEW a \in Bundles, NEW j \in BundleKinds, Landed(a, j)
      PROVE  Landed(a, j)'
  <2>1. CASE j = k
    BY <1>1, <1>8, <2>1 DEF Landed
  <2>2. CASE j # k
    BY <1>1, <1>8, <2>2 DEF Landed
  <2> QED
    BY <2>1, <2>2
<1> QED
  BY <1>1, <1>2, <1>3, <1>6, <1>7, <1>8 DEF BundleInv, BundleTypesOK, RegistryKept

LEMMA BundlesInit == BundleInstall!Init => BundleInv
<1> SUFFICES ASSUME BundleInstall!Init PROVE BundleInv
  OBVIOUS
<1>1. BundleInstall!NewInstall \in Install /\ BundleInstall!NewInstall.pc = "idle"
      /\ BundleInstall!NewInstall.pos = 1
  BY DEF BundleInstall!NewInstall, Install
<1>2. install = [b \in Bundles |-> BundleInstall!NewInstall]
  BY DEF BundleInstall!Init
<1>3. install \in [Bundles -> Install] /\ \A b \in Bundles : install[b].pc = "idle" /\ install[b].pos = 1
  BY <1>1, <1>2
<1>4. PICK shipped : shipped = [status |-> "published", by |-> "core"]
  OBVIOUS
<1>5. PICK absent : absent = [status |-> "absent", by |-> "none"]
  OBVIOUS
<1>6. /\ shipped \in BundleRow /\ shipped.status = "published" /\ shipped.by = "core"
      /\ absent \in BundleRow /\ absent.status = "absent"
  BY <1>4, <1>5 DEF BundleRow, BundleInstall!Statuses
<1>7. bundleRow = [k \in BundleKinds |->
                     IF k[2] \in DOMAIN BuiltIn /\ k[3] = 1 THEN shipped ELSE absent]
  BY <1>4, <1>5, BundleConstants DEF BundleInstall!Init
<1>8. \A k \in BundleKinds : bundleRow[k].status # "absent" =>
        bundleRow[k] = shipped /\ k[2] \in DOMAIN BuiltIn
  BY <1>6, <1>7
<1>9. bundleRow \in [BundleKinds -> BundleRow] /\ RowsAreOwned
  <2>1. bundleRow \in [BundleKinds -> BundleRow]
    BY <1>6, <1>7
  <2> QED
    BY <2>1, <1>6, <1>8 DEF RowsAreOwned
<1>10. BundleInstall!OneOwner
  <2>1. SUFFICES ASSUME NEW t \in BundleTypes, NEW v \in BundleVersions, NEW w \in BundleVersions,
                        bundleRow[<<"entity", t, v>>].status = "published",
                        bundleRow[<<"entity", t, w>>].status = "published"
                 PROVE  bundleRow[<<"entity", t, v>>] = bundleRow[<<"entity", t, w>>]
    BY DEF BundleInstall!OneOwner
  <2>2. <<"entity", t, v>> \in BundleKinds /\ <<"entity", t, w>> \in BundleKinds
    BY DEF BundleKinds
  <2> QED
    BY <1>8, <2>1, <2>2
<1>11. /\ owners \in [Codes -> BundleTypes \union {"none"}]
       /\ graph \in [Codes -> SUBSET BundleTypes] /\ GraphsAreOwned
  <2>1. /\ owners = [c \in Codes |-> IF \E t \in DOMAIN CodeOf : CodeOf[t] = c
                                       THEN CHOOSE t \in DOMAIN CodeOf : CodeOf[t] = c ELSE "none"]
        /\ graph = [c \in Codes |-> {t \in DOMAIN CodeOf : CodeOf[t] = c}]
    BY BundleConstants DEF BundleInstall!Init
  <2>2. DOMAIN CodeOf \subseteq BundleTypes
        /\ \A s, t \in DOMAIN CodeOf : CodeOf[s] = CodeOf[t] => s = t
    BY BundlesAssumption
  <2>3. ASSUME NEW c \in Codes, NEW t \in DOMAIN CodeOf, CodeOf[t] = c
        PROVE  owners[c] = t
    <3>1. PICK o : o = CHOOSE s \in DOMAIN CodeOf : CodeOf[s] = c
      OBVIOUS
    <3>2. o \in DOMAIN CodeOf /\ CodeOf[o] = c
      BY <2>3, <3>1
    <3>3. owners[c] = o
      BY <2>1, <2>3, <3>1
    <3> QED
      BY <2>2, <2>3, <3>2, <3>3
  <2>4. \A c \in Codes : owners[c] \in BundleTypes \union {"none"}
    <3>1. TAKE c \in Codes
    <3>2. CASE \E t \in DOMAIN CodeOf : CodeOf[t] = c
      BY <2>2, <2>3, <3>2
    <3>3. CASE ~ \E t \in DOMAIN CodeOf : CodeOf[t] = c
      BY <2>1, <3>3
    <3> QED
      BY <3>2, <3>3
  <2>5. \A c \in Codes : graph[c] \subseteq BundleTypes /\ \A t \in graph[c] : t \in DOMAIN CodeOf /\ CodeOf[t] = c
    BY <2>1, <2>2
  <2>6. owners \in [Codes -> BundleTypes \union {"none"}]
    BY <2>1, <2>4
  <2>7. graph \in [Codes -> SUBSET BundleTypes]
    BY <2>1, <2>5
  <2> QED
    BY <2>3, <2>5, <2>6, <2>7 DEF GraphsAreOwned
<1>12. BundleTypesOK
  BY <1>3, <1>9, <1>11, BundleConstants DEF BundleTypesOK, BundleInstall!Init
<1>13. InstallsAlone /\ ChecksHold /\ InstallsLand
  BY <1>3 DEF InstallsAlone, ChecksHold, InstallsLand, BundleInstall!Running
<1> QED
  BY <1>9, <1>10, <1>11, <1>12, <1>13 DEF BundleInv

(* The install looks at the greatest version that is published.            *)
LEMMA PublishedRowIsPublished ==
  ASSUME BundleTypesOK, NEW t \in BundleTypes, NEW v \in BundleVersions,
         bundleRow[<<"entity", t, v>>].status = "published"
  PROVE  \E w \in BundleVersions :
           /\ bundleRow[<<"entity", t, w>>].status = "published"
           /\ BundleInstall!PublishedRow("entity", t) = bundleRow[<<"entity", t, w>>].by
<1> DEFINE up == {w \in BundleVersions : bundleRow[<<"entity", t, w>>].status = "published"}
<1>1. up # {} /\ up \subseteq BundleVersions
  OBVIOUS
<1>2. IsFiniteSet(up) /\ up \subseteq Nat
  BY <1>1, BundlesAssumption, FS_Subset
<1>3. \E x \in up : \A y \in up : x >= y
  BY <1>1, <1>2, GreatestExists
<1>4. BundleInstall!Max(up) \in up
  BY <1>3 DEF BundleInstall!Max
<1>5. BundleInstall!PublishedRow("entity", t) = bundleRow[<<"entity", t, BundleInstall!Max(up)>>].by
  BY <1>1 DEF BundleInstall!PublishedRow
<1> QED
  BY <1>4, <1>5

(* The checks of Install find what speaks against it.                      *)
LEMMA ChecksFind ==
  ASSUME BundleInv, NEW b \in Bundles,
         ~ BundleInstall!KeyIsReserved(b), ~ BundleInstall!ContentDiffers(b),
         ~ BundleInstall!OwnedByAnother(b), ~ BundleInstall!CodeOwnedByAnother(b)
  PROVE  NothingSpeaksAgainst(b)
<1>1. \A k \in ItemsOf(b) : bundleRow[k].status # "absent" => bundleRow[k].by = b
  BY BundleItemTypes DEF BundleInstall!ContentDiffers
<1>2. \A t \in DOMAIN Graphs[b] : owners[Graphs[b][t]] \in {"none", t}
  BY BundleConstants DEF BundleInstall!CodeOwnedByAnother
<1>3. ASSUME NEW k \in ItemsOf(b), NEW v \in BundleVersions, k[1] = "entity",
             bundleRow[<<"entity", k[2], v>>].status = "published"
      PROVE  BundleInstall!AuthorOf(bundleRow[<<"entity", k[2], v>>].by) = Author[b]
  <2>1. k \in BundleKinds /\ k = <<"entity", k[2], k[3]>> /\ k[2] \in BundleTypes /\ k[3] \in BundleVersions
    BY <1>3, BundleItemTypes, BundleKindParts
  <2>2. k[2] \in BundleInstall!EntityTypes(b)
    BY <2>1, BundleItemTypes DEF BundleInstall!EntityTypes
  <2>3. PICK w \in BundleVersions :
           /\ bundleRow[<<"entity", k[2], w>>].status = "published"
           /\ BundleInstall!PublishedRow("entity", k[2]) = bundleRow[<<"entity", k[2], w>>].by
    BY <1>3, <2>1, PublishedRowIsPublished DEF BundleInv
  <2>4. PICK o : o = bundleRow[<<"entity", k[2], w>>].by
    OBVIOUS
  <2>5. /\ o \in Bundles \union {"core", "none"} /\ o # "none"
        /\ o = "core" => k[2] \in DOMAIN BuiltIn
    <3>1. PICK j : j = <<"entity", k[2], w>>
      OBVIOUS
    <3>2. j \in BundleKinds /\ j[2] = k[2] /\ o = bundleRow[j].by /\ bundleRow[j].status = "published"
      BY <2>1, <2>3, <2>4, <3>1 DEF BundleKinds
    <3> QED
      BY <3>2 DEF BundleInv, BundleTypesOK, RowsAreOwned, BundleRow
  <2>6. BundleInstall!ModuleOf(o, k[2]) = BundleModule[b]
    BY <2>2, <2>3, <2>4, <2>5, BundleConstants DEF BundleInstall!OwnedByAnother
  <2>7. o # "core"
    BY <2>5, <2>6, BundleConstants
    DEF BundleInstall!ModuleOf, BundleInstall!KeyIsReserved, BundleInstall!ReservedModules
  <2>8. o \in Bundles /\ Author[o] = Author[b]
    BY <2>5, <2>6, <2>7, BundlesAssumption, BundleConstants DEF BundleInstall!ModuleOf
  <2>9. BundleInstall!AuthorOf(o) = Author[b]
    BY <2>7, <2>8, BundleConstants DEF BundleInstall!AuthorOf
  <2>10. BundleInstall!AuthorOf(bundleRow[<<"entity", k[2], v>>].by) = BundleInstall!AuthorOf(o)
    BY <1>3, <2>1, <2>3, <2>4 DEF BundleInv, BundleInstall!OneOwner
  <2> QED
    BY <2>9, <2>10
<1> QED
  BY <1>1, <1>2, <1>3 DEF NothingSpeaksAgainst

LEMMA StartKeeps == ASSUME BundleInv, NEW b \in Bundles, BundleInstall!Start(b) PROVE BundleInv'
<1> DEFINE refused == \/ BundleInstall!KeyIsReserved(b) \/ BundleInstall!ContentDiffers(b)
                      \/ BundleInstall!OwnedByAnother(b) \/ BundleInstall!CodeOwnedByAnother(b)
<1>0. /\ UNCHANGED <<bundleRow, owners, graph, bundleStops>> /\ BundleTypesOK
      /\ \A q \in Bundles : ~BundleInstall!Running(q)
      /\ install' = [install EXCEPT ![b].pc = IF refused THEN "refused" ELSE "publish"]
  BY DEF BundleInv, BundleInstall!Start
<1>1. RegistryKept /\ \A a \in Bundles : NothingSpeaksAgainst(a) => NothingSpeaksAgainst(a)'
  BY <1>0, RegistryUntouched
<1>2. CASE refused
  <2>1. InstallTo(b, "refused", install[b].pos, install[b].blocked)
    BY <1>0, <1>2, InstallPc
  <2> QED
    BY <1>0, <1>1, <2>1, InstallKeeps DEF Ended, BundleTypesOK
<1>3. CASE ~refused
  <2>1. InstallTo(b, "publish", install[b].pos, install[b].blocked)
    BY <1>0, <1>3, InstallPc
  <2>2. NothingSpeaksAgainst(b)'
    BY <1>1, <1>3, ChecksFind
  <2>3. install[b].pos = 1
    BY DEF BundleInstall!Start, BundleInv, InstallsLand
  <2>4. Len(BundleItems[b]) \in Nat \ {0}
    BY BundleItemTypes
  <2>5. /\ install[b].pos \in 1..Len(BundleItems[b])
        /\ \A j \in 1..Len(BundleItems[b]) : ~ (j < install[b].pos)
    BY <2>3, <2>4
  <2>6. bundleStops' \in 0..MaxBundleStops /\ \A a \in Bundles : BundleInstall!Running(a) => a = b
    BY <1>0 DEF BundleTypesOK
  <2> HIDE DEF refused
  <2> QED
    BY <1>1, <2>1, <2>2, <2>5, <2>6, InstallKeeps
<1> QED
  BY <1>2, <1>3

(* The definition an install is at.                                        *)
LEMMA PublishAt ==
  ASSUME BundleInv, NEW b \in Bundles, install[b].pc = "publish"
  PROVE  /\ BundleInstall!Running(b) /\ NothingSpeaksAgainst(b)
         /\ \A a \in Bundles : BundleInstall!Running(a) => a = b
         /\ install[b].pos \in 1..Len(BundleItems[b]) /\ Len(BundleItems[b]) \in Nat \ {0}
         /\ BundleInstall!At(b) = BundleItems[b][install[b].pos]
         /\ BundleInstall!At(b) \in ItemsOf(b) /\ BundleInstall!At(b) \in BundleKinds
         /\ \A j \in 1..Len(BundleItems[b]) : j < install[b].pos => Landed(b, BundleItems[b][j])
<1>1. BundleInstall!Running(b)
  BY DEF BundleInstall!Running
<1>2. NothingSpeaksAgainst(b) /\ \A a \in Bundles : BundleInstall!Running(a) => a = b
  BY <1>1 DEF BundleInv, ChecksHold, InstallsAlone
<1>3. install[b].pos \in 1..Len(BundleItems[b])
      /\ \A j \in 1..Len(BundleItems[b]) : j < install[b].pos => Landed(b, BundleItems[b][j])
  BY DEF BundleInv, InstallsLand
<1> QED
  BY <1>1, <1>2, <1>3, BundleItemTypes DEF BundleInstall!At

(* Past an item that has landed.                                           *)
LEMMA PastKeeps ==
  ASSUME BundleInv, RegistryKept, NEW b \in Bundles, install[b].pc = "publish",
         BundleInstall!Past(b), UNCHANGED bundleStops,
         NEW k, k = BundleInstall!At(b), Landed(b, k)'
  PROVE  BundleInv'
<1> DEFINE i == install[b].pos
           n == Len(BundleItems[b])
<1>1. /\ BundleInstall!Running(b) /\ \A a \in Bundles : BundleInstall!Running(a) => a = b
      /\ i \in 1..n /\ n \in Nat \ {0} /\ BundleInstall!At(b) = BundleItems[b][i]
      /\ \A j \in 1..n : j < i => Landed(b, BundleItems[b][j])
  BY PublishAt
<1>2. NothingSpeaksAgainst(b)' /\ bundleStops' \in 0..MaxBundleStops
  BY <1>1 DEF RegistryKept, BundleInv, BundleTypesOK
<1>3. \A j \in 1..n : j < i + 1 => Landed(b, BundleItems[b][j])'
  <2>1. TAKE j \in 1..n
  <2>2. HAVE j < i + 1
  <2>3. CASE j < i
    <3>1. BundleItems[b][j] \in BundleKinds
      BY BundleItemTypes
    <3> QED
      BY <1>1, <2>1, <2>3, <3>1 DEF RegistryKept
  <2>4. CASE j = i
    <3>1. BundleItems[b][j] = k
      BY <1>1, <2>4
    <3> QED
      BY <3>1
  <2> QED
    BY <1>1, <2>1, <2>2, <2>3, <2>4
<1>4. CASE i = n
  <2>1. InstallTo(b, "check", 1, install[b].blocked)
    BY <1>4, InstallGoto DEF BundleInstall!Past, BundleInv
  <2>2. ASSUME NEW j \in ItemsOf(b)
        PROVE  Landed(b, j)'
    <3>1. PICK m \in 1..n : j = BundleItems[b][m]
      BY DEF ItemsOf
    <3>2. m < i + 1
      BY <1>1, <1>4, <3>1
    <3> QED
      BY <1>3, <3>1, <3>2
  <2> QED
    BY <1>1, <1>2, <2>1, <2>2, InstallKeeps DEF Ended
<1>5. CASE i # n
  <2>1. i + 1 \in Nat \ {0} /\ i + 1 \in 1..n
    BY <1>1, <1>5
  <2>2. InstallTo(b, "publish", i + 1, install[b].blocked)
    BY <1>5, <2>1, InstallGoto DEF BundleInstall!Past, BundleInv
  <2> QED
    BY <1>1, <1>2, <1>3, <2>1, <2>2, InstallKeeps DEF Ended
<1> QED
  BY <1>4, <1>5

LEMMA CreateDraftKeeps ==
  ASSUME BundleInv, NEW b \in Bundles, BundleInstall!CreateDraft(b)
  PROVE  BundleInv'
<1> DEFINE k == BundleInstall!At(b)
           r == [status |-> "started", by |-> b]
<1>1. /\ install[b].pc = "publish" /\ bundleRow[k].status = "absent"
      /\ bundleRow' = [bundleRow EXCEPT ![k] = r]
      /\ UNCHANGED <<owners, graph, install, bundleStops>>
  BY DEF BundleInstall!CreateDraft
<1>2. k \in BundleKinds /\ \A a \in Bundles : BundleInstall!Running(a) => a = b
  BY <1>1, PublishAt
<1>3. r \in BundleRow
  BY DEF BundleRow, BundleInstall!Statuses
<1>4. RowTo(k, "started", b)
  BY <1>1, <1>3 DEF RowTo
<1> HIDE DEF k, r
<1>5. RegistryKept
  BY <1>1, <1>2, <1>4, RowKeeps, BundleConstants
<1> QED
  BY <1>1, <1>5, RegistryKeeps

(* The status of a definition moves on.                                    *)
LEMMA RowStatus ==
  ASSUME BundleTypesOK, NEW k \in BundleKinds, NEW s \in BundleInstall!Statuses,
         bundleRow' = [bundleRow EXCEPT ![k].status = s]
  PROVE  RowTo(k, s, bundleRow[k].by)
<1>1. PICK q \in BundleRow : q = bundleRow[k]
  BY DEF BundleTypesOK
<1>2. PICK n : n = [q EXCEPT !.status = s]
  OBVIOUS
<1>3. n = [status |-> s, by |-> q.by]
  BY <1>2 DEF BundleRow
<1>4. n \in BundleRow
  BY <1>3 DEF BundleRow
<1>5. bundleRow' = [bundleRow EXCEPT ![k] = n]
  BY <1>1, <1>2
<1> QED
  BY <1>1, <1>3, <1>4, <1>5 DEF RowTo

LEMMA PublishDraftKeeps ==
  ASSUME BundleInv, NEW b \in Bundles, BundleInstall!PublishDraft(b)
  PROVE  BundleInv'
<1> DEFINE k == BundleInstall!At(b)
<1>1. /\ install[b].pc = "publish" /\ bundleRow[k].status = "started"
      /\ bundleRow' = [bundleRow EXCEPT ![k].status = "published"]
      /\ BundleInstall!Past(b) /\ UNCHANGED <<owners, graph, bundleStops>>
  BY DEF BundleInstall!PublishDraft
<1>2. /\ k \in BundleKinds /\ k \in ItemsOf(b) /\ NothingSpeaksAgainst(b)
      /\ \A a \in Bundles : BundleInstall!Running(a) => a = b
  BY <1>1, PublishAt
<1>3. bundleRow[k].by = b
  BY <1>1, <1>2 DEF NothingSpeaksAgainst
<1>4. RowTo(k, "published", b)
  BY <1>1, <1>2, <1>3, RowStatus DEF BundleInv, BundleInstall!Statuses
<1>5. k[1] = "entity" => \A v \in BundleVersions :
        bundleRow[<<"entity", k[2], v>>].status = "published" =>
          BundleInstall!AuthorOf(bundleRow[<<"entity", k[2], v>>].by) = Author[b]
  BY <1>2 DEF NothingSpeaksAgainst
<1>6. PICK j : j = k
  OBVIOUS
<1>7. RegistryKept
  BY <1>1, <1>2, <1>3, <1>4, <1>5, <1>6, RowKeeps, BundleConstants
<1>8. Landed(b, j)'
  BY <1>2, <1>4, <1>6, RowFields DEF Landed, BundleInv
<1> QED
  BY <1>1, <1>6, <1>7, <1>8, PastKeeps

LEMMA LeaveAloneKeeps ==
  ASSUME BundleInv, NEW b \in Bundles, BundleInstall!LeaveAlone(b)
  PROVE  BundleInv'
<1> DEFINE k == BundleInstall!At(b)
<1>1. /\ install[b].pc = "publish" /\ bundleRow[k].status \in {"published", "rolled_back"}
      /\ BundleInstall!Past(b) /\ UNCHANGED <<bundleRow, owners, graph, bundleStops>>
  BY DEF BundleInstall!LeaveAlone
<1>2. k \in ItemsOf(b) /\ NothingSpeaksAgainst(b)
  BY <1>1, PublishAt
<1>3. PICK j : j = k
  OBVIOUS
<1>4. Landed(b, j)'
  BY <1>1, <1>2, <1>3 DEF NothingSpeaksAgainst, Landed
<1>5. RegistryKept
  BY <1>1, RegistryUntouched
<1> QED
  BY <1>1, <1>3, <1>4, <1>5, PastKeeps

LEMMA CheckBlockedKeeps ==
  ASSUME BundleInv, NEW b \in Bundles, BundleInstall!CheckBlocked(b)
  PROVE  BundleInv'
<1>1. /\ install[b].pc = "check" /\ UNCHANGED <<bundleRow, owners, graph, bundleStops>>
      /\ install' = [install EXCEPT ![b].pc = "seed", ![b].blocked = BundleInstall!BlockedItems(b)]
  BY DEF BundleInstall!CheckBlocked
<1>2. BundleInstall!BlockedItems(b) \in BOOLEAN
  BY DEF BundleInstall!BlockedItems
<1>3. PICK x \in BOOLEAN : x = BundleInstall!BlockedItems(b)
  BY <1>2
<1>4. PICK q \in Install : q = install[b]
  BY DEF BundleInv, BundleTypesOK
<1>5. PICK n : n = [q EXCEPT !.pc = "seed", !.blocked = x]
  OBVIOUS
<1>6. n = [pc |-> "seed", pos |-> q.pos, blocked |-> x]
  BY <1>5 DEF Install
<1>7. n \in Install
  BY <1>6 DEF Install
<1>8. install' = [install EXCEPT ![b] = n]
  BY <1>1, <1>3, <1>4, <1>5
<1>9. InstallTo(b, "seed", q.pos, x)
  BY <1>6, <1>7, <1>8 DEF InstallTo
<1>10. RegistryKept
  BY <1>1, RegistryUntouched
<1>11. NothingSpeaksAgainst(b)' /\ \A a \in Bundles : BundleInstall!Running(a) => a = b
  BY <1>1, <1>10 DEF BundleInv, InstallsAlone, BundleInstall!Running, RegistryKept
<1>12. \A k \in ItemsOf(b) : Landed(b, k)'
  BY <1>1, <1>10, BundleItemTypes DEF BundleInv, InstallsLand, RegistryKept
<1> QED
  BY <1>1, <1>9, <1>10, <1>11, <1>12, InstallKeeps DEF Ended, BundleInv, BundleTypesOK

LEMMA SeedKeeps ==
  ASSUME BundleInv, NEW b \in Bundles, NEW t \in BundleTypes, BundleInstall!Seed(b, t)
  PROVE  BundleInv'
<1> DEFINE c == Graphs[b][t]
<1>1. /\ install[b].pc = "seed" /\ t \in DOMAIN Graphs[b] /\ t \notin graph[c]
      /\ owners' = [owners EXCEPT ![c] = IF owners[c] = "none" THEN t ELSE owners[c]]
      /\ graph' = [graph EXCEPT ![c] = graph[c] \union {t}]
      /\ UNCHANGED <<bundleRow, install, bundleStops>>
  BY BundleConstants DEF BundleInstall!Seed
<1>2. BundleInstall!Running(b) /\ NothingSpeaksAgainst(b)
  BY <1>1 DEF BundleInv, ChecksHold, BundleInstall!Running
<1>3. c \in Codes /\ owners[c] \in {"none", t}
  BY <1>1, <1>2, BundlesAssumption DEF NothingSpeaksAgainst
<1>4. \A s \in DOMAIN Graphs[b] : Graphs[b][s] = c => s = t
  BY <1>1, BundlesAssumption
<1> HIDE DEF c
<1>5. owners' = [owners EXCEPT ![c] = t]
  BY <1>1, <1>3
<1>6. /\ owners' \in [Codes -> BundleTypes \union {"none"}] /\ owners'[c] = t
      /\ \A d \in Codes : d # c => owners'[d] = owners[d]
  BY <1>3, <1>5 DEF BundleInv, BundleTypesOK
<1>7. /\ graph' \in [Codes -> SUBSET BundleTypes] /\ graph'[c] = graph[c] \union {t}
      /\ \A d \in Codes : d # c => graph'[d] = graph[d]
  BY <1>1, <1>3 DEF BundleInv, BundleTypesOK
<1>8. GraphsAreOwned'
  <2>1. ASSUME NEW d \in Codes, NEW s \in graph'[d] PROVE owners'[d] = s
    <3>1. CASE d = c
      <4>1. CASE s \in graph[c]
        BY <1>3, <1>6, <3>1, <4>1, BundleConstants DEF BundleInv, BundleTypesOK, GraphsAreOwned
      <4>2. CASE s = t
        BY <1>6, <3>1, <4>2
      <4> QED
        BY <1>7, <2>1, <3>1, <4>1, <4>2
    <3>2. CASE d # c
      BY <1>6, <1>7, <2>1, <3>2 DEF BundleInv, GraphsAreOwned
    <3> QED
      BY <3>1, <3>2
  <2> QED
    BY <2>1 DEF GraphsAreOwned
<1>9. ASSUME NEW a \in Bundles, BundleInstall!Running(a)
      PROVE  NothingSpeaksAgainst(a)'
  <2>1. a = b
    BY <1>2, <1>9 DEF BundleInv, InstallsAlone
  <2>2. \A s \in DOMAIN Graphs[b] : Graphs[b][s] \in Codes
    BY BundlesAssumption
  <2>3. \A s \in DOMAIN Graphs[b] : owners'[Graphs[b][s]] \in {"none", s}
    BY <1>2, <1>4, <1>6, <2>2 DEF NothingSpeaksAgainst
  <2> QED
    BY <1>1, <1>2, <2>1, <2>3 DEF NothingSpeaksAgainst
<1>10. RowsAreOwned' /\ BundleInstall!OneOwner' /\ bundleRow' \in [BundleKinds -> BundleRow]
  BY <1>1 DEF BundleInv, BundleTypesOK, RowsAreOwned, BundleInstall!OneOwner
<1>11. \A a \in Bundles, k \in BundleKinds : Landed(a, k) => Landed(a, k)'
  BY <1>1 DEF Landed
<1>12. RegistryKept
  BY <1>6, <1>7, <1>8, <1>9, <1>10, <1>11 DEF RegistryKept
<1> QED
  BY <1>1, <1>12, RegistryKeeps

LEMMA FinishKeeps ==
  ASSUME BundleInv, NEW b \in Bundles, BundleInstall!Finish(b)
  PROVE  BundleInv'
<1> DEFINE p == IF install[b].blocked THEN "incomplete" ELSE "installed"
<1>1. /\ install[b].pc = "seed" /\ UNCHANGED <<bundleRow, owners, graph, bundleStops>>
      /\ install' = [install EXCEPT ![b].pc = p]
  BY DEF BundleInstall!Finish
<1>2. p \in {"incomplete", "installed"}
  OBVIOUS
<1> HIDE DEF p
<1>3. InstallTo(b, p, install[b].pos, install[b].blocked)
  BY <1>1, <1>2, InstallPc DEF BundleInv
<1>4. RegistryKept
  BY <1>1, RegistryUntouched
<1>5. \A k \in ItemsOf(b) : Landed(b, k)'
  BY <1>1, <1>4, BundleItemTypes DEF BundleInv, InstallsLand, RegistryKept
<1> QED
  BY <1>1, <1>2, <1>3, <1>4, <1>5, InstallKeeps DEF Ended, BundleInv, BundleTypesOK

(* An install that dies, or was refused, begins anew.                      *)
LEMMA AnewKeeps ==
  ASSUME BundleInv, NEW b \in Bundles, BundleInstall!Stop(b) \/ BundleInstall!Again(b)
  PROVE  BundleInv'
<1>1. /\ install' = [install EXCEPT ![b] = BundleInstall!NewInstall]
      /\ UNCHANGED <<bundleRow, owners, graph>> /\ bundleStops' \in 0..MaxBundleStops
  BY BundleConstants DEF BundleInstall!Stop, BundleInstall!Again, BundleInv, BundleTypesOK
<1>2. InstallTo(b, "idle", 1, FALSE)
  BY <1>1 DEF BundleInstall!NewInstall, InstallTo, Install
<1>3. RegistryKept
  BY <1>1, RegistryUntouched
<1> QED
  BY <1>1, <1>2, <1>3, InstallKeeps DEF Ended

LEMMA RollbackKeeps ==
  ASSUME BundleInv, NEW k \in BundleKinds, BundleInstall!Rollback(k)
  PROVE  BundleInv'
<1>1. /\ bundleRow[k].status = "published" /\ UNCHANGED <<owners, graph, install, bundleStops>>
      /\ bundleRow' = [bundleRow EXCEPT ![k].status = "rolled_back"]
  BY DEF BundleInstall!Rollback
<1>2. PICK by : by = bundleRow[k].by
  OBVIOUS
<1>3. RowTo(k, "rolled_back", by)
  BY <1>1, <1>2, RowStatus DEF BundleInv, BundleInstall!Statuses
<1>4. by # "none"
  BY <1>1, <1>2 DEF BundleInv, RowsAreOwned
<1>5. RegistryKept
  BY <1>1, <1>2, <1>3, <1>4, RowKeeps
<1> QED
  BY <1>1, <1>5, RegistryKeeps

LEMMA BundlesKept == ASSUME BundleInv, BundleInstall!Next PROVE BundleInv'
<1>1. ASSUME NEW b \in Bundles, BundleInstall!InstallStep(b) PROVE BundleInv'
  BY <1>1, StartKeeps, CreateDraftKeeps, PublishDraftKeeps, LeaveAloneKeeps, CheckBlockedKeeps,
     SeedKeeps, FinishKeeps, AnewKeeps DEF BundleInstall!InstallStep
<1>2. ASSUME NEW k \in BundleKinds, BundleInstall!Rollback(k) PROVE BundleInv'
  BY <1>2, RollbackKeeps
<1> QED
  BY <1>1, <1>2, BundleConstants DEF BundleInstall!Next

LEMMA BundlesImply ==
  BundleInv => /\ BundleInstall!TypeOK /\ BundleInstall!OneOwner
               /\ BundleInstall!GraphsUnshared /\ BundleInstall!InstalledIsItsOwn
<1> SUFFICES ASSUME BundleInv
             PROVE  /\ BundleInstall!TypeOK /\ BundleInstall!GraphsUnshared
                    /\ BundleInstall!InstalledIsItsOwn
  BY DEF BundleInv
<1>1. BundleInstall!TypeOK
  BY BundleConstants DEF BundleInv, BundleTypesOK, BundleRow, BundleInstall!TypeOK
<1>2. ASSUME NEW c \in Codes PROVE BundleInstall!Cardinality(graph[c]) <= 1
  <2>1. PICK o : o = owners[c]
    OBVIOUS
  <2>2. graph[c] = {} \/ graph[c] = {o}
    BY <2>1 DEF BundleInv, GraphsAreOwned
  <2>3. Cardinality(graph[c]) \in {0, 1}
    BY <2>2, FS_EmptySet, FS_Singleton
  <2>4. BundleInstall!Cardinality(graph[c]) = Cardinality(graph[c])
    BY DEF BundleInstall!Cardinality, Cardinality
  <2> QED
    BY <2>3, <2>4
<1>3. BundleInstall!InstalledIsItsOwn
  BY BundleItemTypes DEF BundleInv, InstallsLand, Landed, BundleInstall!InstalledIsItsOwn
<1> QED
  BY <1>1, <1>2, <1>3 DEF BundleInstall!GraphsUnshared

BundlePartInv == part = "bundles" => BundleInv

LEMMA BundlePartStep == BundlePartInv /\ [Next]_vars => BundlePartInv'
<1> SUFFICES ASSUME BundlePartInv, [Next]_vars, part' = "bundles" PROVE BundleInv'
  BY DEF BundlePartInv
<1>1. part = "bundles" /\ (BundleInstall!Next \/ UNCHANGED bundleVars)
  BY DEF Next, OthersIdle, Idle, vars, RegistryStep, TenancyStep, SyncStep, BundleStep,
     SetupStep, GraphStep, RulesStep, MigrationStep
<1>2. BundleInv
  BY <1>1 DEF BundlePartInv
<1>3. CASE BundleInstall!Next
  BY <1>2, <1>3, BundlesKept
<1>4. CASE UNCHANGED bundleVars
  <2>1. UNCHANGED <<bundleRow, owners, graph, install, bundleStops>>
    BY <1>4 DEF bundleVars
  <2> QED
    BY <1>2, <2>1, RegistryUntouched, RegistryKeeps
<1> QED
  BY <1>1, <1>3, <1>4

(* modulebundle.Install, for any bundles of any authors, installed, dying  *)
(* half way, run again and rolled back in any order, one at a time: the    *)
(* versions of an entity type that are in force, or could come to be by a  *)
(* rollback, are of one author, no status graph has statuses of two        *)
(* entities, and an install that ends in success leaves definitions of its *)
(* own.                                                                    *)
THEOREM BundlesApart == Spec => []BundlesKeepApart
<1>1. Init => BundlePartInv
  BY BundlesInit DEF Init, BundlePartInv
<1>2. BundlePartInv => BundlesKeepApart
  BY BundlesImply DEF BundlePartInv, BundlesKeepApart
<1> QED
  BY <1>1, <1>2, BundlePartStep, PTL DEF Spec

-----------------------------------------------------------------------------
(* Syncs of a tenant's modules.                                            *)

RunRecord ==
  [pc : {"start", "before", "publish", "after", "backfill"},
   present : SUBSET ({ModuleOfType[t] : t \in SyncedTypes} \union UNION {Grants[r] : r \in Runs}),
   before : {<<>>} \union [SyncedTypes -> SyncedVersions \union {0}],
   todo : SUBSET (Nat \union SyncedTypes), failed : BOOLEAN]
Registry == [SyncedTypes -> [SyncedVersions -> {"absent", "published", "rolled_back"}]]

SyncTypes ==
  /\ typeStatus \in Registry
  /\ unkeyed \subseteq UNION {{t} \X ModuleSync!NamesOf(t) : t \in SyncedTypes}
  /\ lost \subseteq SyncedTypes
  /\ run \in [Runs -> RunRecord]
  /\ syncFaults \in 0..MaxSyncFaults

(* What a run x of r holds: only a sync reads and backfills, and none has  *)
(* modules that the tenant was not given.                                  *)
InTurn(r, x) ==
  /\ x.pc \in {"before", "after", "backfill"} => ModuleSync!Synchronizes(r)
  /\ ModuleSync!Synchronizes(r) /\ x.pc \in {"publish", "after", "backfill"} =>
       x.before \in [SyncedTypes -> SyncedVersions \union {0}]
  /\ x.pc = "publish" => x.todo \subseteq ModuleSync!ToPublish(r, x.present)
  /\ x.pc = "backfill" => x.todo \subseteq SyncedTypes
  /\ x.pc # "start" => x.present \union {"foundation"} \subseteq granted

(* A run that will still write the keys of constraint n of t.              *)
Owes(r, x, t, n) ==
  /\ ModuleSync!Synchronizes(r) /\ x.pc \in {"publish", "after", "backfill"}
  /\ n \notin ModuleSync!Constraints(t, x.before[t])
  /\ x.pc = "backfill" => t \in x.todo
KeysOwed ==
  \A t \in SyncedTypes \ lost : \A n \in ModuleSync!InForce(t) :
    <<t, n>> \in unkeyed => \E r \in Runs : Owes(r, run[r], t, n)

SyncInv ==
  /\ SyncTypes /\ KeysOwed /\ ModuleSync!NeverGrants
  /\ \A r \in Runs : InTurn(r, run[r])

LEMMA LeastExists ==
  ASSUME NEW S, S \subseteq Nat, IsFiniteSet(S), S # {}
  PROVE  \E x \in S : \A y \in S : x <= y
<1>1. PICK g \in S : \A y \in S : g >= y
  BY GreatestExists
<1>2. PICK T : T = {g - y : y \in S}
  OBVIOUS
<1>3. T \subseteq Nat /\ T # {}
  BY <1>1, <1>2
<1>4. IsFiniteSet(T)
  <2>1. PICK f : f = [y \in S |-> g - y]
    OBVIOUS
  <2>2. f \in Surjection(S, T)
    BY <1>2, <2>1 DEF Surjection
  <2> QED
    BY <2>2, FS_Surjection
<1>5. PICK m \in T : \A z \in T : m >= z
  BY <1>3, <1>4, GreatestExists
<1>6. PICK x \in S : m = g - x
  BY <1>2, <1>5
<1>7. \A y \in S : x <= y
  <2>1. TAKE y \in S
  <2>2. g - y \in T
    BY <1>2
  <2>3. g - x >= g - y /\ g \in Nat /\ x \in Nat /\ y \in Nat
    BY <1>1, <1>5, <1>6, <2>2
  <2> QED
    BY <2>3
<1> QED
  BY <1>7

LEMMA RunRecordParts ==
  ASSUME NEW q \in RunRecord
  PROVE  /\ q = [pc |-> q.pc, present |-> q.present, before |-> q.before,
                 todo |-> q.todo, failed |-> q.failed]
         /\ q.pc \in {"start", "before", "publish", "after", "backfill"}
         /\ q.present \subseteq ({ModuleOfType[t] : t \in SyncedTypes} \union UNION {Grants[r] : r \in Runs})
         /\ q.before \in {<<>>} \union [SyncedTypes -> SyncedVersions \union {0}]
         /\ q.todo \subseteq Nat \union SyncedTypes /\ q.failed \in BOOLEAN
BY DEF RunRecord

(* The version in force is the greatest that is published.                 *)
LEMMA GetPublishedOf ==
  ASSUME NEW st \in Registry, NEW t \in SyncedTypes
  PROVE  LET g == ModuleSync!GetPublished(st, t)
         IN  /\ g \in SyncedVersions \union {0} /\ g \in Nat
             /\ g = 0 => \A v \in SyncedVersions : st[t][v] # "published"
             /\ g # 0 => /\ st[t][g] = "published"
                         /\ \A v \in SyncedVersions : st[t][v] = "published" => v <= g
<1> DEFINE up == {v \in SyncedVersions : st[t][v] = "published"}
           g == ModuleSync!GetPublished(st, t)
<1>1. SyncedVersions \subseteq Nat \ {0} /\ IsFiniteSet(SyncedVersions)
  BY SyncAssumption
<1>2. CASE up = {}
  <2>1. g = 0
    BY <1>2 DEF ModuleSync!GetPublished
  <2> QED
    BY <1>2, <2>1
<1>3. CASE up # {}
  <2>1. up \subseteq SyncedVersions
    OBVIOUS
  <2>2. IsFiniteSet(up) /\ up \subseteq Nat
    BY <1>1, <2>1, FS_Subset
  <2>3. \E x \in up : \A y \in up : x >= y
    BY <1>3, <2>2, GreatestExists
  <2>4. ModuleSync!Max(up) \in up /\ \A y \in up : ModuleSync!Max(up) >= y
    BY <2>3 DEF ModuleSync!Max
  <2>5. g = ModuleSync!Max(up)
    BY <1>3 DEF ModuleSync!GetPublished
  <2>6. g \in up /\ \A y \in up : g >= y
    BY <2>4, <2>5
  <2>7. g \in Nat \ {0}
    BY <1>1, <2>6
  <2> HIDE DEF g
  <2>8. \A v \in SyncedVersions : st[t][v] = "published" => v <= g
    BY <1>1, <2>6, <2>7
  <2>9. g \in SyncedVersions /\ st[t][g] = "published"
    BY <2>6
  <2> QED
    BY <2>7, <2>8, <2>9 DEF g
<1> QED
  BY <1>2, <1>3

LEMMA GetPublishedSame ==
  ASSUME NEW st, NEW su, NEW t \in SyncedTypes, st[t] = su[t]
  PROVE  ModuleSync!GetPublished(st, t) = ModuleSync!GetPublished(su, t)
BY DEF ModuleSync!GetPublished

LEMMA InForceOf ==
  \A t \in SyncedTypes :
    /\ ModuleSync!PublishedVersions[t] = ModuleSync!GetPublished(typeStatus, t)
    /\ ModuleSync!PublishedVersions'[t] = ModuleSync!GetPublished(typeStatus', t)
    /\ ModuleSync!InForce(t) = ModuleSync!Constraints(t, ModuleSync!GetPublished(typeStatus, t))
    /\ ModuleSync!InForce(t)' = ModuleSync!Constraints(t, ModuleSync!GetPublished(typeStatus', t))
BY DEF ModuleSync!PublishedVersions, ModuleSync!InForce, ModuleSync!Constraints

(* Only a type with a version in force has constraints.                    *)
LEMMA ConstraintsOf ==
  ASSUME NEW t \in SyncedTypes, NEW v \in SyncedVersions \union {0}
  PROVE  /\ ModuleSync!Constraints(t, v) \subseteq ModuleSync!NamesOf(t)
         /\ v = 0 => ModuleSync!Constraints(t, v) = {}
BY DEF ModuleSync!Constraints, ModuleSync!NamesOf

(* A step of a run that publishes nothing.                                 *)
LEMMA RunKeeps ==
  ASSUME SyncInv, NEW r \in Runs, NEW n \in RunRecord, run' = [run EXCEPT ![r] = n],
         UNCHANGED typeStatus, granted \subseteq granted', unkeyed' \subseteq unkeyed,
         lost \subseteq lost', lost' \subseteq SyncedTypes, syncFaults' \in 0..MaxSyncFaults,
         InTurn(r, n)',
         \A t \in SyncedTypes \ lost' : \A c \in ModuleSync!InForce(t) :
           <<t, c>> \in unkeyed' /\ Owes(r, run[r], t, c) => Owes(r, n, t, c)
  PROVE  SyncInv'
<1>1. /\ run' \in [Runs -> RunRecord] /\ run'[r] = n
      /\ \A q \in Runs : q # r => run'[q] = run[q]
  BY DEF SyncInv, SyncTypes
<1>2. SyncTypes'
  BY <1>1 DEF SyncInv, SyncTypes
<1>3. KeysOwed'
  <2>1. SUFFICES ASSUME NEW t \in SyncedTypes \ lost', NEW c \in ModuleSync!InForce(t)',
                        <<t, c>> \in unkeyed'
                 PROVE  \E q \in Runs : Owes(q, run'[q], t, c)
    BY DEF KeysOwed, Owes
  <2>2. c \in ModuleSync!InForce(t) /\ t \in SyncedTypes \ lost /\ <<t, c>> \in unkeyed
    BY <2>1, InForceOf
  <2>3. PICK q \in Runs : Owes(q, run[q], t, c)
    BY <2>2 DEF SyncInv, KeysOwed
  <2>4. CASE q = r
    BY <1>1, <2>1, <2>2, <2>3, <2>4
  <2>5. CASE q # r
    BY <1>1, <2>3, <2>5
  <2> QED
    BY <2>4, <2>5
<1>4. ModuleSync!NeverGrants'
  BY InForceOf DEF SyncInv, ModuleSync!NeverGrants, ModuleSync!PublishedModules, ModuleSync!PublishedVersions
<1>5. ASSUME NEW q \in Runs PROVE InTurn(q, run[q])'
  <2>1. CASE q = r
    BY <1>1, <2>1 DEF InTurn
  <2>2. CASE q # r
    <3>1. InTurn(q, run[q])
      BY DEF SyncInv
    <3> QED
      BY <1>1, <2>2, <3>1 DEF InTurn
  <2> QED
    BY <2>1, <2>2
<1> QED
  BY <1>2, <1>3, <1>4, <1>5 DEF SyncInv

LEMMA SyncsInit == ModuleSync!Init => SyncInv
<1> SUFFICES ASSUME ModuleSync!Init PROVE SyncInv
  OBVIOUS
<1>1. PICK items \in Registries :
        /\ typeStatus = [t \in SyncedTypes |-> [v \in SyncedVersions |->
                           IF <<t, v>> \in items THEN "published" ELSE "absent"]]
        /\ granted = {ModuleOfType[item[1]] : item \in items}
  BY DEF ModuleSync!Init
<1>2. typeStatus \in Registry
  BY <1>1 DEF Registry
<1>3. /\ unkeyed = {} /\ lost = {} /\ syncFaults = 0
      /\ run = [r \in Runs |-> ModuleSync!NewRun]
  BY DEF ModuleSync!Init
<1>4. ModuleSync!NewRun \in RunRecord /\ ModuleSync!NewRun.pc = "start"
  BY DEF ModuleSync!NewRun, RunRecord
<1>5. SyncTypes
  BY <1>2, <1>3, <1>4, SyncAssumption DEF SyncTypes
<1>6. KeysOwed /\ \A r \in Runs : InTurn(r, run[r])
  BY <1>3, <1>4 DEF KeysOwed, InTurn
<1>7. ASSUME NEW t \in SyncedTypes, ModuleSync!PublishedVersions[t] # 0
      PROVE  ModuleOfType[t] \in granted
  <2>1. PICK v \in SyncedVersions : typeStatus[t][v] = "published"
    <3>1. PICK g : g = ModuleSync!GetPublished(typeStatus, t)
      OBVIOUS
    <3>2. g \in SyncedVersions /\ typeStatus[t][g] = "published"
      BY <1>2, <1>7, <3>1, GetPublishedOf, InForceOf
    <3> QED
      BY <3>2
  <2>2. <<t, v>> \in items
    BY <1>1, <2>1
  <2>3. PICK item \in items : item[1] = t
    BY <2>2
  <2> QED
    BY <1>1, <2>3
<1>8. ModuleSync!NeverGrants
  BY <1>7 DEF ModuleSync!NeverGrants, ModuleSync!PublishedModules
<1> QED
  BY <1>5, <1>6, <1>8 DEF SyncInv

LEMMA ProvisionKeeps ==
  ASSUME SyncInv, NEW r \in Runs, NEW ms \in SUBSET Grants[r], ModuleSync!Provision(r, ms)
  PROVE  SyncInv'
<1> DEFINE todo == ModuleSync!ToPublish(r, ms)
<1>1. /\ ~ModuleSync!Synchronizes(r) /\ run[r].pc = "start"
      /\ granted' = granted \union (ms \union {"foundation"})
      /\ run' = [run EXCEPT ![r] = [run[r] EXCEPT !.pc = "publish", !.present = ms, !.todo = todo]]
      /\ UNCHANGED <<typeStatus, unkeyed, lost, syncFaults>>
  BY DEF ModuleSync!Provision, ModuleSync!Foundation
<1>2. todo \subseteq Nat
  BY SyncAssumption DEF ModuleSync!ToPublish
<1> HIDE DEF todo
<1>3. PICK q \in RunRecord : q = run[r]
  BY DEF SyncInv, SyncTypes
<1>4. PICK n : n = [q EXCEPT !.pc = "publish", !.present = ms, !.todo = todo]
  OBVIOUS
<1>5. n = [pc |-> "publish", present |-> ms, before |-> q.before, todo |-> todo, failed |-> q.failed]
  BY <1>4, RunRecordParts DEF RunRecord
<1>6. n \in RunRecord
  BY <1>2, <1>5, RunRecordParts DEF RunRecord
<1>7. run' = [run EXCEPT ![r] = n]
  BY <1>1, <1>3, <1>4
<1>8. InTurn(r, n)'
  BY <1>1, <1>5 DEF InTurn, todo
<1>9. /\ granted \subseteq granted' /\ unkeyed' \subseteq unkeyed /\ lost \subseteq lost'
      /\ lost' \subseteq SyncedTypes /\ syncFaults' \in 0..MaxSyncFaults
  BY <1>1 DEF SyncInv, SyncTypes
<1>10. \A t, c : ~Owes(r, run[r], t, c)
  BY <1>1 DEF Owes
<1> QED
  BY <1>1, <1>6, <1>7, <1>8, <1>9, <1>10, RunKeeps

LEMMA ReadModulesKeeps ==
  ASSUME SyncInv, NEW r \in Runs, ModuleSync!ReadModules(r)
  PROVE  SyncInv'
<1> DEFINE ms == ModuleSync!PublishedModules
<1>1. /\ ModuleSync!Synchronizes(r) /\ run[r].pc = "start" /\ "foundation" \in ms
      /\ run' = [run EXCEPT ![r].pc = "before", ![r].present = ms]
      /\ UNCHANGED <<typeStatus, granted, unkeyed, lost, syncFaults>>
  BY DEF ModuleSync!ReadModules, ModuleSync!Foundation, ModuleSync!IsProvisioned
<1>2. /\ ms \subseteq {ModuleOfType[t] : t \in SyncedTypes}
      /\ ms \subseteq granted
  BY DEF SyncInv, ModuleSync!NeverGrants, ModuleSync!PublishedModules
<1> HIDE DEF ms
<1>3. PICK q \in RunRecord : q = run[r]
  BY DEF SyncInv, SyncTypes
<1>4. PICK n : n = [q EXCEPT !.pc = "before", !.present = ms]
  OBVIOUS
<1>5. n = [pc |-> "before", present |-> ms, before |-> q.before, todo |-> q.todo, failed |-> q.failed]
  BY <1>4, RunRecordParts DEF RunRecord
<1>6. n \in RunRecord
  BY <1>2, <1>5, RunRecordParts DEF RunRecord
<1>7. run' = [run EXCEPT ![r] = n]
  BY <1>1, <1>3, <1>4
<1>8. InTurn(r, n)'
  BY <1>1, <1>2, <1>5 DEF InTurn
<1>9. /\ granted \subseteq granted' /\ unkeyed' \subseteq unkeyed /\ lost \subseteq lost'
      /\ lost' \subseteq SyncedTypes /\ syncFaults' \in 0..MaxSyncFaults
  BY <1>1 DEF SyncInv, SyncTypes
<1>10. \A t, c : ~Owes(r, run[r], t, c)
  BY <1>1 DEF Owes
<1> QED
  BY <1>1, <1>6, <1>7, <1>8, <1>9, <1>10, RunKeeps

LEMMA ReadBeforeKeeps ==
  ASSUME SyncInv, NEW r \in Runs, ModuleSync!ReadBefore(r)
  PROVE  SyncInv'
<1> DEFINE todo == ModuleSync!ToPublish(r, run[r].present)
           now == ModuleSync!PublishedVersions
<1>1. /\ run[r].pc = "before"
      /\ run' = [run EXCEPT ![r] = [run[r] EXCEPT !.pc = "publish", !.before = now, !.todo = todo]]
      /\ UNCHANGED <<typeStatus, granted, unkeyed, lost, syncFaults>>
  BY DEF ModuleSync!ReadBefore
<1>2. todo \subseteq Nat
  BY SyncAssumption DEF ModuleSync!ToPublish
<1>3. now \in [SyncedTypes -> SyncedVersions \union {0}]
  <2>1. \A t \in SyncedTypes : ModuleSync!GetPublished(typeStatus, t) \in SyncedVersions \union {0}
    BY GetPublishedOf DEF SyncInv, SyncTypes
  <2> QED
    BY <2>1 DEF ModuleSync!PublishedVersions
<1>4. InTurn(r, run[r])
  BY DEF SyncInv
<1> HIDE DEF now
<1>5. PICK q \in RunRecord : q = run[r]
  BY DEF SyncInv, SyncTypes
<1>6. PICK todos : todos = todo
  OBVIOUS
<1> HIDE DEF todo
<1>7. PICK n : n = [q EXCEPT !.pc = "publish", !.before = now, !.todo = todos]
  OBVIOUS
<1>8. n = [pc |-> "publish", present |-> q.present, before |-> now, todo |-> todos, failed |-> q.failed]
  BY <1>7, RunRecordParts DEF RunRecord
<1>9. n \in RunRecord
  BY <1>2, <1>3, <1>6, <1>8, RunRecordParts DEF RunRecord
<1>10. run' = [run EXCEPT ![r] = n]
  BY <1>1, <1>5, <1>6, <1>7
<1>11. InTurn(r, n)'
  BY <1>1, <1>3, <1>4, <1>5, <1>6, <1>8 DEF InTurn, todo
<1>12. /\ granted \subseteq granted' /\ unkeyed' \subseteq unkeyed /\ lost \subseteq lost'
       /\ lost' \subseteq SyncedTypes /\ syncFaults' \in 0..MaxSyncFaults
  BY <1>1 DEF SyncInv, SyncTypes
<1>13. \A t, c : ~Owes(r, run[r], t, c)
  BY <1>1 DEF Owes
<1> QED
  BY <1>1, <1>9, <1>10, <1>11, <1>12, <1>13, RunKeeps

LEMMA PublishFailsKeeps ==
  ASSUME SyncInv, NEW r \in Runs, ModuleSync!PublishFails(r)
  PROVE  SyncInv'
<1>1. /\ run[r].pc = "publish" /\ syncFaults < MaxSyncFaults /\ syncFaults' = syncFaults + 1
      /\ run' = [run EXCEPT ![r].todo = {}, ![r].failed = TRUE]
      /\ UNCHANGED <<typeStatus, granted, unkeyed, lost>>
  BY DEF ModuleSync!PublishFails, ModuleSync!Fault
<1>2. InTurn(r, run[r])
  BY DEF SyncInv
<1>3. PICK q \in RunRecord : q = run[r]
  BY DEF SyncInv, SyncTypes
<1>4. PICK n : n = [q EXCEPT !.todo = {}, !.failed = TRUE]
  OBVIOUS
<1>5. n = [pc |-> q.pc, present |-> q.present, before |-> q.before, todo |-> {}, failed |-> TRUE]
  BY <1>4, RunRecordParts DEF RunRecord
<1>6. n \in RunRecord
  BY <1>5, RunRecordParts DEF RunRecord
<1>7. run' = [run EXCEPT ![r] = n]
  BY <1>1, <1>3, <1>4
<1>8. InTurn(r, n)'
  BY <1>1, <1>2, <1>3, <1>5 DEF InTurn
<1>9. /\ granted \subseteq granted' /\ unkeyed' \subseteq unkeyed /\ lost \subseteq lost'
      /\ lost' \subseteq SyncedTypes /\ syncFaults' \in 0..MaxSyncFaults
  BY <1>1, SyncAssumption DEF SyncInv, SyncTypes
<1>10. \A t, c : Owes(r, run[r], t, c) => Owes(r, n, t, c)
  BY <1>1, <1>3, <1>5 DEF Owes
<1> QED
  BY <1>1, <1>6, <1>7, <1>8, <1>9, <1>10, RunKeeps

(* A run that ends, and what it leaves unwritten.                          *)
LEMMA RunEndKeeps ==
  ASSUME SyncInv, NEW r \in Runs, run' = [run EXCEPT ![r] = ModuleSync!NewRun],
         UNCHANGED <<typeStatus, granted, unkeyed>>,
         lost \subseteq lost', lost' \subseteq SyncedTypes, syncFaults' \in 0..MaxSyncFaults,
         \A t \in SyncedTypes \ lost' : \A c \in ModuleSync!InForce(t) : ~Owes(r, run[r], t, c)
  PROVE  SyncInv'
<1>1. PICK n : n = ModuleSync!NewRun
  OBVIOUS
<1>2. n \in RunRecord /\ n.pc = "start"
  BY <1>1 DEF ModuleSync!NewRun, RunRecord
<1>3. InTurn(r, n)'
  BY <1>2 DEF InTurn
<1> QED
  BY <1>1, <1>2, <1>3, RunKeeps

LEMMA PublishEndsKeeps ==
  ASSUME SyncInv, NEW r \in Runs, ModuleSync!PublishEnds(r)
  PROVE  SyncInv'
<1>1. /\ run[r].pc = "publish"
      /\ run' = [run EXCEPT ![r] = IF ~ModuleSync!Synchronizes(r) THEN ModuleSync!NewRun
                                   ELSE [run[r] EXCEPT !.pc = "after"]]
      /\ UNCHANGED <<typeStatus, granted, unkeyed, lost, syncFaults>>
  BY DEF ModuleSync!PublishEnds, ModuleSync!EndsHere
<1>2. lost \subseteq lost' /\ lost' \subseteq SyncedTypes /\ syncFaults' \in 0..MaxSyncFaults
  BY <1>1 DEF SyncInv, SyncTypes
<1>3. CASE ~ModuleSync!Synchronizes(r)
  <2>1. run' = [run EXCEPT ![r] = ModuleSync!NewRun]
    BY <1>1, <1>3
  <2>2. \A t, c : ~Owes(r, run[r], t, c)
    BY <1>3 DEF Owes
  <2> QED
    BY <1>1, <1>2, <2>1, <2>2, RunEndKeeps
<1>4. CASE ModuleSync!Synchronizes(r)
  <2>1. InTurn(r, run[r])
    BY DEF SyncInv
  <2>2. PICK q \in RunRecord : q = run[r]
    BY DEF SyncInv, SyncTypes
  <2>3. PICK n : n = [q EXCEPT !.pc = "after"]
    OBVIOUS
  <2>4. n = [pc |-> "after", present |-> q.present, before |-> q.before, todo |-> q.todo, failed |-> q.failed]
    BY <2>3, RunRecordParts DEF RunRecord
  <2>5. n \in RunRecord
    BY <2>4, RunRecordParts DEF RunRecord
  <2>6. run' = [run EXCEPT ![r] = n]
    BY <1>1, <1>4, <2>2, <2>3
  <2>7. InTurn(r, n)'
    BY <1>1, <1>4, <2>1, <2>2, <2>4 DEF InTurn
  <2>8. \A t, c : Owes(r, run[r], t, c) => Owes(r, n, t, c)
    BY <1>1, <2>2, <2>4 DEF Owes
  <2> QED
    BY <1>1, <1>2, <2>5, <2>6, <2>7, <2>8, RunKeeps
<1> QED
  BY <1>3, <1>4

(* What a run owes has another version in force than when it began.        *)
LEMMA OwedMoved ==
  ASSUME SyncInv, NEW r \in Runs, NEW t \in SyncedTypes, NEW c \in ModuleSync!InForce(t),
         Owes(r, run[r], t, c)
  PROVE  /\ t \in ModuleSync!DiffVersions(r) /\ t \in ModuleSync!Landed(r)
         /\ run[r].before # <<>>
<1>1. PICK g : g = ModuleSync!GetPublished(typeStatus, t)
  OBVIOUS
<1>2. /\ g \in SyncedVersions \union {0} /\ ModuleSync!PublishedVersions[t] = g
      /\ c \in ModuleSync!Constraints(t, g)
  BY <1>1, GetPublishedOf, InForceOf DEF SyncInv, SyncTypes
<1>3. g # 0
  BY <1>2, ConstraintsOf
<1>4. g # run[r].before[t]
  BY <1>2 DEF Owes
<1>5. run[r].before \in [SyncedTypes -> SyncedVersions \union {0}]
  BY DEF SyncInv, InTurn, Owes
<1>6. run[r].before # <<>>
  <2>1. DOMAIN run[r].before = SyncedTypes
    BY <1>5
  <2>2. DOMAIN <<>> = {}
    OBVIOUS
  <2> QED
    BY <2>1, <2>2
<1> QED
  BY <1>2, <1>3, <1>4, <1>6 DEF ModuleSync!DiffVersions, ModuleSync!Landed

LEMMA ReadAfterKeeps ==
  ASSUME SyncInv, NEW r \in Runs, ModuleSync!ReadAfter(r)
  PROVE  SyncInv'
<1> DEFINE moved == ModuleSync!DiffVersions(r)
<1>1. /\ run[r].pc = "after" /\ UNCHANGED <<typeStatus, granted, unkeyed>>
      /\ \/ /\ UNCHANGED <<lost, syncFaults>>
            /\ run' = [run EXCEPT ![r].pc = "backfill", ![r].todo = moved]
         \/ /\ syncFaults < MaxSyncFaults /\ syncFaults' = syncFaults + 1
            /\ lost' = lost \union ModuleSync!Landed(r)
            /\ run' = [run EXCEPT ![r] = ModuleSync!NewRun]
  BY DEF ModuleSync!ReadAfter, ModuleSync!Fault, ModuleSync!NoFault
<1>2. CASE /\ UNCHANGED <<lost, syncFaults>>
           /\ run' = [run EXCEPT ![r].pc = "backfill", ![r].todo = moved]
  <2>1. moved \subseteq SyncedTypes
    BY DEF ModuleSync!DiffVersions
  <2>2. PICK m : m = moved
    OBVIOUS
  <2>3. \A t \in SyncedTypes : \A c \in ModuleSync!InForce(t) : Owes(r, run[r], t, c) => t \in m
    BY <2>2, OwedMoved
  <2> HIDE DEF moved
  <2>4. InTurn(r, run[r])
    BY DEF SyncInv
  <2>5. PICK q \in RunRecord : q = run[r]
    BY DEF SyncInv, SyncTypes
  <2>6. PICK n : n = [q EXCEPT !.pc = "backfill", !.todo = m]
    OBVIOUS
  <2>7. n = [pc |-> "backfill", present |-> q.present, before |-> q.before, todo |-> m, failed |-> q.failed]
    BY <2>6, RunRecordParts DEF RunRecord
  <2>8. n \in RunRecord
    BY <2>1, <2>2, <2>7, RunRecordParts DEF RunRecord
  <2>9. run' = [run EXCEPT ![r] = n]
    BY <1>2, <2>2, <2>5, <2>6
  <2>10. InTurn(r, n)'
    BY <1>1, <2>1, <2>2, <2>4, <2>5, <2>7 DEF InTurn
  <2>11. \A t \in SyncedTypes : \A c \in ModuleSync!InForce(t) :
           Owes(r, run[r], t, c) => Owes(r, n, t, c)
    BY <1>1, <2>3, <2>5, <2>7 DEF Owes
  <2>12. /\ granted \subseteq granted' /\ unkeyed' \subseteq unkeyed /\ lost \subseteq lost'
         /\ lost' \subseteq SyncedTypes /\ syncFaults' \in 0..MaxSyncFaults
    BY <1>1, <1>2 DEF SyncInv, SyncTypes
  <2> QED
    BY <1>1, <2>8, <2>9, <2>10, <2>11, <2>12, RunKeeps
<1>3. CASE /\ syncFaults < MaxSyncFaults /\ syncFaults' = syncFaults + 1
           /\ lost' = lost \union ModuleSync!Landed(r)
           /\ run' = [run EXCEPT ![r] = ModuleSync!NewRun]
  <2>1. ModuleSync!Landed(r) \subseteq SyncedTypes
    BY DEF ModuleSync!Landed
  <2>2. lost \subseteq lost' /\ lost' \subseteq SyncedTypes /\ syncFaults' \in 0..MaxSyncFaults
    BY <1>3, <2>1, SyncAssumption DEF SyncInv, SyncTypes
  <2>3. \A t \in SyncedTypes \ lost' : \A c \in ModuleSync!InForce(t) : ~Owes(r, run[r], t, c)
    BY <1>3, OwedMoved
  <2> QED
    BY <1>1, <1>3, <2>2, <2>3, RunEndKeeps
<1> QED
  BY <1>1, <1>2, <1>3

LEMMA BackfillKeeps ==
  ASSUME SyncInv, NEW r \in Runs, ModuleSync!Backfill(r)
  PROVE  SyncInv'
<1>1. run[r].pc = "backfill" /\ UNCHANGED <<typeStatus, granted>>
  BY DEF ModuleSync!Backfill
<1>2. PICK t \in run[r].todo :
         /\ \/ /\ UNCHANGED <<lost, syncFaults>>
               /\ unkeyed' = unkeyed \ ({t} \X ModuleSync!NewlyAdded(r, t))
            \/ /\ syncFaults < MaxSyncFaults /\ syncFaults' = syncFaults + 1
               /\ lost' = lost \union {t} /\ UNCHANGED unkeyed
         /\ run' = [run EXCEPT ![r].todo = run[r].todo \ {t}]
  BY DEF ModuleSync!Backfill, ModuleSync!Fault, ModuleSync!NoFault
<1>3. InTurn(r, run[r]) /\ t \in SyncedTypes
  BY <1>1, <1>2 DEF SyncInv, InTurn
<1>4. PICK q \in RunRecord : q = run[r]
  BY DEF SyncInv, SyncTypes
<1>5. PICK rest : rest = q.todo \ {t}
  OBVIOUS
<1>6. PICK n : n = [q EXCEPT !.todo = rest]
  OBVIOUS
<1>7. n = [pc |-> q.pc, present |-> q.present, before |-> q.before, todo |-> rest, failed |-> q.failed]
  BY <1>6, RunRecordParts DEF RunRecord
<1>8. n \in RunRecord
  BY <1>5, <1>7, RunRecordParts DEF RunRecord
<1>9. run' = [run EXCEPT ![r] = n]
  BY <1>2, <1>4, <1>5, <1>6
<1>10. InTurn(r, n)'
  BY <1>1, <1>3, <1>4, <1>5, <1>7 DEF InTurn
<1>11. /\ granted \subseteq granted' /\ unkeyed' \subseteq unkeyed /\ lost \subseteq lost'
       /\ lost' \subseteq SyncedTypes /\ syncFaults' \in 0..MaxSyncFaults
  BY <1>1, <1>2, <1>3, SyncAssumption DEF SyncInv, SyncTypes
<1>12. ASSUME NEW s \in SyncedTypes \ lost', NEW c \in ModuleSync!InForce(s),
              <<s, c>> \in unkeyed', Owes(r, run[r], s, c)
       PROVE  Owes(r, n, s, c)
  <2>1. s # t
    <3>1. SUFFICES ASSUME s = t PROVE FALSE
      OBVIOUS
    <3>2. unkeyed' = unkeyed \ ({t} \X ModuleSync!NewlyAdded(r, t))
      BY <1>2, <1>12, <3>1
    <3>3. c \in ModuleSync!NewlyAdded(r, t)
      BY <1>12, <3>1 DEF Owes, ModuleSync!NewlyAdded
    <3> QED
      BY <1>12, <3>1, <3>2, <3>3
  <2> QED
    BY <1>4, <1>5, <1>7, <1>12, <2>1 DEF Owes
<1> QED
  BY <1>1, <1>8, <1>9, <1>10, <1>11, <1>12, RunKeeps

LEMMA FinishSyncKeeps ==
  ASSUME SyncInv, NEW r \in Runs, ModuleSync!Finish(r)
  PROVE  SyncInv'
<1>1. /\ run[r].pc = "backfill" /\ run[r].todo = {}
      /\ run' = [run EXCEPT ![r] = ModuleSync!NewRun]
      /\ UNCHANGED <<typeStatus, granted, unkeyed, lost, syncFaults>>
  BY DEF ModuleSync!Finish
<1>2. lost \subseteq lost' /\ lost' \subseteq SyncedTypes /\ syncFaults' \in 0..MaxSyncFaults
  BY <1>1 DEF SyncInv, SyncTypes
<1>3. \A t, c : ~Owes(r, run[r], t, c)
  BY <1>1 DEF Owes
<1> QED
  BY <1>1, <1>2, <1>3, RunEndKeeps

LEMMA DieKeeps ==
  ASSUME SyncInv, NEW r \in Runs, ModuleSync!Die(r)
  PROVE  SyncInv'
<1>1. /\ syncFaults < MaxSyncFaults /\ syncFaults' = syncFaults + 1
      /\ run' = [run EXCEPT ![r] = ModuleSync!NewRun]
      /\ lost' = IF run[r].before = <<>> THEN lost ELSE lost \union ModuleSync!Landed(r)
      /\ UNCHANGED <<typeStatus, granted, unkeyed>>
  BY DEF ModuleSync!Die, ModuleSync!Fault
<1>2. ModuleSync!Landed(r) \subseteq SyncedTypes
  BY DEF ModuleSync!Landed
<1>3. lost \subseteq lost' /\ lost' \subseteq SyncedTypes /\ syncFaults' \in 0..MaxSyncFaults
  BY <1>1, <1>2, SyncAssumption DEF SyncInv, SyncTypes
<1>4. \A t \in SyncedTypes \ lost' : \A c \in ModuleSync!InForce(t) : ~Owes(r, run[r], t, c)
  BY <1>1, OwedMoved
<1> QED
  BY <1>1, <1>3, <1>4, RunEndKeeps

LEMMA BackfillForcedKeeps ==
  ASSUME SyncInv, NEW t \in SyncedTypes, ModuleSync!BackfillForced(t)
  PROVE  SyncInv'
<1>1. /\ unkeyed' = unkeyed \ ({t} \X ModuleSync!InForce(t)) /\ lost' = lost \ {t}
      /\ UNCHANGED <<typeStatus, granted, run, syncFaults>>
  BY DEF ModuleSync!BackfillForced
<1>2. SyncTypes'
  BY <1>1 DEF SyncInv, SyncTypes
<1>3. KeysOwed'
  <2>1. SUFFICES ASSUME NEW s \in SyncedTypes \ lost', NEW c \in ModuleSync!InForce(s)',
                        <<s, c>> \in unkeyed'
                 PROVE  \E q \in Runs : Owes(q, run[q], s, c)
    BY <1>1 DEF KeysOwed, Owes
  <2>2. c \in ModuleSync!InForce(s)
    BY <1>1, <2>1, InForceOf
  <2>3. s # t
    BY <1>1, <2>1, <2>2
  <2> QED
    BY <1>1, <2>1, <2>2, <2>3 DEF SyncInv, KeysOwed
<1>4. ModuleSync!NeverGrants'
  BY <1>1 DEF SyncInv, ModuleSync!NeverGrants, ModuleSync!PublishedModules, ModuleSync!PublishedVersions
<1>5. \A r \in Runs : InTurn(r, run[r])'
  BY <1>1 DEF SyncInv, InTurn
<1> QED
  BY <1>1, <1>2, <1>3, <1>4, <1>5 DEF SyncInv

LEMMA SaveRecordKeeps ==
  ASSUME SyncInv, NEW t \in SyncedTypes, ModuleSync!SaveRecord(t)
  PROVE  SyncInv'
<1>1. /\ unkeyed' = unkeyed \union ({t} \X (ModuleSync!NamesOf(t) \ ModuleSync!InForce(t)))
      /\ UNCHANGED <<typeStatus, granted, run, lost, syncFaults>>
  BY DEF ModuleSync!SaveRecord
<1>2. SyncTypes'
  BY <1>1 DEF SyncInv, SyncTypes
<1>3. KeysOwed'
  <2>1. SUFFICES ASSUME NEW s \in SyncedTypes \ lost', NEW c \in ModuleSync!InForce(s)',
                        <<s, c>> \in unkeyed'
                 PROVE  \E q \in Runs : Owes(q, run[q], s, c)
    BY <1>1 DEF KeysOwed, Owes
  <2>2. c \in ModuleSync!InForce(s)
    BY <1>1, <2>1, InForceOf
  <2>3. <<s, c>> \in unkeyed
    BY <1>1, <2>1, <2>2
  <2> QED
    BY <1>1, <2>1, <2>2, <2>3 DEF SyncInv, KeysOwed
<1>4. ModuleSync!NeverGrants'
  BY <1>1 DEF SyncInv, ModuleSync!NeverGrants, ModuleSync!PublishedModules, ModuleSync!PublishedVersions
<1>5. \A r \in Runs : InTurn(r, run[r])'
  BY <1>1 DEF SyncInv, InTurn
<1> QED
  BY <1>1, <1>2, <1>3, <1>4, <1>5 DEF SyncInv

(* A step that changes the versions of one type only.                      *)
LEMMA OthersInForce ==
  ASSUME SyncInv, NEW t \in SyncedTypes, typeStatus' \in Registry, lost \subseteq lost',
         \A s \in SyncedTypes : s # t => typeStatus'[s] = typeStatus[s]
  PROVE  /\ \A s \in SyncedTypes : s # t => ModuleSync!InForce(s)' = ModuleSync!InForce(s)
         /\ \A s \in SyncedTypes :
              s # t => ModuleSync!PublishedVersions'[s] = ModuleSync!PublishedVersions[s]
         /\ \A c \in ModuleSync!InForce(t)' :
              c \in ModuleSync!InForce(t) \/ c \in ModuleSync!Newly(t, typeStatus')
         /\ ModuleSync!InForce(t)' \subseteq ModuleSync!NamesOf(t)
<1>1. \A s \in SyncedTypes : s # t =>
        ModuleSync!GetPublished(typeStatus', s) = ModuleSync!GetPublished(typeStatus, s)
  <2>1. SUFFICES ASSUME NEW s \in SyncedTypes, s # t
                 PROVE  ModuleSync!GetPublished(typeStatus', s) = ModuleSync!GetPublished(typeStatus, s)
    OBVIOUS
  <2>2. typeStatus'[s] = typeStatus[s]
    BY <2>1
  <2> QED
    BY <2>2, GetPublishedSame
<1>2. ModuleSync!InForce(t)' \subseteq ModuleSync!NamesOf(t)
  <2>1. ModuleSync!GetPublished(typeStatus', t) \in SyncedVersions \union {0}
    BY GetPublishedOf
  <2> QED
    BY <2>1, InForceOf, ConstraintsOf
<1>3. \A c \in ModuleSync!InForce(t)' :
        c \in ModuleSync!InForce(t) \/ c \in ModuleSync!Newly(t, typeStatus')
  BY InForceOf DEF ModuleSync!Newly
<1> QED
  BY <1>1, <1>2, <1>3, InForceOf

LEMMA RollbackVersionKeeps ==
  ASSUME SyncInv, NEW t \in SyncedTypes, NEW v \in SyncedVersions, ModuleSync!Rollback(t, v)
  PROVE  SyncInv'
<1>1. /\ typeStatus[t][v] = "published"
      /\ typeStatus' = [typeStatus EXCEPT ![t][v] = "rolled_back"]
      /\ lost' = IF ModuleSync!Newly(t, typeStatus') # {} THEN lost \union {t} ELSE lost
      /\ UNCHANGED <<granted, unkeyed, run, syncFaults>>
  BY DEF ModuleSync!Rollback
<1>2. /\ typeStatus' \in Registry
      /\ \A s \in SyncedTypes : s # t => typeStatus'[s] = typeStatus[s]
      /\ \A w \in SyncedVersions : typeStatus'[t][w] = "published" => typeStatus[t][w] = "published"
  BY <1>1 DEF SyncInv, SyncTypes, Registry
<1>3. SyncTypes'
  BY <1>1, <1>2 DEF SyncInv, SyncTypes
<1>4. KeysOwed'
  <2>1. SUFFICES ASSUME NEW s \in SyncedTypes \ lost', NEW c \in ModuleSync!InForce(s)',
                        <<s, c>> \in unkeyed'
                 PROVE  \E q \in Runs : Owes(q, run[q], s, c)
    BY <1>1 DEF KeysOwed, Owes
  <2>2. lost \subseteq lost'
    BY <1>1
  <2>3. c \in ModuleSync!InForce(s)
    BY <1>1, <1>2, <2>1, <2>2, OthersInForce
  <2> QED
    BY <1>1, <2>1, <2>2, <2>3 DEF SyncInv, KeysOwed
<1>5. ASSUME NEW s \in SyncedTypes, ModuleSync!PublishedVersions'[s] # 0
      PROVE  ModuleSync!PublishedVersions[s] # 0
  <2>1. PICK g : g = ModuleSync!GetPublished(typeStatus', s)
    OBVIOUS
  <2>2. g \in SyncedVersions /\ typeStatus'[s][g] = "published"
    BY <1>2, <1>5, <2>1, GetPublishedOf, InForceOf
  <2>3. typeStatus[s][g] = "published"
    BY <1>2, <2>2
  <2>4. ModuleSync!GetPublished(typeStatus, s) # 0
    BY <2>2, <2>3, GetPublishedOf DEF SyncInv, SyncTypes
  <2> QED
    BY <2>4, InForceOf
<1>6. ModuleSync!NeverGrants'
  BY <1>1, <1>5 DEF SyncInv, ModuleSync!NeverGrants, ModuleSync!PublishedModules
<1>7. \A r \in Runs : InTurn(r, run[r])'
  BY <1>1 DEF SyncInv, InTurn
<1> QED
  BY <1>3, <1>4, <1>6, <1>7 DEF SyncInv

LEMMA UpToIsFinite ==
  ASSUME NEW m \in Nat
  PROVE  IsFiniteSet(1..m)
<1>1. 1 \in Int /\ m \in Int
  OBVIOUS
<1> QED
  BY ONLY <1>1, FS_Interval

LEMMA PublishKeeps ==
  ASSUME SyncInv, NEW r \in Runs, ModuleSync!Publish(r)
  PROVE  SyncInv'
<1> DEFINE i == ModuleSync!Min(run[r].todo)
<1>1. /\ run[r].pc = "publish" /\ run[r].todo # {}
      /\ typeStatus' = ModuleSync!PublishedAs(typeStatus, Release[r][i][1], Release[r][i][2])
      /\ lost' = IF ModuleSync!Unseen(r, Release[r][i][1], typeStatus') # {}
                   THEN lost \union {Release[r][i][1]} ELSE lost
      /\ run' = [run EXCEPT ![r].todo = run[r].todo \ {i}]
      /\ UNCHANGED <<granted, unkeyed, syncFaults>>
  BY DEF ModuleSync!Publish
<1>2. InTurn(r, run[r])
  BY DEF SyncInv
<1>3. i \in run[r].todo
  <2>1. run[r].todo \subseteq DOMAIN Release[r]
    BY <1>1, <1>2 DEF InTurn, ModuleSync!ToPublish
  <2>2. DOMAIN Release[r] = 1..Len(Release[r]) /\ Len(Release[r]) \in Nat
    BY SyncAssumption
  <2>3. PICK m \in Nat : m = Len(Release[r])
    BY <2>2
  <2>4. IsFiniteSet(1..m) /\ run[r].todo \subseteq 1..m
    BY <2>1, <2>2, <2>3, UpToIsFinite
  <2>5. IsFiniteSet(run[r].todo)
    BY ONLY <2>4, FS_Subset
  <2>6. run[r].todo \subseteq Nat
    BY <2>1, <2>2
  <2>7. \E x \in run[r].todo : \A y \in run[r].todo : x <= y
    BY <1>1, <2>5, <2>6, LeastExists
  <2> QED
    BY <2>7 DEF ModuleSync!Min
<1>4. /\ i \in DOMAIN Release[r]
      /\ ModuleOfType[Release[r][i][1]] \in run[r].present \union {"foundation"}
  BY <1>1, <1>2, <1>3 DEF InTurn, ModuleSync!ToPublish, ModuleSync!Foundation
<1>5. PICK t \in SyncedTypes, v \in SyncedVersions : Release[r][i] = <<t, v>>
  <2>1. Release[r] \in Seq(SyncedTypes \X SyncedVersions)
    BY SyncAssumption
  <2>2. Release[r][i] \in SyncedTypes \X SyncedVersions
    BY <1>4, <2>1
  <2> QED
    BY <2>2
<1>6. ModuleOfType[t] \in granted
  BY <1>1, <1>2, <1>4, <1>5 DEF InTurn
<1>7. /\ typeStatus' = ModuleSync!PublishedAs(typeStatus, t, v)
      /\ lost' = IF ModuleSync!Unseen(r, t, typeStatus') # {} THEN lost \union {t} ELSE lost
  BY <1>1, <1>5
<1>8. PICK j : j = i
  OBVIOUS
<1> HIDE DEF i
<1>9. /\ typeStatus' \in Registry
      /\ \A s \in SyncedTypes : s # t => typeStatus'[s] = typeStatus[s]
  BY <1>7 DEF SyncInv, SyncTypes, Registry, ModuleSync!PublishedAs
<1>10. PICK q \in RunRecord : q = run[r]
  BY DEF SyncInv, SyncTypes
<1>11. PICK n : n = [q EXCEPT !.todo = q.todo \ {j}]
  OBVIOUS
<1>12. n = [pc |-> q.pc, present |-> q.present, before |-> q.before, todo |-> q.todo \ {j},
            failed |-> q.failed]
  BY <1>11, RunRecordParts DEF RunRecord
<1>13. n \in RunRecord
  BY <1>12, RunRecordParts DEF RunRecord
<1>14. /\ run' \in [Runs -> RunRecord] /\ run'[r] = n
       /\ \A p \in Runs : p # r => run'[p] = run[p]
  <2>1. run' = [run EXCEPT ![r] = n]
    BY <1>1, <1>8, <1>10, <1>11
  <2> QED
    BY <1>13, <2>1 DEF SyncInv, SyncTypes
<1>15. SyncTypes'
  BY <1>1, <1>7, <1>9, <1>14 DEF SyncInv, SyncTypes
<1>16. \A p \in Runs : InTurn(p, run[p])'
  <2>1. TAKE p \in Runs
  <2>2. CASE p = r
    BY <1>1, <1>2, <1>10, <1>12, <1>14, <2>2 DEF InTurn
  <2>3. CASE p # r
    <3>1. InTurn(p, run[p])
      BY DEF SyncInv
    <3> QED
      BY <1>1, <1>14, <2>3, <3>1 DEF InTurn
  <2> QED
    BY <2>2, <2>3
<1>17. ModuleSync!NeverGrants'
  <2>1. lost \subseteq lost'
    BY <1>7
  <2>2. ASSUME NEW s \in SyncedTypes, ModuleSync!PublishedVersions'[s] # 0
        PROVE  ModuleOfType[s] \in granted
    <3>1. CASE s = t
      BY <1>6, <3>1
    <3>2. CASE s # t
      <4>1. ModuleSync!PublishedVersions[s] # 0
        BY <1>9, <2>1, <2>2, <3>2, OthersInForce
      <4> QED
        BY <4>1 DEF SyncInv, ModuleSync!NeverGrants, ModuleSync!PublishedModules
    <3> QED
      BY <3>1, <3>2
  <2> QED
    BY <1>1, <2>2 DEF ModuleSync!NeverGrants, ModuleSync!PublishedModules
<1>18. KeysOwed'
  <2>1. SUFFICES ASSUME NEW s \in SyncedTypes \ lost', NEW c \in ModuleSync!InForce(s)',
                        <<s, c>> \in unkeyed'
                 PROVE  \E p \in Runs : Owes(p, run'[p], s, c)
    BY DEF KeysOwed, Owes
  <2>2. lost \subseteq lost'
    BY <1>7
  <2>3. CASE c \in ModuleSync!InForce(s)
    <3>1. PICK p \in Runs : Owes(p, run[p], s, c)
      BY <1>1, <2>1, <2>2, <2>3 DEF SyncInv, KeysOwed
    <3>2. CASE p = r
      <4>1. Owes(r, n, s, c)
        BY <1>1, <1>10, <1>12, <3>1, <3>2 DEF Owes
      <4> QED
        BY <1>14, <4>1
    <3>3. CASE p # r
      BY <1>14, <3>1, <3>3
    <3> QED
      BY <3>2, <3>3
  <2>4. CASE c \notin ModuleSync!InForce(s)
    <3>1. s = t
      BY <1>9, <2>1, <2>2, <2>4, OthersInForce
    <3>2. c \in ModuleSync!Newly(t, typeStatus') /\ c \in ModuleSync!NamesOf(t)
      BY <1>9, <2>1, <2>2, <2>4, <3>1, OthersInForce
    <3>3. c \notin ModuleSync!Unseen(r, t, typeStatus')
      BY <1>7, <2>1, <3>1
    <3>4. /\ ModuleSync!Synchronizes(r)
          /\ c \notin ModuleSync!Constraints(t, run[r].before[t])
      BY <3>2, <3>3 DEF ModuleSync!Unseen
    <3>5. Owes(r, n, s, c)
      BY <1>1, <1>10, <1>12, <3>1, <3>4 DEF Owes
    <3> QED
      BY <1>14, <3>5
  <2> QED
    BY <2>3, <2>4
<1> QED
  BY <1>15, <1>16, <1>17, <1>18 DEF SyncInv

LEMMA SyncsKept == ASSUME SyncInv, ModuleSync!Next PROVE SyncInv'
<1>1. ASSUME NEW r \in Runs, ModuleSync!RunStep(r) PROVE SyncInv'
  BY <1>1, ProvisionKeeps, ReadModulesKeeps, ReadBeforeKeeps, PublishKeeps, PublishFailsKeeps,
     PublishEndsKeeps, ReadAfterKeeps, BackfillKeeps, FinishSyncKeeps, DieKeeps
  DEF ModuleSync!RunStep
<1> QED
  BY <1>1, BackfillForcedKeeps, SaveRecordKeeps, RollbackVersionKeeps DEF ModuleSync!Next

LEMMA SyncsProtect == SyncInv => ModuleSync!ConstraintsProtect
<1>1. SUFFICES ASSUME SyncInv, \A r \in Runs : ~ModuleSync!Working(r),
                      NEW t \in SyncedTypes \ lost, NEW c \in ModuleSync!InForce(t),
                      <<t, c>> \in unkeyed
               PROVE  FALSE
  BY DEF ModuleSync!ConstraintsProtect
<1>2. PICK r \in Runs : Owes(r, run[r], t, c)
  BY <1>1 DEF SyncInv, KeysOwed
<1> QED
  BY <1>1, <1>2 DEF Owes, ModuleSync!Working

(* What the dry run says of a type is what the publication would do.       *)
LEMMA DryRun == SyncInv => ModuleSync!DryRunIsHonest
<1> SUFFICES ASSUME SyncInv, NEW r \in Runs
             PROVE  LET items == {Release[r][i] : i \in ModuleSync!ToPublish(r, ModuleSync!PublishedModules)}
                    IN  {t \in SyncedTypes : ModuleSync!GetPublished(ModuleSync!Published(items), t)
                                               # ModuleSync!PublishedVersions[t]}
                        = {item[1] : item \in {i \in items : ModuleSync!Planned(i[1], i[2])}}
  BY DEF ModuleSync!DryRunIsHonest
<1> DEFINE items == {Release[r][i] : i \in ModuleSync!ToPublish(r, ModuleSync!PublishedModules)}
           after == ModuleSync!Published(items)
<1>1. items \subseteq SyncedTypes \X SyncedVersions
  <2>1. Release[r] \in Seq(SyncedTypes \X SyncedVersions)
    BY SyncAssumption
  <2> QED
    BY <2>1 DEF ModuleSync!ToPublish
<1>2. typeStatus \in Registry
  BY DEF SyncInv, SyncTypes
<1> HIDE DEF items
<1>3. /\ after \in Registry
      /\ \A t \in SyncedTypes, v \in SyncedVersions :
           (after[t][v] = "published") <=>
             \/ typeStatus[t][v] = "published"
             \/ typeStatus[t][v] = "absent" /\ <<t, v>> \in items
  BY <1>2 DEF ModuleSync!Published, ModuleSync!PublishedAs, Registry
<1> HIDE DEF after
<1>4. ASSUME NEW t \in SyncedTypes
      PROVE  (ModuleSync!GetPublished(after, t) # ModuleSync!PublishedVersions[t]) <=>
               \E v \in SyncedVersions : <<t, v>> \in items /\ ModuleSync!Planned(t, v)
  <2>1. PICK g : g = ModuleSync!GetPublished(typeStatus, t)
    OBVIOUS
  <2>2. PICK h : h = ModuleSync!GetPublished(after, t)
    OBVIOUS
  <2>3. /\ g \in SyncedVersions \union {0} /\ g \in Nat
        /\ g = 0 => \A v \in SyncedVersions : typeStatus[t][v] # "published"
        /\ g # 0 => /\ typeStatus[t][g] = "published"
                    /\ \A v \in SyncedVersions : typeStatus[t][v] = "published" => v <= g
    BY <1>2, <2>1, GetPublishedOf
  <2>4. /\ h \in SyncedVersions \union {0} /\ h \in Nat
        /\ h = 0 => \A v \in SyncedVersions : after[t][v] # "published"
        /\ h # 0 => /\ after[t][h] = "published"
                    /\ \A v \in SyncedVersions : after[t][v] = "published" => v <= h
    BY <1>3, <2>2, GetPublishedOf
  <2>5. \A v \in SyncedVersions : ModuleSync!Planned(t, v) <=> v > g /\ typeStatus[t][v] # "rolled_back"
    BY <2>1, InForceOf DEF ModuleSync!Planned
  <2>6. SyncedVersions \subseteq Nat \ {0}
    BY SyncAssumption
  <2>7. \A v \in SyncedVersions : typeStatus[t][v] \in {"absent", "published", "rolled_back"}
    BY <1>2 DEF Registry
  <2>8. ASSUME h # g
        PROVE  \E v \in SyncedVersions : <<t, v>> \in items /\ v > g /\ typeStatus[t][v] # "rolled_back"
    <3>1. g # 0 => h # 0 /\ g <= h
      BY <1>3, <2>3, <2>4, <2>6
    <3>2. h # 0 /\ h > g /\ h \in SyncedVersions
      BY <2>3, <2>4, <2>6, <2>8, <3>1
    <3>3. typeStatus[t][h] # "published"
      BY <2>3, <2>6, <3>2
    <3>4. typeStatus[t][h] = "absent" /\ <<t, h>> \in items
      BY <1>3, <2>4, <3>2, <3>3
    <3> QED
      BY <3>2, <3>4
  <2>9. ASSUME NEW v \in SyncedVersions, <<t, v>> \in items, v > g, typeStatus[t][v] # "rolled_back"
        PROVE  h # g
    <3>1. typeStatus[t][v] # "published"
      BY <2>3, <2>6, <2>9
    <3>2. after[t][v] = "published"
      BY <1>3, <2>7, <2>9, <3>1
    <3>3. h # 0 /\ v <= h
      BY <2>4, <3>2
    <3> QED
      BY <2>3, <2>4, <2>6, <2>9, <3>3
  <2> QED
    BY <2>1, <2>2, <2>5, <2>8, <2>9, InForceOf
<1>5. {t \in SyncedTypes : ModuleSync!GetPublished(after, t) # ModuleSync!PublishedVersions[t]}
      = {item[1] : item \in {i \in items : ModuleSync!Planned(i[1], i[2])}}
  <2>1. ASSUME NEW t \in SyncedTypes,
               ModuleSync!GetPublished(after, t) # ModuleSync!PublishedVersions[t]
        PROVE  \E item \in items : ModuleSync!Planned(item[1], item[2]) /\ t = item[1]
    <3>1. PICK v \in SyncedVersions : <<t, v>> \in items /\ ModuleSync!Planned(t, v)
      BY <1>4, <2>1
    <3>2. PICK item \in items : item = <<t, v>>
      BY <3>1
    <3>3. item[1] = t /\ item[2] = v
      BY <3>2
    <3> QED
      BY <3>1, <3>3
  <2>2. ASSUME NEW item \in items, ModuleSync!Planned(item[1], item[2])
        PROVE  /\ item[1] \in SyncedTypes
               /\ ModuleSync!GetPublished(after, item[1]) # ModuleSync!PublishedVersions[item[1]]
    <3>1. item = <<item[1], item[2]>> /\ item[1] \in SyncedTypes /\ item[2] \in SyncedVersions
      BY <1>1
    <3> QED
      BY <1>4, <2>2, <3>1
  <2> QED
    BY <2>1, <2>2
<1> QED
  BY <1>5 DEF after, items

LEMMA SyncTypesCorrect == SyncInv => ModuleSync!TypeOK
<1> SUFFICES ASSUME SyncInv PROVE ModuleSync!TypeOK
  OBVIOUS
<1>1. \A r \in Runs : run[r].pc \in {"start", "before", "publish", "after", "backfill"}
  BY RunRecordParts DEF SyncInv, SyncTypes
<1> QED
  BY <1>1 DEF SyncInv, SyncTypes, Registry, ModuleSync!TypeOK

SyncPartInv == part = "sync" => SyncInv

LEMMA SyncPartStep == SyncPartInv /\ [Next]_vars => SyncPartInv'
<1> SUFFICES ASSUME SyncPartInv, [Next]_vars, part' = "sync" PROVE SyncInv'
  BY DEF SyncPartInv
<1>1. part = "sync" /\ (ModuleSync!Next \/ UNCHANGED syncVars)
  BY DEF Next, OthersIdle, Idle, vars, RegistryStep, TenancyStep, SyncStep, BundleStep,
     SetupStep, GraphStep, RulesStep, MigrationStep
<1>2. SyncInv
  BY <1>1 DEF SyncPartInv
<1>3. CASE ModuleSync!Next
  BY <1>2, <1>3, SyncsKept
<1>4. CASE UNCHANGED syncVars
  <2>1. UNCHANGED <<typeStatus, granted, unkeyed, run, lost, syncFaults>>
    BY <1>4 DEF syncVars
  <2>2. SyncTypes' /\ ModuleSync!NeverGrants' /\ \A r \in Runs : InTurn(r, run[r])'
    BY <1>2, <2>1 DEF SyncInv, SyncTypes, InTurn, ModuleSync!NeverGrants,
       ModuleSync!PublishedModules, ModuleSync!PublishedVersions
  <2>3. KeysOwed'
    BY <1>2, <2>1 DEF SyncInv, KeysOwed, Owes, ModuleSync!InForce, ModuleSync!PublishedVersions
  <2> QED
    BY <2>2, <2>3 DEF SyncInv
<1> QED
  BY <1>1, <1>3, <1>4

LEMMA SyncInvariant == Spec => []SyncPartInv
<1>1. Init => SyncPartInv
  BY SyncsInit DEF Init, SyncPartInv
<1> QED
  BY <1>1, SyncPartStep, PTL DEF Spec

(* synchronizeTenant and provision-tenant, for any releases, tenants and   *)
(* rollbacks, runs at the same time, failing and dying anywhere: no tenant *)
(* comes to have a module it was not given, and what the dry run announces *)
(* of each type is what a run would do then.                               *)
THEOREM SyncsStayInModules == Spec => []SyncsKeepToTheirModules
<1>1. SyncPartInv => SyncsKeepToTheirModules
  BY SyncTypesCorrect, DryRun DEF SyncPartInv, SyncInv, SyncsKeepToTheirModules
<1> QED
  BY <1>1, SyncInvariant, PTL

(* The same: once no run is under way, a unique constraint in force has the*)
(* keys of every record, but for the types whose backfill was not done.    *)
THEOREM SyncedConstraintsProtect == Spec => []ConstraintsProtect
<1>1. SyncPartInv => ConstraintsProtect
  BY SyncsProtect DEF SyncPartInv, ConstraintsProtect
<1> QED
  BY <1>1, SyncInvariant, PTL
=============================================================================
