----------------------- MODULE ProvisioningDataProofs -----------------------
(***************************************************************************)
(* What holds of the data of a tenant for any instance: of its first       *)
(* records, of the status graphs it is seeded with, of its records under   *)
(* the rules of their fields, and of what they say under migrations.       *)
(***************************************************************************)
EXTENDS Provisioning, FiniteSetTheorems, SequenceTheorems, WellFoundedInduction, TLAPS

LEMMA LeastExists ==
  ASSUME NEW S, S \subseteq Nat, S # {}
  PROVE  \E x \in S : \A y \in S : x <= y
<1>1. PICK x \in S : \A y \in S : ~(<<y, x>> \in OpToRel(<, Nat))
  BY WFMin, NatLessThanWellFounded
<1>2. \A y \in S : ~(y < x)
  BY <1>1 DEF OpToRel
<1> QED
  BY <1>2

-----------------------------------------------------------------------------
(* The first records of a tenant.                                          *)

(* The rounds are what their definition says, which no recursive           *)
(* definition is before such a function is found.                          *)
LEMMA RoundsAre ==
  ASSUME NEW mods, NEW last \in Nat, last = Cardinality(TenantSetup!TypesIn(mods)),
         NEW fn, fn = TenantSetup!Rounds(mods)
  PROVE  \A n \in 0..last : fn[n] = IF n = 0 THEN {} ELSE TenantSetup!Entered(mods, fn[n - 1])
<1> DEFINE Body(g, n) == IF n = 0 THEN {} ELSE TenantSetup!Entered(mods, g[n - 1])
           Upto(k, g) == g = [n \in 0..k |-> Body(g, n)]
           Bad == {k \in Nat : ~ \E g : Upto(k, g)}
<1>1. ASSUME NEW k \in Nat, \A m \in Nat : m < k => \E g : Upto(m, g)
      PROVE  \E g : Upto(k, g)
  <2>1. CASE k = 0
    <3>1. PICK g : g = [n \in 0..0 |-> {}]
      OBVIOUS
    <3>2. \A n \in 0..0 : Body(g, n) = {}
      OBVIOUS
    <3>3. Upto(0, g)
      BY <3>1, <3>2
    <3> QED
      BY <2>1, <3>3
  <2>2. CASE k # 0
    <3>1. PICK g : Upto(k - 1, g)
      <4> HIDE DEF Upto
      <4>1. k - 1 \in Nat /\ k - 1 < k
        BY <1>1, <2>2
      <4> QED
        BY <1>1, <4>1
    <3>2. PICK h : h = [n \in 0..k |-> Body(g, n)]
      OBVIOUS
    <3>3. \A n \in 0..(k - 1) : h[n] = g[n]
      <4> HIDE DEF Body
      <4>1. \A n \in 0..(k - 1) : g[n] = Body(g, n)
        BY <3>1
      <4>2. \A n \in 0..(k - 1) : n \in 0..k
        BY <1>1, <2>2
      <4> QED
        BY <3>2, <4>1, <4>2
    <3>4. \A n \in 0..k : n # 0 => h[n - 1] = g[n - 1]
      BY <3>3
    <3>5. \A n \in 0..k : Body(h, n) = Body(g, n)
      BY <3>4
    <3>6. Upto(k, h)
      BY <3>2, <3>5
    <3> QED
      BY <3>6
  <2> QED
    BY <2>1, <2>2
<1>2. Bad = {}
  <2>1. SUFFICES ASSUME Bad # {} PROVE FALSE
    OBVIOUS
  <2>2. PICK k \in Bad : \A m \in Bad : k <= m
    <3> HIDE DEF Bad
    <3>1. Bad \subseteq Nat
      BY DEF Bad
    <3> QED
      BY <2>1, <3>1, LeastExists
  <2>3. \A m \in Nat : m < k => \E g : Upto(m, g)
    <3> HIDE DEF Upto
    <3>1. k \in Nat
      BY <2>2
    <3> QED
      BY <2>2, <3>1
  <2>4. \E g : Upto(k, g)
    <3> HIDE DEF Upto
    <3> QED
      BY <1>1, <2>2, <2>3
  <2> QED
    BY <2>2, <2>4
<1>3. \E g : Upto(last, g)
  <2> HIDE DEF Upto
  <2> QED
    BY <1>2
<1>4. fn = CHOOSE g : Upto(last, g)
  BY DEF TenantSetup!Rounds, TenantSetup!Cardinality, Cardinality
<1>5. Upto(last, fn)
  <2> HIDE DEF Upto
  <2> QED
    BY <1>3, <1>4
<1> QED
  BY <1>5

(* Who has more modules and more records has more to choose from.          *)
LEMMA ChoiceGrows ==
  ASSUME NEW c1, NEW c2, c1 \subseteq c2, NEW t1, NEW t2, t1 \subseteq t2, NEW d, NEW f,
         TenantSetup!Choice(c1, t1, d, f)
  PROVE  TenantSetup!Choice(c2, t2, d, f)
BY DEF TenantSetup!Choice

(* When there is nothing left to save, all that can be entered with some   *)
(* of the modules that are complete has been.                              *)
LEMMA EnteredIsUsed ==
  ASSUME TenantSetup!NewlySavable = {}, NEW mods \in SUBSET licence,
         \A k \in mods : TenantSetup!Complete(k),
         NEW types, types \subseteq used
  PROVE  TenantSetup!Entered(mods, types) \subseteq used
<1>1. SUFFICES ASSUME NEW m \in mods, NEW t \in TenantSetup!TypesOf(m),
                      t \in TenantSetup!OwnPages \/ TenantSetup!OnForm(m, t),
                      \A f \in TenantSetup!Chosen(TenantSetup!ModuleTypes[m][t]) :
                        TenantSetup!Choice(TenantSetup!CodesOf(mods), types,
                                           TenantSetup!ModuleTypes[m][t], f)
               PROVE  t \in used
  BY DEF TenantSetup!Entered
<1>2. m \in licence /\ stage[m] = "statuses"
  BY DEF TenantSetup!Complete
<1>3. TenantSetup!Published(m) /\ TenantSetup!HasForm(m, t)
  BY <1>1, <1>2 DEF TenantSetup!Published, TenantSetup!FormsPublished, TenantSetup!HasForm
<1>4. TenantSetup!CodesOf(mods) \subseteq TenantSetup!Seeded
  BY DEF TenantSetup!CodesOf, TenantSetup!Seeded
<1>5. PICK d : d = TenantSetup!ModuleTypes[m][t]
  OBVIOUS
<1>6. \A f \in TenantSetup!Chosen(d) : TenantSetup!Offered(d, f)
  BY <1>1, <1>4, <1>5, ChoiceGrows DEF TenantSetup!Offered
<1>7. TenantSetup!CanSave(m, t)
  BY <1>3, <1>5, <1>6 DEF TenantSetup!CanSave
<1>8. t \in TenantSetup!TypesIn(licence)
  BY <1>1, <1>2 DEF TenantSetup!TypesIn
<1> QED
  BY <1>1, <1>2, <1>7, <1>8 DEF TenantSetup!NewlySavable

LEMMA EnterableIsUsed ==
  ASSUME TenantSetup!NewlySavable = {}, NEW mods \in SUBSET licence,
         \A k \in mods : TenantSetup!Complete(k),
         IsFiniteSet(TenantSetup!TypesIn(mods))
  PROVE  TenantSetup!Enterable(mods) \subseteq used
<1>1. PICK last : last = Cardinality(TenantSetup!TypesIn(mods))
  OBVIOUS
<1>2. last \in Nat
  BY <1>1, FS_CardinalityType
<1>3. PICK fn : fn = TenantSetup!Rounds(mods)
  OBVIOUS
<1>4. \A n \in 0..last : fn[n] = IF n = 0 THEN {} ELSE TenantSetup!Entered(mods, fn[n - 1])
  BY <1>1, <1>2, <1>3, RoundsAre
<1> DEFINE Bad == {n \in 0..last : ~ (fn[n] \subseteq used)}
<1>5. Bad = {}
  <2>1. SUFFICES ASSUME Bad # {} PROVE FALSE
    OBVIOUS
  <2>2. PICK n \in Bad : \A k \in Bad : n <= k
    <3> HIDE DEF Bad
    <3>1. Bad \subseteq Nat
      BY DEF Bad
    <3> QED
      BY <2>1, <3>1, LeastExists
  <2>3. n \in 0..last /\ ~ (fn[n] \subseteq used)
    BY <2>2
  <2>4. n # 0
    BY <1>4, <2>3
  <2>5. n - 1 \in 0..last /\ ~(n <= n - 1)
    BY <1>2, <2>3, <2>4
  <2>6. fn[n - 1] \subseteq used
    BY <2>2, <2>5
  <2>7. PICK types : types = fn[n - 1]
    OBVIOUS
  <2>8. TenantSetup!Entered(mods, types) \subseteq used
    BY <2>6, <2>7, EnteredIsUsed
  <2> QED
    BY <1>4, <2>3, <2>4, <2>7, <2>8
<1>6. fn[last] \subseteq used
  BY <1>2, <1>5
<1>7. TenantSetup!Enterable(mods) = fn[last]
  BY <1>1, <1>3 DEF TenantSetup!Enterable, TenantSetup!Cardinality, Cardinality
<1> QED
  BY <1>6, <1>7

LEMMA AllIsUsed ==
  ASSUME licence \in Licences, stage \in [licence -> TenantSetup!Stages]
  PROVE  TenantSetup!EveryTypeUsable
<1>1. SUFFICES ASSUME TenantSetup!NewlySavable = {},
                      NEW m \in licence, TenantSetup!Complete(m),
                      \A k \in TenantSetup!Requires(m) : k \in licence /\ TenantSetup!Complete(k)
               PROVE  /\ TenantSetup!TypesOf(m) \subseteq used
                      /\ \A t \in DOMAIN TenantSetup!ModuleForms[m] :
                           \A child \in TenantSetup!ModuleForms[m][t].lists :
                             TenantSetup!SectionShown(m, t, child)
  BY DEF TenantSetup!EveryTypeUsable
<1>2. PICK mods : mods = {m} \union TenantSetup!Requires(m)
  OBVIOUS
<1>3. mods \in SUBSET licence /\ \A k \in mods : TenantSetup!Complete(k)
  BY <1>1, <1>2
<1>4. TenantSetup!WellEquipped(m)
  BY SetupAssumption
<1>5. /\ TenantSetup!TypesOf(m) \subseteq TenantSetup!Enterable(mods)
      /\ TenantSetup!IsFiniteSet(TenantSetup!TypesIn(mods))
      /\ \A t \in DOMAIN TenantSetup!ModuleForms[m] :
           \A child \in TenantSetup!ModuleForms[m][t].lists :
             \E k \in mods : TenantSetup!Lists(m, t, k, child)
  BY <1>2, <1>4 DEF TenantSetup!WellEquipped
<1>6. IsFiniteSet(TenantSetup!TypesIn(mods))
  BY <1>5 DEF TenantSetup!IsFiniteSet, IsFiniteSet
<1>7. TenantSetup!TypesOf(m) \subseteq used
  BY <1>1, <1>3, <1>5, <1>6, EnterableIsUsed
<1>8. \A k \in mods : TenantSetup!Published(k)
  BY <1>3 DEF TenantSetup!Complete, TenantSetup!Published
<1>9. \A t \in DOMAIN TenantSetup!ModuleForms[m] :
        \A child \in TenantSetup!ModuleForms[m][t].lists : TenantSetup!SectionShown(m, t, child)
  BY <1>3, <1>5, <1>8 DEF TenantSetup!SectionShown
<1> QED
  BY <1>7, <1>9

SetupInv == part = "setup" => TenantSetup!TypeOK

LEMMA SetupKept == ASSUME TenantSetup!TypeOK, TenantSetup!Next PROVE TenantSetup!TypeOK'
<1>1. /\ licence \in Licences /\ stage \in [licence -> TenantSetup!Stages]
      /\ used \subseteq TenantSetup!TypesIn(licence)
  BY DEF TenantSetup!TypeOK
<1>2. /\ licence' = licence /\ stage' \in [licence -> TenantSetup!Stages]
      /\ \/ used' = used
         \/ used' = used \union TenantSetup!SeedTypes
         \/ used' = used \union TenantSetup!NewlySavable
  BY <1>1 DEF TenantSetup!Next, TenantSetup!Publish, TenantSetup!PublishForms,
     TenantSetup!PublishStatuses, TenantSetup!SaveRecords, TenantSetup!Stages
<1>3. TenantSetup!SeedTypes \subseteq TenantSetup!TypesIn(licence)
  BY <1>1, SetupAssumption DEF TenantSetup!TypesIn
<1>4. TenantSetup!NewlySavable \subseteq TenantSetup!TypesIn(licence)
  BY DEF TenantSetup!NewlySavable
<1>5. used' \subseteq TenantSetup!TypesIn(licence)
  BY <1>1, <1>2, <1>3, <1>4
<1> QED
  BY <1>1, <1>2, <1>5 DEF TenantSetup!TypeOK, TenantSetup!TypesIn

LEMMA SetupPartStep == SetupInv /\ [Next]_vars => SetupInv'
<1> SUFFICES ASSUME SetupInv, [Next]_vars, part' = "setup" PROVE TenantSetup!TypeOK'
  BY DEF SetupInv
<1>1. part = "setup" /\ (TenantSetup!Next \/ UNCHANGED setupVars)
  BY DEF Next, OthersIdle, Idle, vars, RegistryStep, TenancyStep, SyncStep, BundleStep,
     SetupStep, GraphStep, RulesStep, MigrationStep
<1>2. TenantSetup!TypeOK
  BY <1>1 DEF SetupInv
<1>3. CASE UNCHANGED setupVars
  BY <1>2, <1>3 DEF setupVars, TenantSetup!TypeOK, TenantSetup!TypesIn
<1> QED
  BY <1>1, <1>2, <1>3, SetupKept

(* Publish, PublishForms, Seed and the saves of users, for every set of    *)
(* the modules, in any order and interrupted anywhere: what a module       *)
(* declares can be used once it and what it requires are complete.         *)
THEOREM TypesUsable == Spec => []EveryTypeUsable
<1>1. Init => SetupInv
  BY DEF Init, SetupInv, TenantSetup!Init, TenantSetup!TypeOK, TenantSetup!Stages
<1>2. SetupInv => EveryTypeUsable
  BY AllIsUsed DEF SetupInv, EveryTypeUsable, TenantSetup!TypeOK
<1> QED
  BY <1>1, <1>2, SetupPartStep, PTL DEF Spec

-----------------------------------------------------------------------------
(* Status graphs.                                                          *)

States(g) == Len(g.specs.order)
Edges(g) == Len(g.edges)
Size(g) == 1 + States(g) + Edges(g)
Place(g, name) == 1 + CHOOSE i \in 1..States(g) : g.specs.order[i] = name

(* The row of item i of a graph, when the items before it have rows at.    *)
RowOf(g, i, at) ==
  IF i = 1 THEN [kind |-> "type"]
  ELSE IF i <= 1 + States(g)
  THEN [kind |-> "status", type |-> at[1], name |-> g.specs.order[i - 1]]
  ELSE LET edge == g.edges[i - 1 - States(g)]
       IN  [kind |-> "edge", type |-> at[1],
            from |-> at[Place(g, edge[1])], to |-> at[Place(g, edge[2])]]

(* The rows there are, for the first n items, one each.                    *)
Laid(g, n, at, stored, done) ==
  /\ n \in 0..Size(g) /\ at \in [1..n -> done]
  /\ \A i, j \in 1..n : at[i] = at[j] => i = j
  /\ \A r \in done : \E i \in 1..n : at[i] = r
  /\ \A i \in 1..n : stored[at[i]] = RowOf(g, i, at)
  /\ done \subseteq 1..Len(stored) /\ \E S : stored \in Seq(S)

(* A seeder that is at an item knows the rows of those before it.          *)
Seeding(g, n, at, stored, done, x) ==
  /\ x = [pc |-> x.pc, item |-> x.item, row |-> x.row, type |-> x.type, ids |-> x.ids]
  /\ x.pc \in {"idle", "look", "commit", "done"}
  /\ x.pc = "idle" => x = StatusGraphs!Idle
  /\ x.pc = "done" => n = Size(g)
  /\ x.pc \in {"look", "commit"} =>
       /\ x.item \in 1..Size(g) /\ x.item <= n + 1
       /\ x.item > 1 => x.type = at[1]
       /\ \A j \in 1..States(g) : 1 + j < x.item =>
            g.specs.order[j] \in DOMAIN x.ids /\ x.ids[g.specs.order[j]] = at[1 + j]
  /\ x.pc = "commit" =>
       /\ x.item = n + 1 /\ x.row \in (1..Len(stored)) \ done
       /\ stored[x.row] = RowOf(g, x.item, at)

Resting(x) == x.pc \in {"idle", "done"}
GraphTypes ==
  /\ code \in DOMAIN StatusGraphs!AllGraphs
  /\ seeder = [s \in GraphSeeders |-> seeder[s]]
  /\ \A s, q \in GraphSeeders : s = q \/ Resting(seeder[s]) \/ Resting(seeder[q])
  /\ document = [d \in Documents |-> document[d]]
  /\ \A d \in Documents :
       document[d] = 0 \/ (document[d] \in committed /\ rows[document[d]].kind = "status")
  /\ crashes \in 0..MaxCrashes
GraphInv ==
  /\ GraphTypes
  /\ \E n \in Nat : \E at :
       /\ Laid(StatusGraphs!AllGraphs[code], n, at, rows, committed)
       /\ \A s \in GraphSeeders :
            Seeding(StatusGraphs!AllGraphs[code], n, at, rows, committed, seeder[s])

(* Graphs that are declared well.                                          *)
Graph(g) == StatusGraphs!WellDeclared(g)

LEMMA GraphIs ==
  ASSUME NEW g, Graph(g)
  PROVE  /\ States(g) \in Nat /\ Edges(g) \in Nat /\ Size(g) \in Nat \ {0}
         /\ DOMAIN g.specs.order = 1..States(g) /\ DOMAIN g.edges = 1..Edges(g)
         /\ \A i, j \in 1..States(g) : g.specs.order[i] = g.specs.order[j] => i = j
         /\ \A k \in 1..Edges(g) :
              /\ \E i, j \in 1..States(g) : g.edges[k] = <<g.specs.order[i], g.specs.order[j]>>
              /\ \A m \in 1..Edges(g) : g.edges[k] = g.edges[m] => k = m
<1>1. PICK names : names = {g.specs.order[i] : i \in DOMAIN g.specs.order}
  OBVIOUS
<1>2. /\ g.specs.order \in Seq(STRING) /\ g.edges \in Seq(names \X names)
      /\ \A a, b \in DOMAIN g.specs.order : g.specs.order[a] = g.specs.order[b] => a = b
      /\ \A a, b \in DOMAIN g.edges : g.edges[a] = g.edges[b] => a = b
  BY <1>1 DEF Graph, StatusGraphs!WellDeclared, StatusGraphs!Range, StatusGraphs!IsInjective
<1>3. /\ States(g) \in Nat /\ Edges(g) \in Nat
      /\ DOMAIN g.specs.order = 1..States(g) /\ DOMAIN g.edges = 1..Edges(g)
  BY <1>2 DEF States, Edges
<1>4. ASSUME NEW k \in 1..Edges(g)
      PROVE  \E i, j \in 1..States(g) : g.edges[k] = <<g.specs.order[i], g.specs.order[j]>>
  <2>1. g.edges[k] \in names \X names
    BY <1>2, <1>3
  <2>2. PICK a \in names, b \in names : g.edges[k] = <<a, b>>
    BY <2>1
  <2>3. PICK i \in 1..States(g) : a = g.specs.order[i]
    BY <1>1, <1>3
  <2>4. PICK j \in 1..States(g) : b = g.specs.order[j]
    BY <1>1, <1>3
  <2> QED
    BY <2>2, <2>3, <2>4
<1>5. Size(g) \in Nat \ {0}
  BY <1>3 DEF Size
<1>6. \A i, j \in 1..States(g) : g.specs.order[i] = g.specs.order[j] => i = j
  BY <1>2, <1>3
<1>7. \A k, m \in 1..Edges(g) : g.edges[k] = g.edges[m] => k = m
  BY <1>2, <1>3
<1> QED
  BY <1>3, <1>4, <1>5, <1>6, <1>7

LEMMA PlaceIs ==
  ASSUME NEW g, Graph(g), NEW i \in 1..States(g)
  PROVE  Place(g, g.specs.order[i]) = 1 + i
<1>1. \A k \in 1..States(g) : g.specs.order[k] = g.specs.order[i] => k = i
  BY GraphIs
<1>2. (CHOOSE k \in 1..States(g) : g.specs.order[k] = g.specs.order[i]) = i
  BY <1>1
<1> QED
  BY <1>2 DEF Place

(* Seed goes through the declared type, statuses and transitions.          *)
LEMMA ItemsAre ==
  ASSUME code \in DOMAIN StatusGraphs!AllGraphs, NEW g, g = StatusGraphs!AllGraphs[code], Graph(g)
  PROVE  /\ Len(StatusGraphs!SeedItems) = Size(g)
         /\ \A i \in 1..Size(g) : StatusGraphs!SeedItems[i] =
              IF i = 1 THEN [kind |-> "type"]
              ELSE IF i <= 1 + States(g) THEN [kind |-> "status", name |-> g.specs.order[i - 1]]
              ELSE [kind |-> "edge", edge |-> g.edges[i - 1 - States(g)]]
<1>1. StatusGraphs!SeedItems =
        [i \in 1..Size(g) |->
           IF i = 1 THEN [kind |-> "type"]
           ELSE IF i <= 1 + States(g) THEN [kind |-> "status", name |-> g.specs.order[i - 1]]
           ELSE [kind |-> "edge", edge |-> g.edges[i - 1 - States(g)]]]
  BY DEF StatusGraphs!SeedItems, StatusGraphs!AllItems, Size, States, Edges
<1>2. Size(g) \in Nat
  BY GraphIs
<1>3. Len(StatusGraphs!SeedItems) = Size(g)
  BY <1>1, <1>2
<1> QED
  BY <1>1, <1>3

(* An edge has the rows of its states.                                     *)
Joins(g, k, a, b) == g.edges[k] = <<g.specs.order[a], g.specs.order[b]>>
EdgeOf(at, a, b) == [kind |-> "edge", type |-> at[1], from |-> at[1 + a], to |-> at[1 + b]]
LEMMA EdgeRow ==
  ASSUME NEW g, Graph(g), NEW at, NEW k \in 1..Edges(g), NEW m, m = 1 + States(g) + k
  PROVE  \E a, b \in 1..States(g) : Joins(g, k, a, b) /\ RowOf(g, m, at) = EdgeOf(at, a, b)
<1>1. PICK i, j \in 1..States(g) : g.edges[k] = <<g.specs.order[i], g.specs.order[j]>>
  BY GraphIs
<1>2. g.edges[k][1] = g.specs.order[i] /\ g.edges[k][2] = g.specs.order[j]
  BY <1>1
<1>3. Place(g, g.edges[k][1]) = 1 + i /\ Place(g, g.edges[k][2]) = 1 + j
  BY <1>2, PlaceIs
<1>5. m # 1 /\ ~(m <= 1 + States(g)) /\ m - 1 - States(g) = k
  BY GraphIs
<1>6. RowOf(g, m, at) =
        [kind |-> "edge", type |-> at[1],
         from |-> at[Place(g, g.edges[k][1])], to |-> at[Place(g, g.edges[k][2])]]
  BY <1>5 DEF RowOf
<1> QED
  BY <1>1, <1>3, <1>6 DEF Joins, EdgeOf

(* Rows of different items differ.                                         *)
LEMMA RowsDiffer ==
  ASSUME NEW g, Graph(g), NEW n \in 0..Size(g), NEW at,
         \A i, j \in 1..n : at[i] = at[j] => i = j,
         NEW i \in 1..Size(g), NEW j \in 1..Size(g), i <= n + 1, j <= n + 1,
         RowOf(g, i, at) = RowOf(g, j, at)
  PROVE  i = j
<1>1. States(g) \in Nat /\ Edges(g) \in Nat /\ Size(g) = 1 + States(g) + Edges(g)
  BY GraphIs DEF Size
<1>2. \A k \in 1..Size(g) :
        /\ k = 1 => RowOf(g, k, at).kind = "type"
        /\ k # 1 /\ k <= 1 + States(g) =>
             /\ RowOf(g, k, at).kind = "status" /\ RowOf(g, k, at).name = g.specs.order[k - 1]
        /\ ~(k <= 1 + States(g)) => RowOf(g, k, at).kind = "edge"
  BY <1>1 DEF RowOf
<1>3. CASE i = 1 \/ j = 1
  BY <1>1, <1>2, <1>3
<1>4. CASE i # 1 /\ i <= 1 + States(g)
  <2>1. j # 1 /\ j <= 1 + States(g) /\ g.specs.order[i - 1] = g.specs.order[j - 1]
    BY <1>1, <1>2, <1>4
  <2>2. i - 1 \in 1..States(g) /\ j - 1 \in 1..States(g)
    BY <1>1, <1>4, <2>1
  <2>3. i - 1 = j - 1
    BY <2>1, <2>2, GraphIs
  <2> QED
    BY <2>3
<1>5. CASE ~(i <= 1 + States(g))
  <2>1. j # 1 /\ ~(j <= 1 + States(g))
    BY <1>1, <1>2, <1>5
  <2>2. PICK k \in 1..Edges(g) : i = 1 + States(g) + k
    <3>1. i - 1 - States(g) \in 1..Edges(g)
      BY <1>1, <1>5
    <3> QED
      BY <1>1, <3>1
  <2>3. PICK m \in 1..Edges(g) : j = 1 + States(g) + m
    <3>1. j - 1 - States(g) \in 1..Edges(g)
      BY <1>1, <2>1
    <3> QED
      BY <1>1, <3>1
  <2>4. PICK a, b \in 1..States(g) : Joins(g, k, a, b) /\ RowOf(g, i, at) = EdgeOf(at, a, b)
    BY <2>2, EdgeRow
  <2>5. PICK c, d \in 1..States(g) : Joins(g, m, c, d) /\ RowOf(g, j, at) = EdgeOf(at, c, d)
    BY <2>3, EdgeRow
  <2>6. at[1 + a] = at[1 + c] /\ at[1 + b] = at[1 + d]
    <3>1. RowOf(g, i, at).from = at[1 + a] /\ RowOf(g, i, at).to = at[1 + b]
      BY <2>4 DEF EdgeOf
    <3>2. RowOf(g, j, at).from = at[1 + c] /\ RowOf(g, j, at).to = at[1 + d]
      BY <2>5 DEF EdgeOf
    <3> QED
      BY <3>1, <3>2
  <2>7. {1 + a, 1 + b, 1 + c, 1 + d} \subseteq 1..n
    BY <1>1, <1>5, <2>2
  <2>8. 1 + a = 1 + c /\ 1 + b = 1 + d
    BY <2>6, <2>7
  <2>9. a = c /\ b = d
    BY <1>1, <2>8
  <2>10. k = m
    <3>1. g.edges[k] = g.edges[m]
      BY <2>4, <2>5, <2>9 DEF Joins
    <3> QED
      BY <3>1, GraphIs
  <2> QED
    BY <2>2, <2>3, <2>10
<1> QED
  BY <1>3, <1>4, <1>5

(* A row is the fields of its kind.                                        *)
KindOf(x, type) ==
  \/ x = [kind |-> "type"]
  \/ x = [kind |-> "status", type |-> type, name |-> x.name]
  \/ x = [kind |-> "edge", type |-> type, from |-> x.from, to |-> x.to]
LEMMA RowKinds ==
  ASSUME NEW x, NEW type,
         KindOf(x, type)
  PROVE  /\ x.kind = "type" <=> x = [kind |-> "type"]
         /\ \A name : x.kind = "status" /\ x.type = type /\ x.name = name
                      <=> x = [kind |-> "status", type |-> type, name |-> name]
         /\ \A from, to : x.kind = "edge" /\ x.from = from /\ x.to = to
                      <=> x = [kind |-> "edge", type |-> type, from |-> from, to |-> to]
<1>1. CASE x = [kind |-> "type"]
  BY <1>1
<1>2. CASE x = [kind |-> "status", type |-> type, name |-> x.name]
  BY <1>2
<1>3. CASE x = [kind |-> "edge", type |-> type, from |-> x.from, to |-> x.to]
  BY <1>3
<1> QED
  BY <1>1, <1>2, <1>3 DEF KindOf

(* What a seeder finds and what it makes for the item it is at.            *)
Ready(g, n, at, s, x) ==
  /\ GraphTypes /\ g = StatusGraphs!AllGraphs[code] /\ Graph(g)
  /\ Laid(g, n, at, rows, committed)
  /\ s \in GraphSeeders /\ x = seeder[s]
  /\ Seeding(g, n, at, rows, committed, x) /\ x.pc \in {"look", "commit"}
Finds(s, n, at, i) ==
  /\ i <= n => StatusGraphs!Found(s) = {at[i]}
  /\ ~(i <= n) => StatusGraphs!Found(s) = {}
LEMMA FoundIs ==
  ASSUME NEW g, NEW n, NEW at, NEW s, NEW x, Ready(g, n, at, s, x)
  PROVE  Finds(s, n, at, x.item) /\ StatusGraphs!NewRow(s) = RowOf(g, x.item, at)
<1>0. PICK i : i = x.item
  OBVIOUS
<1>1. /\ Graph(g) /\ g = StatusGraphs!AllGraphs[code]
      /\ States(g) \in Nat /\ Edges(g) \in Nat /\ Size(g) = 1 + States(g) + Edges(g)
      /\ Size(g) \in Nat
  BY GraphIs DEF Size, Ready
<1>2. x = seeder[s]
  BY DEF Ready
<1>3. /\ i \in 1..Size(g) /\ n \in 0..Size(g) /\ i <= n + 1 /\ i = x.item
      /\ i > 1 => x.type = at[1]
      /\ \A j \in 1..States(g) : 1 + j < i => x.ids[g.specs.order[j]] = at[1 + j]
  BY <1>0 DEF Ready, Seeding, Laid
<1>4. /\ \A r \in committed : \E j \in 1..n : at[j] = r /\ rows[r] = RowOf(g, j, at)
      /\ \A j \in 1..n : at[j] \in committed /\ rows[at[j]] = RowOf(g, j, at)
      /\ \A a, b \in 1..n : at[a] = at[b] => a = b
  <2>1. /\ at \in [1..n -> committed] /\ \A r \in committed : \E j \in 1..n : at[j] = r
        /\ \A j \in 1..n : rows[at[j]] = RowOf(g, j, at)
        /\ \A a, b \in 1..n : at[a] = at[b] => a = b
    BY DEF Ready, Laid
  <2>2. \A r \in committed : \E j \in 1..n : at[j] = r /\ rows[r] = RowOf(g, j, at)
    BY <2>1
  <2> QED
    BY <2>1, <2>2
<1>5. PICK item : item = StatusGraphs!At(s)
  OBVIOUS
<1>6. item = IF i = 1 THEN [kind |-> "type"]
             ELSE IF i <= 1 + States(g) THEN [kind |-> "status", name |-> g.specs.order[i - 1]]
             ELSE [kind |-> "edge", edge |-> g.edges[i - 1 - States(g)]]
  BY <1>1, <1>2, <1>3, <1>5, ItemsAre DEF StatusGraphs!At, GraphTypes, Ready
<1>7. ASSUME NEW Same, Same = {r \in committed : rows[r] = RowOf(g, i, at)}
      PROVE  Same = IF i <= n THEN {at[i]} ELSE {}
  <2>1. \A r \in Same : i <= n /\ r = at[i]
    <3>1. SUFFICES ASSUME NEW r \in Same PROVE i <= n /\ r = at[i]
      OBVIOUS
    <3>2. PICK j \in 1..n : at[j] = r /\ RowOf(g, j, at) = RowOf(g, i, at)
      BY <1>4, <1>7, <3>1
    <3>3. j \in 1..Size(g) /\ j <= n + 1
      BY <1>1, <1>3
    <3>4. i = j
      BY <1>1, <1>3, <1>4, <3>2, <3>3, RowsDiffer
    <3> QED
      BY <1>3, <3>2, <3>4
  <2>2. i <= n => at[i] \in Same
    BY <1>1, <1>3, <1>4, <1>7
  <2> QED
    BY <2>1, <2>2
<1>8. StatusGraphs!Found(s) = {r \in committed : rows[r] = RowOf(g, i, at)}
      /\ StatusGraphs!NewRow(s) = RowOf(g, i, at)
  <2>1. ASSUME NEW r \in committed PROVE KindOf(rows[r], at[1])
    <3>2. PICK j \in 1..n : rows[r] = RowOf(g, j, at)
      BY <1>4
    <3>3. PICK name, from, to : RowOf(g, j, at) \in
            {[kind |-> "type"], [kind |-> "status", type |-> at[1], name |-> name],
             [kind |-> "edge", type |-> at[1], from |-> from, to |-> to]}
      BY DEF RowOf
    <3> QED
      BY <3>2, <3>3 DEF KindOf
  <2>2. CASE i = 1
    <3>1. item.kind = "type" /\ RowOf(g, i, at) = [kind |-> "type"]
      BY <1>6, <2>2 DEF RowOf
    <3>2. ASSUME NEW r \in committed
          PROVE  rows[r].kind = "type" <=> rows[r] = [kind |-> "type"]
      BY <2>1, RowKinds
    <3>3. StatusGraphs!Found(s) = {r \in committed : rows[r].kind = "type"}
          /\ StatusGraphs!NewRow(s) = [kind |-> "type"]
      BY <1>5, <3>1 DEF StatusGraphs!Found, StatusGraphs!NewRow, StatusGraphs!Types
    <3> QED
      BY <3>1, <3>2, <3>3
  <2>3. CASE i # 1 /\ i <= 1 + States(g)
    <3>1. PICK name : name = g.specs.order[i - 1]
      OBVIOUS
    <3>2. item = [kind |-> "status", name |-> name]
          /\ RowOf(g, i, at) = [kind |-> "status", type |-> at[1], name |-> name]
      BY <1>6, <2>3, <3>1 DEF RowOf
    <3>3. x.type = at[1]
      BY <1>3, <2>3
    <3>4. StatusGraphs!Found(s) =
            {r \in {q \in committed : rows[q].kind = "status" /\ rows[q].type = at[1]} :
               rows[r].name = name}
          /\ StatusGraphs!NewRow(s) = [kind |-> "status", type |-> at[1], name |-> name]
      BY <1>2, <1>5, <3>2, <3>3
         DEF StatusGraphs!Found, StatusGraphs!NewRow, StatusGraphs!StatusesOf
    <3>5. ASSUME NEW r \in committed
          PROVE  rows[r].kind = "status" /\ rows[r].type = at[1] /\ rows[r].name = name
                   <=> rows[r] = [kind |-> "status", type |-> at[1], name |-> name]
      BY <2>1, RowKinds
    <3> QED
      BY <3>2, <3>4, <3>5
  <2>4. CASE ~(i <= 1 + States(g))
    <3>1. PICK k \in 1..Edges(g) : i = 1 + States(g) + k
      <4>1. i - 1 - States(g) \in 1..Edges(g)
        BY <1>1, <1>3, <2>4
      <4> QED
        BY <1>1, <1>3, <4>1
    <3>2. i - 1 - States(g) = k /\ i # 1
      BY <1>1, <3>1
    <3>3. PICK a, b \in 1..States(g) : Joins(g, k, a, b) /\ RowOf(g, i, at) = EdgeOf(at, a, b)
      BY <1>1, <3>1, EdgeRow
    <3>4. item = [kind |-> "edge", edge |-> g.edges[k]]
      BY <1>6, <2>4, <3>2
    <3>5. item.kind = "edge" /\ item.edge[1] = g.specs.order[a] /\ item.edge[2] = g.specs.order[b]
      BY <3>3, <3>4 DEF Joins
    <3>6. x.ids[item.edge[1]] = at[1 + a] /\ x.ids[item.edge[2]] = at[1 + b]
      BY <1>1, <1>3, <3>1, <3>5
    <3>7. x.type = at[1]
      BY <1>1, <1>3, <3>1
    <3>8. StatusGraphs!Found(s) =
            {r \in {q \in committed : rows[q].kind = "edge" /\ rows[q].from = at[1 + a]} :
               rows[r].to = at[1 + b]}
          /\ StatusGraphs!NewRow(s) =
               [kind |-> "edge", type |-> at[1], from |-> at[1 + a], to |-> at[1 + b]]
      BY <1>2, <1>5, <3>5, <3>6, <3>7
         DEF StatusGraphs!Found, StatusGraphs!NewRow, StatusGraphs!EdgesFrom
    <3>9. ASSUME NEW r \in committed
          PROVE  rows[r].kind = "edge" /\ rows[r].from = at[1 + a] /\ rows[r].to = at[1 + b]
                   <=> rows[r] =
                         [kind |-> "edge", type |-> at[1], from |-> at[1 + a], to |-> at[1 + b]]
      BY <2>1, RowKinds
    <3> QED
      BY <3>3, <3>8, <3>9 DEF EdgeOf
  <2> QED
    BY <2>2, <2>3, <2>4
<1>9. Finds(s, n, at, i)
  BY <1>7, <1>8 DEF Finds
<1> QED
  BY <1>0, <1>8, <1>9

(* A seeder that has gone on knows one row more.                           *)
Onward(g, x, r, name) ==
  [pc |-> IF x.item = Size(g) THEN "done" ELSE "look", item |-> x.item + 1, row |-> 0,
   type |-> IF x.item = 1 THEN r ELSE x.type,
   ids |-> IF x.item # 1 /\ x.item <= 1 + States(g)
             THEN [k \in DOMAIN x.ids \union {name} |-> IF k = name THEN r ELSE x.ids[k]]
             ELSE x.ids]

Moves(s, y) == seeder' = [seeder EXCEPT ![s] = y]
LEMMA AdvanceIs ==
  ASSUME NEW g, NEW n, NEW at, NEW s, NEW x, Ready(g, n, at, s, x),
         NEW r, StatusGraphs!Advance(s, r)
  PROVE  Moves(s, Onward(g, x, r, g.specs.order[x.item - 1]))
<1>0. /\ Graph(g) /\ g = StatusGraphs!AllGraphs[code] /\ code \in DOMAIN StatusGraphs!AllGraphs
      /\ x = seeder[s] /\ Seeding(g, n, at, rows, committed, x) /\ x.pc \in {"look", "commit"}
  BY DEF Ready, GraphTypes
<1>1. PICK name : name = g.specs.order[x.item - 1]
  OBVIOUS
<1>2. PICK item : item = StatusGraphs!At(s)
  OBVIOUS
<1>3. x.item \in 1..Size(g) /\ Size(g) \in Nat /\ States(g) \in Nat
  BY <1>0, GraphIs DEF Seeding
<1>4. item = IF x.item = 1 THEN [kind |-> "type"]
             ELSE IF x.item <= 1 + States(g) THEN [kind |-> "status", name |-> name]
             ELSE [kind |-> "edge", edge |-> g.edges[x.item - 1 - States(g)]]
  BY <1>0, <1>1, <1>2, <1>3, ItemsAre DEF StatusGraphs!At
<1>5. /\ item.kind = "type" <=> x.item = 1
      /\ item.kind = "status" <=> x.item # 1 /\ x.item <= 1 + States(g)
      /\ x.item # 1 /\ x.item <= 1 + States(g) => item.name = name
  BY <1>3, <1>4
<1>6. Len(StatusGraphs!SeedItems) = Size(g)
  BY <1>0, ItemsAre
<1>7. x = [pc |-> x.pc, item |-> x.item, row |-> x.row, type |-> x.type, ids |-> x.ids]
  BY <1>0 DEF Seeding
<1>8. PICK ids : ids = IF item.kind = "status"
                         THEN [k \in DOMAIN x.ids \union {item.name} |->
                                 IF k = item.name THEN r ELSE x.ids[k]]
                         ELSE x.ids
  OBVIOUS
<1>9. PICK type : type = IF item.kind = "type" THEN r ELSE x.type
  OBVIOUS
<1>10. PICK at2 : at2 = IF x.item = Size(g) THEN "done" ELSE "look"
  OBVIOUS
<1>11. PICK y : y = [x EXCEPT !.pc = at2, !.item = x.item + 1, !.row = 0, !.type = type, !.ids = ids]
  OBVIOUS
<1>12. y = [pc |-> at2, item |-> x.item + 1, row |-> 0, type |-> type, ids |-> ids]
  <2>1. PICK p, q, u, v, w : x = [pc |-> p, item |-> q, row |-> u, type |-> v, ids |-> w]
    BY <1>7
  <2>2. PICK i : i = x.item + 1
    OBVIOUS
  <2>3. y = [x EXCEPT !.pc = at2, !.item = i, !.row = 0, !.type = type, !.ids = ids]
    BY <1>11, <2>2
  <2>4. y = [pc |-> at2, item |-> i, row |-> 0, type |-> type, ids |-> ids]
    BY ONLY <2>1, <2>3
  <2> QED
    BY <2>2, <2>4
<1>13. ids = IF x.item # 1 /\ x.item <= 1 + States(g)
               THEN [k \in DOMAIN x.ids \union {name} |-> IF k = name THEN r ELSE x.ids[k]]
               ELSE x.ids
  BY <1>5, <1>8
<1>14. type = IF x.item = 1 THEN r ELSE x.type
  BY <1>5, <1>9
<1>15. seeder' = [seeder EXCEPT ![s] = y]
  BY <1>0, <1>2, <1>6, <1>8, <1>9, <1>10, <1>11 DEF StatusGraphs!Advance
<1>16. Onward(g, x, r, name) = [pc |-> at2, item |-> x.item + 1, row |-> 0, type |-> type, ids |-> ids]
  BY <1>10, <1>13, <1>14 DEF Onward
<1> QED
  BY <1>1, <1>12, <1>15, <1>16 DEF Moves

LEMMA SeedingGoesOn ==
  ASSUME NEW g, Graph(g), NEW n \in 0..Size(g), NEW at, NEW stored, NEW done, NEW x,
         Seeding(g, n, at, stored, done, x), x.pc \in {"look", "commit"},
         NEW m \in 0..Size(g), NEW bt, x.item <= m, \A j \in 1..n : bt[j] = at[j],
         NEW stored2, NEW done2
  PROVE  Seeding(g, m, bt, stored2, done2, Onward(g, x, bt[x.item], g.specs.order[x.item - 1]))
<1>1. PICK name : name = g.specs.order[x.item - 1]
  OBVIOUS
<1>2. PICK r : r = bt[x.item]
  OBVIOUS
<1>3. PICK ids : ids = IF x.item # 1 /\ x.item <= 1 + States(g)
                         THEN [k \in DOMAIN x.ids \union {name} |-> IF k = name THEN r ELSE x.ids[k]]
                         ELSE x.ids
  OBVIOUS
<1>4. PICK y : y = Onward(g, x, r, name)
  OBVIOUS
<1>5. y = [pc |-> IF x.item = Size(g) THEN "done" ELSE "look", item |-> x.item + 1, row |-> 0,
           type |-> IF x.item = 1 THEN r ELSE x.type, ids |-> ids]
  BY <1>3, <1>4 DEF Onward
<1>6. /\ y.pc = IF x.item = Size(g) THEN "done" ELSE "look"
      /\ y.item = x.item + 1 /\ y.ids = ids /\ y.type = IF x.item = 1 THEN r ELSE x.type
      /\ y = [pc |-> y.pc, item |-> y.item, row |-> y.row, type |-> y.type, ids |-> y.ids]
  BY <1>5
<1>7. /\ x.item \in 1..Size(g) /\ x.item <= n + 1
      /\ x.item > 1 => x.type = at[1]
      /\ \A j \in 1..States(g) : 1 + j < x.item =>
           g.specs.order[j] \in DOMAIN x.ids /\ x.ids[g.specs.order[j]] = at[1 + j]
  BY DEF Seeding
<1>8. Size(g) \in Nat /\ States(g) \in Nat
  BY GraphIs
<1>9. ASSUME NEW j \in 1..States(g), 1 + j < y.item
      PROVE  g.specs.order[j] \in DOMAIN ids /\ ids[g.specs.order[j]] = bt[1 + j]
  <2>1. 1 + j <= x.item /\ x.item # 1
    BY <1>6, <1>7, <1>8, <1>9
  <2>2. CASE 1 + j = x.item
    <3>1. x.item - 1 = j /\ x.item <= 1 + States(g)
      BY <1>8, <2>2
    <3>2. name = g.specs.order[j] /\ r = bt[1 + j]
      BY <1>1, <1>2, <2>2, <3>1
    <3>3. ids = [k \in DOMAIN x.ids \union {name} |-> IF k = name THEN r ELSE x.ids[k]]
      BY <1>3, <2>1, <3>1
    <3> QED
      BY <3>2, <3>3
  <2>3. CASE 1 + j # x.item
    <3>1. 1 + j < x.item /\ 1 + j \in 1..n
      BY <1>7, <1>8, <2>1, <2>3
    <3>2. g.specs.order[j] \in DOMAIN x.ids /\ x.ids[g.specs.order[j]] = bt[1 + j]
      BY <1>7, <3>1
    <3>3. CASE x.item <= 1 + States(g)
      <4>1. x.item - 1 \in 1..States(g) /\ x.item - 1 # j
        BY <1>7, <1>8, <2>1, <2>3, <3>3
      <4>2. name # g.specs.order[j]
        BY <1>1, <4>1, GraphIs
      <4> QED
        BY <1>3, <2>1, <3>2, <3>3, <4>2
    <3>4. CASE ~(x.item <= 1 + States(g))
      BY <1>3, <3>2, <3>4
    <3> QED
      BY <3>3, <3>4
  <2> QED
    BY <2>2, <2>3
<1>10. y.item > 1 => y.type = bt[1]
  BY <1>2, <1>6, <1>7, <1>8
<1>11. y.pc = "done" => m = Size(g)
  BY <1>6, <1>7, <1>8
<1>12. y.pc = "look" => y.item \in 1..Size(g) /\ y.item <= m + 1
  BY <1>6, <1>7, <1>8
<1>13. y.pc \in {"look", "done"}
  BY <1>6
<1>14. Seeding(g, m, bt, stored2, done2, y)
  BY <1>6, <1>9, <1>10, <1>11, <1>12, <1>13 DEF Seeding
<1> QED
  BY <1>1, <1>2, <1>4, <1>14

LEMMA GraphDeclared ==
  ASSUME GraphTypes
  PROVE  Graph(StatusGraphs!AllGraphs[code]) /\ MaxCrashes \in Nat
BY GraphsAssumption DEF GraphTypes, Graph

(* One seeder moves, and the others are at rest.                           *)
LEMMA SeederMoves ==
  ASSUME GraphTypes, NEW s \in GraphSeeders, NEW y,
         ~Resting(seeder[s]) \/ Resting(y) \/ (\A q \in GraphSeeders : Resting(seeder[q])),
         seeder' = [seeder EXCEPT ![s] = y]
  PROVE  /\ seeder' = [q \in GraphSeeders |-> seeder'[q]]
         /\ seeder'[s] = y /\ \A q \in GraphSeeders : q # s => seeder'[q] = seeder[q]
         /\ \A p, q \in GraphSeeders : p = q \/ Resting(seeder'[p]) \/ Resting(seeder'[q])
<1>1. seeder = [q \in GraphSeeders |-> seeder[q]]
  BY DEF GraphTypes
<1>2. /\ seeder' = [q \in GraphSeeders |-> seeder'[q]]
      /\ seeder'[s] = y /\ \A q \in GraphSeeders : q # s => seeder'[q] = seeder[q]
  BY <1>1
<1>3. \A p, q \in GraphSeeders : p = q \/ Resting(seeder[p]) \/ Resting(seeder[q])
  BY DEF GraphTypes
<1>4. \A p, q \in GraphSeeders : p = q \/ Resting(seeder'[p]) \/ Resting(seeder'[q])
  BY <1>2, <1>3
<1> QED
  BY <1>2, <1>4

LEMMA GraphBegins == StatusGraphs!Init => GraphInv
<1> SUFFICES ASSUME StatusGraphs!Init PROVE GraphInv
  OBVIOUS
<1>1. /\ code \in DOMAIN StatusGraphs!AllGraphs /\ rows = <<>> /\ committed = {}
      /\ seeder = [s \in GraphSeeders |-> StatusGraphs!Idle]
      /\ document = [d \in Documents |-> 0] /\ crashes = 0
  BY DEF StatusGraphs!Init
<1>2. StatusGraphs!Idle.pc = "idle"
      /\ StatusGraphs!Idle = [pc |-> StatusGraphs!Idle.pc, item |-> StatusGraphs!Idle.item,
                              row |-> StatusGraphs!Idle.row, type |-> StatusGraphs!Idle.type,
                              ids |-> StatusGraphs!Idle.ids]
  BY DEF StatusGraphs!Idle
<1>3. GraphTypes
  <2>1. \A s \in GraphSeeders : seeder[s] = StatusGraphs!Idle
    BY <1>1
  <2>2. seeder = [s \in GraphSeeders |-> seeder[s]]
    BY <1>1
  <2>3. document = [d \in Documents |-> document[d]] /\ \A d \in Documents : document[d] = 0
    BY <1>1
  <2>4. \A s \in GraphSeeders : Resting(seeder[s])
    BY <1>2, <2>1 DEF Resting
  <2>5. crashes \in 0..MaxCrashes
    BY <1>1, GraphsAssumption
  <2> QED
    BY <1>1, <2>2, <2>3, <2>4, <2>5 DEF GraphTypes
<1>4. PICK g : g = StatusGraphs!AllGraphs[code]
  OBVIOUS
<1>5. Graph(g)
  BY <1>3, <1>4, GraphDeclared
<1>6. Laid(g, 0, [i \in 1..0 |-> 0], rows, committed)
  <2>1. Size(g) \in Nat
    BY <1>5, GraphIs
  <2>2. rows \in Seq({})
    BY <1>1
  <2>3. [i \in 1..0 |-> 0] \in [1..0 -> committed]
    OBVIOUS
  <2> QED
    BY <1>1, <2>1, <2>2, <2>3 DEF Laid
<1>7. \A s \in GraphSeeders : Seeding(g, 0, [i \in 1..0 |-> 0], rows, committed, seeder[s])
  <2>1. Seeding(g, 0, [i \in 1..0 |-> 0], rows, committed, StatusGraphs!Idle)
    BY <1>2 DEF Seeding
  <2> QED
    BY <1>1, <2>1
<1> QED
  BY <1>3, <1>4, <1>6, <1>7 DEF GraphInv

(* What a step of a seeder that commits nothing leaves.                    *)
LEMMA SeederKeeps ==
  ASSUME GraphTypes, NEW g, g = StatusGraphs!AllGraphs[code],
         NEW n \in Nat, NEW at, Laid(g, n, at, rows, committed),
         \A q \in GraphSeeders : Seeding(g, n, at, rows, committed, seeder[q]),
         NEW s \in GraphSeeders, NEW y, seeder' = [seeder EXCEPT ![s] = y],
         ~Resting(seeder[s]) \/ (\A q \in GraphSeeders : Resting(seeder[q])),
         UNCHANGED <<code, committed, document>>, crashes' \in 0..MaxCrashes,
         rows' = rows \/ \E x : rows' = Append(rows, x),
         Seeding(g, n, at, rows', committed, y)
  PROVE  GraphInv'
<1>1. /\ seeder' = [q \in GraphSeeders |-> seeder'[q]]
      /\ seeder'[s] = y /\ \A q \in GraphSeeders : q # s => seeder'[q] = seeder[q]
      /\ \A p, q \in GraphSeeders : p = q \/ Resting(seeder'[p]) \/ Resting(seeder'[q])
  BY SeederMoves
<1>2. /\ committed \subseteq 1..Len(rows) /\ \E S : rows' \in Seq(S)
      /\ committed \subseteq 1..Len(rows') /\ \A r \in 1..Len(rows) : rows'[r] = rows[r]
      /\ 1..Len(rows) \subseteq 1..Len(rows')
  <2>1. PICK S : rows \in Seq(S)
    BY DEF Laid
  <2>2. committed \subseteq 1..Len(rows)
    BY DEF Laid
  <2>3. CASE rows' = rows
    BY <2>1, <2>2, <2>3
  <2>4. CASE \E x : rows' = Append(rows, x)
    <3>1. PICK x : rows' = Append(rows, x)
      BY <2>4
    <3>2. PICK T : T = S \union {x}
      OBVIOUS
    <3>3. rows \in Seq(T) /\ x \in T
      BY <2>1, <3>2
    <3>4. rows' \in Seq(T) /\ Len(rows') = Len(rows) + 1 /\ Len(rows) \in Nat
          /\ \A r \in 1..Len(rows) : rows'[r] = rows[r]
      BY <3>1, <3>3, AppendProperties
    <3> QED
      BY <2>2, <3>4
  <2> QED
    BY <2>3, <2>4
<1>3. Laid(g, n, at, rows', committed)
  <2>1. \A i \in 1..n : rows'[at[i]] = rows[at[i]]
    BY <1>2 DEF Laid
  <2> QED
    BY <1>2, <2>1 DEF Laid
<1>4. ASSUME NEW q \in GraphSeeders PROVE Seeding(g, n, at, rows', committed, seeder'[q])
  <2>1. CASE q = s
    BY <1>1, <2>1
  <2>2. CASE q # s
    <3>1. seeder'[q] = seeder[q] /\ Resting(seeder[q])
      BY <1>1, <2>2 DEF GraphTypes
    <3> QED
      BY <3>1 DEF Seeding, Resting
  <2> QED
    BY <2>1, <2>2
<1>5. GraphTypes'
  <2>1. \A d \in Documents :
          document[d] = 0 \/ (document[d] \in committed /\ rows'[document[d]].kind = "status")
    BY <1>2 DEF GraphTypes
  <2> QED
    BY <1>1, <2>1 DEF GraphTypes
<1> QED
  BY <1>3, <1>4, <1>5 DEF GraphInv

LEMMA SeederStepKeeps ==
  ASSUME GraphInv, NEW s \in GraphSeeders, StatusGraphs!SeederStep(s)
  PROVE  GraphInv'
<1>1. GraphTypes
  BY DEF GraphInv
<1>2. PICK g : g = StatusGraphs!AllGraphs[code]
  OBVIOUS
<1>3. PICK n \in Nat : \E at :
        /\ Laid(g, n, at, rows, committed)
        /\ \A q \in GraphSeeders : Seeding(g, n, at, rows, committed, seeder[q])
  BY <1>2 DEF GraphInv
<1>4. PICK at :
        /\ Laid(g, n, at, rows, committed)
        /\ \A q \in GraphSeeders : Seeding(g, n, at, rows, committed, seeder[q])
  BY <1>3
<1>5. PICK x : x = seeder[s]
  OBVIOUS
<1>6. Seeding(g, n, at, rows, committed, x)
  BY <1>4, <1>5
<1>7. Graph(g) /\ MaxCrashes \in Nat
  BY <1>1, <1>2, GraphDeclared
<1>8. n \in 0..Size(g) /\ Size(g) \in Nat \ {0} /\ States(g) \in Nat
  BY <1>4, <1>7, GraphIs DEF Laid
<1>9. crashes \in 0..MaxCrashes
  BY <1>1 DEF GraphTypes
<1>0. ASSUME x.pc \in {"look", "commit"} PROVE Ready(g, n, at, s, x)
  BY <1>0, <1>1, <1>2, <1>4, <1>5, <1>6, <1>7 DEF Ready
<1>10. CASE StatusGraphs!StartSeed(s)
  <2>1. /\ x.pc = "idle" /\ \A q \in GraphSeeders : Resting(seeder[q])
        /\ seeder' = [seeder EXCEPT ![s].pc = "look"]
        /\ UNCHANGED <<code, rows, committed, document, crashes>>
    BY <1>5, <1>10 DEF StatusGraphs!StartSeed, Resting
  <2>2. x = [pc |-> "idle", item |-> 1, row |-> 0, type |-> 0, ids |-> <<>>]
    BY <1>6, <2>1 DEF Seeding, StatusGraphs!Idle
  <2>3. PICK y : y = [x EXCEPT !.pc = "look"]
    OBVIOUS
  <2>4. seeder' = [seeder EXCEPT ![s] = y]
    BY <1>1, <1>5, <2>1, <2>3 DEF GraphTypes
  <2>5. y = [pc |-> "look", item |-> 1, row |-> 0, type |-> 0, ids |-> <<>>]
    BY <2>2, <2>3
  <2>6. Seeding(g, n, at, rows', committed, y)
    BY <1>8, <2>5 DEF Seeding
  <2>7. crashes' \in 0..MaxCrashes
    BY <1>9, <2>1
  <2> QED
    BY <1>1, <1>2, <1>4, <2>1, <2>4, <2>6, <2>7, SeederKeeps
<1>11. CASE StatusGraphs!FindRow(s)
  <2>1. /\ x.pc = "look" /\ StatusGraphs!Found(s) # {}
        /\ StatusGraphs!Advance(s, StatusGraphs!First(StatusGraphs!Found(s)))
        /\ UNCHANGED <<code, rows, committed, document, crashes>>
    BY <1>5, <1>11 DEF StatusGraphs!FindRow
  <2>2. x.item <= n /\ StatusGraphs!Found(s) = {at[x.item]}
    <3>1. Ready(g, n, at, s, x)
      BY <1>0, <2>1
    <3>2. Finds(s, n, at, x.item)
      BY <3>1, FoundIs
    <3> QED
      BY <2>1, <3>2 DEF Finds
  <2>3. x.item \in 1..n
    BY <1>6, <1>8, <2>1, <2>2 DEF Seeding
  <2>4. at[x.item] \in Nat
    <3>1. at \in [1..n -> committed] /\ committed \subseteq 1..Len(rows) /\ \E S : rows \in Seq(S)
      BY <1>4 DEF Laid
    <3>2. at[x.item] \in 1..Len(rows)
      BY <2>3, <3>1
    <3>3. Len(rows) \in Nat
      BY <3>1
    <3> QED
      BY <3>2, <3>3
  <2>5. StatusGraphs!First(StatusGraphs!Found(s)) = at[x.item]
    BY <2>2, <2>4 DEF StatusGraphs!First
  <2>6. StatusGraphs!Advance(s, at[x.item])
    BY <2>1, <2>5
  <2>7. PICK y : y = Onward(g, x, at[x.item], g.specs.order[x.item - 1])
    OBVIOUS
  <2>8. x.pc \in {"look", "commit"}
    BY <2>1
  <2>9. seeder' = [seeder EXCEPT ![s] = y]
    <3>1. PICK r : r = at[x.item]
      OBVIOUS
    <3>2. StatusGraphs!Advance(s, r)
      BY <2>6, <3>1
    <3>3. Ready(g, n, at, s, x)
      BY <1>0, <2>8
    <3>4. Moves(s, Onward(g, x, r, g.specs.order[x.item - 1]))
      BY <3>2, <3>3, AdvanceIs
    <3> QED
      BY <2>7, <3>1, <3>4 DEF Moves
  <2>10. Seeding(g, n, at, rows', committed, y)
    BY <1>6, <1>7, <1>8, <2>2, <2>7, <2>8, SeedingGoesOn
  <2>11. crashes' \in 0..MaxCrashes /\ ~Resting(seeder[s])
    BY <1>5, <1>9, <2>1 DEF Resting
  <2> QED
    BY <1>1, <1>2, <1>4, <2>1, <2>9, <2>10, <2>11, SeederKeeps
<1>12. CASE StatusGraphs!CreateRow(s)
  <2>1. /\ x.pc = "look" /\ StatusGraphs!Found(s) = {}
        /\ rows' = Append(rows, StatusGraphs!NewRow(s))
        /\ seeder' = [seeder EXCEPT ![s].pc = "commit", ![s].row = Len(rows) + 1]
        /\ UNCHANGED <<code, committed, document, crashes>>
    BY <1>5, <1>12 DEF StatusGraphs!CreateRow
  <2>2. ~(x.item <= n) /\ StatusGraphs!NewRow(s) = RowOf(g, x.item, at)
    <3>1. Ready(g, n, at, s, x)
      BY <1>0, <2>1
    <3>2. Finds(s, n, at, x.item) /\ StatusGraphs!NewRow(s) = RowOf(g, x.item, at)
      BY <3>1, FoundIs
    <3> QED
      BY <2>1, <3>2 DEF Finds
  <2>3. x.item = n + 1 /\ x.item \in 1..Size(g)
    BY <1>6, <1>8, <2>1, <2>2 DEF Seeding
  <2>4. PICK k : k = Len(rows) + 1
    OBVIOUS
  <2>5. PICK a, b, c, d, e : x = [pc |-> a, item |-> b, row |-> c, type |-> d, ids |-> e]
    BY <1>6 DEF Seeding
  <2>6. PICK y : y = [x EXCEPT !.pc = "commit", !.row = k]
    OBVIOUS
  <2>7. seeder' = [seeder EXCEPT ![s] = y]
    BY <1>1, <1>5, <2>1, <2>4, <2>5, <2>6 DEF GraphTypes
  <2>8. y = [pc |-> "commit", item |-> b, row |-> k, type |-> d, ids |-> e]
    BY <2>5, <2>6
  <2>9. y.pc = "commit" /\ y.item = x.item /\ y.type = x.type /\ y.ids = x.ids /\ y.row = k
        /\ y = [pc |-> y.pc, item |-> y.item, row |-> y.row, type |-> y.type, ids |-> y.ids]
    BY <2>5, <2>8
  <2>10. k \in (1..Len(rows')) \ committed /\ rows'[k] = RowOf(g, x.item, at)
    <3>1. PICK S : rows \in Seq(S)
      BY <1>4 DEF Laid
    <3>2. PICK new : new = RowOf(g, x.item, at)
      OBVIOUS
    <3>3. PICK T : T = S \union {new}
      OBVIOUS
    <3>4. rows \in Seq(T) /\ new \in T
      BY <3>1, <3>3
    <3>5. rows' \in Seq(T) /\ Len(rows') = Len(rows) + 1 /\ Len(rows) \in Nat
          /\ rows'[Len(rows) + 1] = new
      BY <2>1, <2>2, <3>2, <3>4, AppendProperties
    <3>6. committed \subseteq 1..Len(rows)
      BY <1>4 DEF Laid
    <3> QED
      BY <2>4, <3>2, <3>5, <3>6
  <2>11. Seeding(g, n, at, rows', committed, y)
    <3>1. /\ x.item > 1 => x.type = at[1]
          /\ \A j \in 1..States(g) : 1 + j < x.item =>
               g.specs.order[j] \in DOMAIN x.ids /\ x.ids[g.specs.order[j]] = at[1 + j]
      BY <1>6, <2>1 DEF Seeding
    <3>2. n + 1 <= n + 1
      BY <1>8
    <3> QED
      BY <2>3, <2>9, <2>10, <3>1, <3>2 DEF Seeding
  <2>12. crashes' \in 0..MaxCrashes /\ ~Resting(seeder[s])
    BY <1>5, <1>9, <2>1 DEF Resting
  <2> QED
    BY <1>1, <1>2, <1>4, <2>1, <2>7, <2>11, <2>12, SeederKeeps
<1>13. CASE StatusGraphs!CommitRow(s)
  <2>1. /\ x.pc = "commit" /\ committed' = committed \union {x.row}
        /\ StatusGraphs!Advance(s, x.row)
        /\ UNCHANGED <<code, rows, document, crashes>>
    BY <1>5, <1>13 DEF StatusGraphs!CommitRow
  <2>2. /\ x.item = n + 1 /\ x.item \in 1..Size(g) /\ x.row \in (1..Len(rows)) \ committed
        /\ rows[x.row] = RowOf(g, x.item, at)
    BY <1>6, <2>1 DEF Seeding
  <2>3. PICK m : m = n + 1
    OBVIOUS
  <2>4. PICK bt : bt = [i \in 1..m |-> IF i = m THEN x.row ELSE at[i]]
    OBVIOUS
  <2>5. m \in 0..Size(g) /\ m \in Nat /\ bt[m] = x.row /\ (\A j \in 1..n : bt[j] = at[j])
        /\ \A j \in 1..m : j = m \/ j \in 1..n
    BY <1>8, <2>2, <2>3, <2>4
  <2>6. \A i \in 1..m : RowOf(g, i, bt) = RowOf(g, i, at)
    <3>1. SUFFICES ASSUME NEW i \in 1..m PROVE RowOf(g, i, bt) = RowOf(g, i, at)
      OBVIOUS
    <3>2. CASE i = 1
      BY <3>2 DEF RowOf
    <3>3. CASE i # 1 /\ i <= 1 + States(g)
      <4>1. bt[1] = at[1]
        BY <2>3, <2>5, <3>1, <3>3, <1>8
      <4> QED
        BY <3>3, <4>1 DEF RowOf
    <3>4. CASE ~(i <= 1 + States(g))
      <4>1. PICK k \in 1..Edges(g) : i = 1 + States(g) + k
        <5>1. i - 1 - States(g) \in 1..Edges(g) /\ Edges(g) \in Nat
          BY <1>7, <1>8, <2>5, <3>1, <3>4, GraphIs DEF Size
        <5> QED
          BY <1>8, <3>1, <5>1
      <4>2. PICK a, b \in 1..States(g) : Joins(g, k, a, b)
        BY <1>7, <4>1, EdgeRow
      <4>3. \A ct : RowOf(g, i, ct) = EdgeOf(ct, a, b)
        <5>1. PICK edge : edge = g.edges[k]
          OBVIOUS
        <5>2. edge[1] = g.specs.order[a] /\ edge[2] = g.specs.order[b]
          BY <4>2, <5>1 DEF Joins
        <5>3. Place(g, edge[1]) = 1 + a /\ Place(g, edge[2]) = 1 + b
          BY <1>7, <5>2, PlaceIs
        <5>4. i # 1 /\ i - 1 - States(g) = k
          BY <1>8, <4>1
        <5> QED
          BY <3>4, <5>1, <5>3, <5>4 DEF RowOf, EdgeOf
      <4>4. bt[1] = at[1] /\ bt[1 + a] = at[1 + a] /\ bt[1 + b] = at[1 + b]
        <5>1. {1, 1 + a, 1 + b} \subseteq 1..n
          BY <1>8, <2>3, <3>1, <4>1
        <5> QED
          BY <2>5, <5>1
      <4> QED
        BY <4>3, <4>4 DEF EdgeOf
    <3> QED
      BY <3>2, <3>3, <3>4
  <2>7. Laid(g, m, bt, rows, committed')
    <3>1. bt \in [1..m -> committed']
      BY <1>4, <2>1, <2>3, <2>4, <2>5 DEF Laid
    <3>2. \A i, j \in 1..m : bt[i] = bt[j] => i = j
      <4>1. \A i, j \in 1..n : at[i] = at[j] => i = j
        BY <1>4 DEF Laid
      <4>2. \A i \in 1..n : at[i] # x.row
        BY <1>4, <2>2 DEF Laid
      <4> QED
        BY <2>5, <4>1, <4>2
    <3>3. \A r \in committed' : \E i \in 1..m : bt[i] = r
      <4>1. ASSUME NEW r \in committed PROVE \E i \in 1..m : bt[i] = r
        <5>1. PICK i \in 1..n : at[i] = r
          BY <1>4 DEF Laid
        <5>2. i \in 1..m
          BY <1>8, <2>3
        <5> QED
          BY <2>5, <5>1, <5>2
      <4>2. m \in 1..m
        BY <2>2, <2>3, <2>5
      <4> QED
        BY <2>1, <2>5, <4>1, <4>2
    <3>4. \A i \in 1..m : rows[bt[i]] = RowOf(g, i, bt)
      <4>1. \A i \in 1..n : rows[at[i]] = RowOf(g, i, at)
        BY <1>4 DEF Laid
      <4> QED
        BY <2>2, <2>3, <2>5, <2>6, <4>1
    <3>5. committed' \subseteq 1..Len(rows) /\ \E S : rows \in Seq(S)
      BY <1>4, <2>1, <2>2 DEF Laid
    <3> QED
      BY <2>5, <3>1, <3>2, <3>3, <3>4, <3>5 DEF Laid
  <2>8. PICK y : y = Onward(g, x, bt[x.item], g.specs.order[x.item - 1])
    OBVIOUS
  <2>9. x.pc \in {"look", "commit"} /\ x.item <= m
    BY <2>1, <2>2, <2>3, <2>5
  <2>10. seeder' = [seeder EXCEPT ![s] = y]
    <3>1. PICK r : r = x.row
      OBVIOUS
    <3>2. StatusGraphs!Advance(s, r)
      BY <2>1, <3>1
    <3>3. Ready(g, n, at, s, x)
      BY <1>0, <2>9
    <3>4. Moves(s, Onward(g, x, r, g.specs.order[x.item - 1]))
      BY <3>2, <3>3, AdvanceIs
    <3> QED
      BY <2>2, <2>3, <2>5, <2>8, <3>1, <3>4 DEF Moves
  <2>11. Seeding(g, m, bt, rows, committed', y)
    BY <1>6, <1>7, <1>8, <2>5, <2>8, <2>9, SeedingGoesOn
  <2>12. /\ seeder' = [q \in GraphSeeders |-> seeder'[q]]
         /\ seeder'[s] = y /\ \A q \in GraphSeeders : q # s => seeder'[q] = seeder[q]
         /\ \A p, q \in GraphSeeders : p = q \/ Resting(seeder'[p]) \/ Resting(seeder'[q])
    <3>1. ~Resting(seeder[s])
      BY <1>5, <2>1 DEF Resting
    <3> QED
      BY <1>1, <2>10, <3>1, SeederMoves
  <2>13. ASSUME NEW q \in GraphSeeders PROVE Seeding(g, m, bt, rows, committed', seeder'[q])
    <3>1. CASE q = s
      BY <2>11, <2>12, <3>1
    <3>2. CASE q # s
      <4>1. seeder'[q] = seeder[q] /\ Resting(seeder[q])
        BY <1>1, <1>5, <2>1, <2>12, <3>2 DEF GraphTypes, Resting
      <4>2. Seeding(g, n, at, rows, committed, seeder[q])
        BY <1>4
      <4>3. seeder[q].pc # "done"
        BY <1>8, <2>2, <4>2 DEF Seeding
      <4> QED
        BY <4>1, <4>2, <4>3 DEF Seeding, Resting
    <3> QED
      BY <3>1, <3>2
  <2>14. GraphTypes'
    BY <1>1, <2>1, <2>12 DEF GraphTypes
  <2>15. g = StatusGraphs!AllGraphs[code'] /\ rows' = rows
    BY <1>2, <2>1
  <2> QED
    BY <2>5, <2>7, <2>13, <2>14, <2>15 DEF GraphInv
<1>14. CASE StatusGraphs!Crash(s)
  <2>1. /\ x.pc \in {"look", "commit"} /\ crashes < MaxCrashes
        /\ seeder' = [seeder EXCEPT ![s] = StatusGraphs!Idle] /\ crashes' = crashes + 1
        /\ UNCHANGED <<code, rows, committed, document>>
    BY <1>5, <1>14 DEF StatusGraphs!Crash
  <2>2. Seeding(g, n, at, rows', committed, StatusGraphs!Idle)
    BY DEF Seeding, StatusGraphs!Idle
  <2>3. crashes' \in 0..MaxCrashes /\ ~Resting(seeder[s])
    BY <1>5, <1>7, <1>9, <2>1 DEF Resting
  <2> QED
    BY <1>1, <1>2, <1>4, <2>1, <2>2, <2>3, SeederKeeps
<1> QED
  BY <1>10, <1>11, <1>12, <1>13, <1>14 DEF StatusGraphs!SeederStep

LEMMA SaveDocumentKeeps ==
  ASSUME GraphInv, NEW d \in Documents, NEW to \in committed, StatusGraphs!SaveDocument(d, to)
  PROVE  GraphInv'
<1>1. /\ to \in committed /\ rows[to].kind = "status"
      /\ document' = [document EXCEPT ![d] = to]
      /\ UNCHANGED <<code, rows, committed, seeder, crashes>>
  BY DEF StatusGraphs!SaveDocument, StatusGraphs!ValidateStatusTransition, StatusGraphs!StatusesOf
<1>2. GraphTypes'
  BY <1>1 DEF GraphInv, GraphTypes
<1>3. PICK n \in Nat : \E at :
        /\ Laid(StatusGraphs!AllGraphs[code], n, at, rows, committed)
        /\ \A s \in GraphSeeders :
             Seeding(StatusGraphs!AllGraphs[code], n, at, rows, committed, seeder[s])
  BY DEF GraphInv
<1> QED
  BY <1>1, <1>2, <1>3 DEF GraphInv

LEMMA GraphKept == ASSUME GraphInv, StatusGraphs!Next PROVE GraphInv'
BY SeederStepKeeps, SaveDocumentKeeps DEF StatusGraphs!Next

(* The rows of a graph that is seeded whole.                               *)
LEMMA SeededRows ==
  ASSUME NEW g, Graph(g), NEW at, Laid(g, Size(g), at, rows, committed)
  PROVE  /\ StatusGraphs!statusTypeIDByCode = at[1]
         /\ \A r \in committed : rows[r].kind = "status" =>
              \E j \in 1..States(g) : r = at[1 + j]
         /\ \A j \in 1..States(g) :
              /\ at[1 + j] \in StatusGraphs!StatusesOf(at[1])
              /\ rows[at[1 + j]].name = g.specs.order[j]
         /\ \A k \in 1..Edges(g), a, b \in 1..States(g) : Joins(g, k, a, b) =>
              \E e \in committed : rows[e] = EdgeOf(at, a, b)
<1>1. /\ States(g) \in Nat /\ Edges(g) \in Nat /\ Size(g) = 1 + States(g) + Edges(g)
  BY GraphIs DEF Size
<1>2. /\ at \in [1..Size(g) -> committed]
      /\ \A i \in 1..Size(g) : at[i] \in committed /\ rows[at[i]] = RowOf(g, i, at)
      /\ \A r \in committed : \E i \in 1..Size(g) : at[i] = r
      /\ committed \subseteq 1..Len(rows) /\ \E S : rows \in Seq(S)
  BY DEF Laid
<1>3. ASSUME NEW r \in committed
      PROVE  \E i \in 1..Size(g) : at[i] = r /\ rows[r] = RowOf(g, i, at)
  BY <1>2
<1>4. \A i \in 1..Size(g) :
        /\ i = 1 => RowOf(g, i, at).kind = "type"
        /\ i # 1 /\ i <= 1 + States(g) =>
             RowOf(g, i, at) = [kind |-> "status", type |-> at[1], name |-> g.specs.order[i - 1]]
        /\ ~(i <= 1 + States(g)) => RowOf(g, i, at).kind = "edge"
  BY <1>1 DEF RowOf
<1>5. StatusGraphs!statusTypeIDByCode = at[1]
  <2>1. StatusGraphs!Types = {at[1]}
    <3>1. \A r \in committed : rows[r].kind = "type" => r = at[1]
      BY <1>1, <1>3, <1>4
    <3>2. at[1] \in committed /\ rows[at[1]].kind = "type"
      <4>1. 1 \in 1..Size(g)
        BY <1>1
      <4> QED
        BY <1>2, <1>4, <4>1
    <3> QED
      BY <3>1, <3>2 DEF StatusGraphs!Types
  <2>2. at[1] \in Nat
    <3>1. at[1] \in 1..Len(rows)
      <4>1. 1 \in 1..Size(g)
        BY <1>1
      <4> QED
        BY <1>2, <4>1
    <3> QED
      BY <1>2, <3>1
  <2>3. \A q \in {at[1]} : at[1] <= q
    BY <2>2
  <2> QED
    BY <2>1, <2>3 DEF StatusGraphs!statusTypeIDByCode, StatusGraphs!First
<1>6. ASSUME NEW r \in committed, rows[r].kind = "status"
      PROVE  \E j \in 1..States(g) : r = at[1 + j]
  <2>1. PICK i \in 1..Size(g) : at[i] = r /\ rows[r] = RowOf(g, i, at)
    BY <1>3
  <2>2. i # 1 /\ i <= 1 + States(g)
    BY <1>4, <1>6, <2>1
  <2>3. i - 1 \in 1..States(g) /\ 1 + (i - 1) = i
    BY <1>1, <2>2
  <2> QED
    BY <2>1, <2>3
<1>7. ASSUME NEW j \in 1..States(g)
      PROVE  /\ at[1 + j] \in StatusGraphs!StatusesOf(at[1])
             /\ rows[at[1 + j]].name = g.specs.order[j]
  <2>1. 1 + j \in 1..Size(g) /\ 1 + j # 1 /\ 1 + j <= 1 + States(g) /\ (1 + j) - 1 = j
    BY <1>1
  <2>2. PICK name : name = g.specs.order[j]
    OBVIOUS
  <2>3. RowOf(g, 1 + j, at) = [kind |-> "status", type |-> at[1], name |-> name]
    BY <1>4, <2>1, <2>2
  <2>4. rows[at[1 + j]] = [kind |-> "status", type |-> at[1], name |-> name]
        /\ at[1 + j] \in committed
    BY <1>2, <2>1, <2>3
  <2> QED
    BY <2>2, <2>4 DEF StatusGraphs!StatusesOf
<1>8. ASSUME NEW k \in 1..Edges(g), NEW a \in 1..States(g), NEW b \in 1..States(g), Joins(g, k, a, b)
      PROVE  \E e \in committed : rows[e] = EdgeOf(at, a, b)
  <2>1. PICK m : m = 1 + States(g) + k
    OBVIOUS
  <2>2. m \in 1..Size(g)
    BY <1>1, <2>1
  <2>3. PICK c, d \in 1..States(g) : Joins(g, k, c, d) /\ RowOf(g, m, at) = EdgeOf(at, c, d)
    BY <2>1, EdgeRow
  <2>4. g.specs.order[a] = g.specs.order[c] /\ g.specs.order[b] = g.specs.order[d]
    <3>1. g.edges[k][1] = g.specs.order[a] /\ g.edges[k][2] = g.specs.order[b]
      BY <1>8 DEF Joins
    <3>2. g.edges[k][1] = g.specs.order[c] /\ g.edges[k][2] = g.specs.order[d]
      BY <2>3 DEF Joins
    <3> QED
      BY <3>1, <3>2
  <2>5. a = c /\ b = d
    BY <2>4, GraphIs
  <2> QED
    BY <1>2, <2>2, <2>3, <2>5
<1> QED
  BY <1>5, <1>6, <1>7, <1>8

(* A set of statuses that no transition leaves, by the names of them.      *)
LEMMA ClosedNames ==
  ASSUME NEW g, Graph(g), NEW held,
         \A i \in 1..Edges(g) : g.edges[i][1] \in held => g.edges[i][2] \in held,
         held \subseteq {g.specs.order[j] : j \in 1..States(g)}
  PROVE  /\ held # {} => \E name \in held : name \in g.specs.terminal
         /\ g.specs.initial \subseteq held => held = {g.specs.order[j] : j \in 1..States(g)}
<1>1. PICK names : names = {g.specs.order[j] : j \in 1..States(g)}
  OBVIOUS
<1>2. names = {g.specs.order[j] : j \in DOMAIN g.specs.order} /\ DOMAIN g.edges = 1..Edges(g)
  BY <1>1, GraphIs
<1>3. \A set \in SUBSET names :
        (\A i \in DOMAIN g.edges : g.edges[i][1] \in set => g.edges[i][2] \in set) =>
          /\ set # {} => set \intersect g.specs.terminal # {}
          /\ g.specs.initial \subseteq set => set = names
  BY <1>2 DEF Graph, StatusGraphs!WellDeclared, StatusGraphs!Range
<1>4. held \in SUBSET names
  BY <1>1
<1> QED
  BY <1>1, <1>2, <1>3, <1>4

LEMMA SeededWhole ==
  ASSUME GraphInv, StatusGraphs!Seeded
  PROVE  \E at : Laid(StatusGraphs!AllGraphs[code], Size(StatusGraphs!AllGraphs[code]),
                      at, rows, committed)
<1>1. PICK g : g = StatusGraphs!AllGraphs[code]
  OBVIOUS
<1>2. PICK n \in Nat : \E at :
        /\ Laid(g, n, at, rows, committed)
        /\ \A q \in GraphSeeders : Seeding(g, n, at, rows, committed, seeder[q])
  BY <1>1 DEF GraphInv
<1>3. PICK at :
        /\ Laid(g, n, at, rows, committed)
        /\ \A q \in GraphSeeders : Seeding(g, n, at, rows, committed, seeder[q])
  BY <1>2
<1>4. PICK s \in GraphSeeders : seeder[s].pc = "done"
  BY DEF StatusGraphs!Seeded
<1>5. n = Size(g)
  BY <1>3, <1>4 DEF Seeding
<1> QED
  BY <1>1, <1>3, <1>5

LEMMA NoRowTwice ==
  ASSUME GraphInv
  PROVE  \A r, q \in committed : rows[r] = rows[q] => r = q
<1>1. PICK g : g = StatusGraphs!AllGraphs[code]
  OBVIOUS
<1>2. PICK n \in Nat : \E at : Laid(g, n, at, rows, committed)
  BY <1>1 DEF GraphInv
<1>3. PICK at : Laid(g, n, at, rows, committed)
  BY <1>2
<1>4. Graph(g)
  BY <1>1, GraphDeclared DEF GraphInv
<1> SUFFICES ASSUME NEW r \in committed, NEW q \in committed, rows[r] = rows[q]
             PROVE  r = q
  OBVIOUS
<1>5. n \in 0..Size(g) /\ \A i, j \in 1..n : at[i] = at[j] => i = j
  BY <1>3 DEF Laid
<1>6. PICK i \in 1..n : at[i] = r
  BY <1>3 DEF Laid
<1>7. PICK j \in 1..n : at[j] = q
  BY <1>3 DEF Laid
<1>8. RowOf(g, i, at) = RowOf(g, j, at)
  <2>1. rows[at[i]] = RowOf(g, i, at) /\ rows[at[j]] = RowOf(g, j, at)
    BY <1>3 DEF Laid
  <2> QED
    BY <1>6, <1>7, <2>1
<1>9. i \in 1..Size(g) /\ j \in 1..Size(g) /\ i <= n + 1 /\ j <= n + 1
  <2>1. Size(g) \in Nat
    BY <1>4, GraphIs
  <2> QED
    BY <1>5, <2>1
<1>10. i = j
  BY <1>4, <1>5, <1>8, <1>9, RowsDiffer
<1> QED
  BY <1>6, <1>7, <1>10

LEMMA SeededIsWhole ==
  ASSUME GraphInv, StatusGraphs!Seeded
  PROVE  StatusGraphs!Cardinality(committed) = Len(StatusGraphs!SeedItems)
<1>1. PICK g : g = StatusGraphs!AllGraphs[code]
  OBVIOUS
<1>2. Graph(g) /\ code \in DOMAIN StatusGraphs!AllGraphs
  BY <1>1, GraphDeclared DEF GraphInv, GraphTypes
<1>3. PICK at : Laid(g, Size(g), at, rows, committed)
  BY <1>1, SeededWhole
<1>4. /\ at \in [1..Size(g) -> committed] /\ \A i, j \in 1..Size(g) : at[i] = at[j] => i = j
      /\ \A r \in committed : \E i \in 1..Size(g) : at[i] = r
  BY <1>3 DEF Laid
<1>5. at \in Bijection(1..Size(g), committed)
  BY <1>4 DEF Bijection, Injection, Surjection, IsInjective
<1>6. Size(g) \in Nat
  BY <1>2, GraphIs
<1>7. Cardinality(committed) = Size(g)
  BY <1>5, <1>6, FS_CountingElements DEF ExistsBijection
<1>8. Len(StatusGraphs!SeedItems) = Size(g)
  BY <1>1, <1>2, ItemsAre
<1>9. StatusGraphs!Cardinality(committed) = Cardinality(committed)
  BY DEF StatusGraphs!Cardinality, Cardinality
<1> QED
  BY <1>7, <1>8, <1>9

Moving == {<<rows[e].from, rows[e].to>> :
             e \in {r \in committed : rows[r].kind = "edge" /\ rows[r].type = StatusGraphs!statusTypeIDByCode}}
Named(set) ==
  {r \in StatusGraphs!StatusesOf(StatusGraphs!statusTypeIDByCode) : rows[r].name \in set}
HeldStatuses == {document[d] : d \in Documents} \ {0}

LEMMA WayOn ==
  ASSUME GraphInv, StatusGraphs!Seeded,
         NEW set \in SUBSET (StatusGraphs!StatusesOf(StatusGraphs!statusTypeIDByCode) \union HeldStatuses),
         \A t \in Moving : t[1] \in set => t[2] \in set
  PROVE  /\ set \intersect HeldStatuses # {} => set \intersect Named(StatusGraphs!specs.terminal) # {}
         /\ Named(StatusGraphs!specs.initial) \subseteq set =>
              StatusGraphs!StatusesOf(StatusGraphs!statusTypeIDByCode) \subseteq set
<1>1. PICK g : g = StatusGraphs!AllGraphs[code]
  OBVIOUS
<1>2. Graph(g) /\ GraphTypes /\ StatusGraphs!specs = g.specs
  BY <1>1, GraphDeclared DEF GraphInv, StatusGraphs!specs, StatusGraphs!graph
<1>3. PICK at : Laid(g, Size(g), at, rows, committed)
  BY <1>1, SeededWhole
<1>4. PICK statuses : statuses = StatusGraphs!StatusesOf(StatusGraphs!statusTypeIDByCode)
  OBVIOUS
<1>5. /\ StatusGraphs!statusTypeIDByCode = at[1]
      /\ \A r \in committed : rows[r].kind = "status" => \E j \in 1..States(g) : r = at[1 + j]
      /\ \A j \in 1..States(g) :
           at[1 + j] \in StatusGraphs!StatusesOf(at[1]) /\ rows[at[1 + j]].name = g.specs.order[j]
      /\ \A k \in 1..Edges(g), a, b \in 1..States(g) : Joins(g, k, a, b) =>
           \E e \in committed : rows[e] = EdgeOf(at, a, b)
  BY <1>2, <1>3, SeededRows
<1>6. /\ \A j \in 1..States(g) : at[1 + j] \in statuses /\ rows[at[1 + j]].name = g.specs.order[j]
      /\ \A r \in statuses : \E j \in 1..States(g) : r = at[1 + j]
  <2>1. \A r \in statuses : r \in committed /\ rows[r].kind = "status"
    BY <1>4 DEF StatusGraphs!StatusesOf
  <2> QED
    BY <1>4, <1>5, <2>1
<1>7. \A r \in HeldStatuses : \E j \in 1..States(g) : r = at[1 + j]
  <2>1. \A r \in HeldStatuses : r \in committed /\ rows[r].kind = "status"
    BY <1>2 DEF HeldStatuses, GraphTypes
  <2> QED
    BY <1>5, <2>1
<1>8. \A r \in set : \E j \in 1..States(g) : r = at[1 + j]
  BY <1>4, <1>6, <1>7
<1>9. PICK names : names = {g.specs.order[j] : j \in {i \in 1..States(g) : at[1 + i] \in set}}
  OBVIOUS
<1>10. ASSUME NEW j \in 1..States(g), g.specs.order[j] \in names PROVE at[1 + j] \in set
  <2>1. PICK i \in 1..States(g) : at[1 + i] \in set /\ g.specs.order[i] = g.specs.order[j]
    BY <1>9, <1>10
  <2>2. i = j
    BY <1>2, <2>1, GraphIs
  <2> QED
    BY <2>1, <2>2
<1>11. ASSUME NEW k \in 1..Edges(g), g.edges[k][1] \in names PROVE g.edges[k][2] \in names
  <2>1. PICK a, b \in 1..States(g) : g.edges[k] = <<g.specs.order[a], g.specs.order[b]>>
    BY <1>2, GraphIs
  <2>2. g.edges[k][1] = g.specs.order[a] /\ g.edges[k][2] = g.specs.order[b]
    BY <2>1
  <2>3. at[1 + a] \in set
    BY <1>10, <1>11, <2>2
  <2>4. PICK e \in committed : rows[e] = EdgeOf(at, a, b)
    BY <1>5, <2>1 DEF Joins
  <2>5. /\ rows[e].kind = "edge" /\ rows[e].type = at[1]
        /\ rows[e].from = at[1 + a] /\ rows[e].to = at[1 + b]
    BY <2>4 DEF EdgeOf
  <2>6. PICK t : t = <<rows[e].from, rows[e].to>>
    OBVIOUS
  <2>7. t \in Moving
    BY <1>5, <2>5, <2>6 DEF Moving
  <2>8. t[1] = at[1 + a] /\ t[2] = at[1 + b]
    BY <2>5, <2>6
  <2>9. at[1 + b] \in set
    BY <2>3, <2>7, <2>8
  <2> QED
    BY <1>9, <2>2, <2>9
<1>12. names \subseteq {g.specs.order[j] : j \in 1..States(g)}
  BY <1>9
<1>13. /\ names # {} => \E name \in names : name \in g.specs.terminal
       /\ g.specs.initial \subseteq names => names = {g.specs.order[j] : j \in 1..States(g)}
  BY <1>2, <1>11, <1>12, ClosedNames
<1>14. ASSUME set \intersect HeldStatuses # {}
       PROVE  set \intersect Named(StatusGraphs!specs.terminal) # {}
  <2>1. names # {}
    <3>1. PICK r \in set : r \in HeldStatuses
      BY <1>14
    <3>2. PICK j \in 1..States(g) : r = at[1 + j]
      BY <1>8
    <3>3. g.specs.order[j] \in names
      BY <1>9, <3>1, <3>2
    <3> QED
      BY <3>3
  <2>2. PICK name \in names : name \in g.specs.terminal
    BY <1>13, <2>1
  <2>3. PICK j \in 1..States(g) : at[1 + j] \in set /\ name = g.specs.order[j]
    BY <1>9
  <2> QED
    BY <1>2, <1>4, <1>6, <2>2, <2>3 DEF Named
<1>15. ASSUME Named(StatusGraphs!specs.initial) \subseteq set PROVE statuses \subseteq set
  <2>1. g.specs.initial \subseteq names
    <3>1. SUFFICES ASSUME NEW name \in g.specs.initial PROVE name \in names
      OBVIOUS
    <3>2. g.specs.initial \subseteq {g.specs.order[j] : j \in DOMAIN g.specs.order}
      BY <1>2 DEF Graph, StatusGraphs!WellDeclared, StatusGraphs!Range
    <3>3. PICK j \in 1..States(g) : name = g.specs.order[j]
      BY <1>2, <3>1, <3>2, GraphIs
    <3>4. at[1 + j] \in Named(StatusGraphs!specs.initial)
      BY <1>2, <1>4, <1>6, <3>1, <3>3 DEF Named
    <3> QED
      BY <1>9, <1>15, <3>3, <3>4
  <2>2. \A j \in 1..States(g) : at[1 + j] \in set
    BY <1>10, <1>13, <2>1
  <2> QED
    BY <1>6, <2>2
<1> QED
  BY <1>4, <1>14, <1>15

LEMMA GraphSound ==
  ASSUME GraphInv
  PROVE  StatusGraphs!TypeOK /\ StatusGraphs!SeededOnce /\ StatusGraphs!DocumentsCanEnd
<1>1. StatusGraphs!TypeOK
  <2>1. \E n \in Nat : \E at :
          /\ committed \subseteq 1..Len(rows) /\ \E S : rows \in Seq(S)
          /\ \A s \in GraphSeeders : seeder[s].pc \in {"idle", "look", "commit", "done"}
    BY DEF GraphInv, Laid, Seeding
  <2>2. committed \subseteq DOMAIN rows
    BY <2>1
  <2> QED
    BY <2>1, <2>2 DEF StatusGraphs!TypeOK, GraphInv, GraphTypes
<1>2. StatusGraphs!SeededOnce
  BY NoRowTwice, SeededIsWhole DEF StatusGraphs!SeededOnce
<1>3. StatusGraphs!DocumentsCanEnd
  <2>1. SUFFICES ASSUME StatusGraphs!Seeded PROVE StatusGraphs!DocumentsCanEnd
    BY DEF StatusGraphs!DocumentsCanEnd
  <2>2. \A set \in SUBSET (StatusGraphs!StatusesOf(StatusGraphs!statusTypeIDByCode) \union HeldStatuses) :
          (\A t \in Moving : t[1] \in set => t[2] \in set) =>
            /\ set \intersect HeldStatuses # {} => set \intersect Named(StatusGraphs!specs.terminal) # {}
            /\ Named(StatusGraphs!specs.initial) \subseteq set =>
                 StatusGraphs!StatusesOf(StatusGraphs!statusTypeIDByCode) \subseteq set
    BY <2>1, WayOn
  <2> QED
    BY <2>2 DEF StatusGraphs!DocumentsCanEnd, Moving, Named, HeldStatuses
<1> QED
  BY <1>1, <1>2, <1>3

GraphPartInv == part = "graphs" => GraphInv

LEMMA GraphPartStep == GraphPartInv /\ [Next]_vars => GraphPartInv'
<1> SUFFICES ASSUME GraphPartInv, [Next]_vars, part' = "graphs" PROVE GraphInv'
  BY DEF GraphPartInv
<1>1. part = "graphs" /\ (StatusGraphs!Next \/ UNCHANGED graphVars)
  BY DEF Next, OthersIdle, Idle, vars, RegistryStep, TenancyStep, SyncStep, BundleStep,
     SetupStep, GraphStep, RulesStep, MigrationStep
<1>2. GraphInv
  BY <1>1 DEF GraphPartInv
<1>3. CASE UNCHANGED graphVars
  <2>1. UNCHANGED <<code, rows, committed, seeder, document, crashes>>
    BY <1>3 DEF graphVars
  <2>2. GraphTypes'
    BY <1>2, <2>1 DEF GraphInv, GraphTypes
  <2>3. PICK n \in Nat : \E at :
          /\ Laid(StatusGraphs!AllGraphs[code], n, at, rows, committed)
          /\ \A s \in GraphSeeders :
               Seeding(StatusGraphs!AllGraphs[code], n, at, rows, committed, seeder[s])
    BY <1>2 DEF GraphInv
  <2> QED
    BY <2>1, <2>2, <2>3 DEF GraphInv
<1> QED
  BY <1>1, <1>2, <1>3, GraphKept

(* statusgraph.Seed and ValidateStatusTransition, for every graph that is  *)
(* declared well, any number of seeders one at a time, of crashes and of   *)
(* documents: no row is made twice and none is left out, and a document    *)
(* always has a way to a status that ends it.                              *)
THEOREM GraphsSeeded == Spec => []GraphsAreSeeded
<1>1. Init => GraphPartInv
  BY GraphBegins DEF Init, GraphPartInv
<1>2. GraphPartInv => GraphsAreSeeded
  BY GraphSound DEF GraphPartInv, GraphsAreSeeded
<1> QED
  BY <1>1, <1>2, GraphPartStep, PTL DEF Spec

-----------------------------------------------------------------------------
(* The rules of fields.                                                    *)

Last == Cardinality(RecordFields) + 1
Follows(def, path, i) ==
  IF path[i - 1] = NoField THEN NoField ELSE def[path[i - 1]].notBefore

LEMMA LastIsNatural == Last \in Nat \ {0}
BY RulesAssumption, FS_CardinalityType DEF Last

(* A path is what its definition says, which no recursive definition is    *)
(* before such a function is found.                                        *)
LEMMA PathIs ==
  ASSUME NEW def, NEW name, NEW path, path = FieldRules!Path(def, name)
  PROVE  /\ DOMAIN path = 1..Last
         /\ \A i \in 1..Last : path[i] = IF i = 1 THEN name ELSE Follows(def, path, i)
<1> DEFINE Upto(n, fn) == fn = [i \in 1..n |-> IF i = 1 THEN name ELSE Follows(def, fn, i)]
           Bad == {n \in Nat : ~ \E fn : Upto(n, fn)}
<1>1. ASSUME NEW n \in Nat, \A k \in Nat : k < n => \E fn : Upto(k, fn)
      PROVE  \E fn : Upto(n, fn)
  <2>1. CASE n = 0
    <3>1. Upto(0, [i \in 1..0 |-> name])
      BY DEF Follows
    <3> QED
      BY <2>1, <3>1
  <2>2. CASE n # 0
    <3>1. PICK fn : Upto(n - 1, fn)
      <4> HIDE DEF Upto
      <4>1. n - 1 \in Nat /\ n - 1 < n
        BY <1>1, <2>2
      <4> QED
        BY <1>1, <4>1
    <3>2. PICK last : last = IF n = 1 THEN name ELSE Follows(def, fn, n)
      OBVIOUS
    <3>3. PICK g : g = [i \in 1..n |-> IF i = n THEN last ELSE fn[i]]
      OBVIOUS
    <3>4. \A i \in 1..n : i # 1 => g[i - 1] = fn[i - 1]
      BY <3>3
    <3>5. \A i \in 1..n : i # 1 => Follows(def, g, i) = Follows(def, fn, i)
      BY <3>4 DEF Follows
    <3>6. \A i \in 1..n : i # n => fn[i] = IF i = 1 THEN name ELSE Follows(def, fn, i)
      <4>1. fn = [i \in 1..(n - 1) |-> IF i = 1 THEN name ELSE Follows(def, fn, i)]
        BY <3>1
      <4>2. \A i \in 1..n : i # n => i \in 1..(n - 1)
        BY <1>1, <2>2
      <4> QED
        BY <4>1, <4>2
    <3>7. \A i \in 1..n : g[i] = IF i = 1 THEN name ELSE Follows(def, g, i)
      BY <1>1, <2>2, <3>2, <3>3, <3>5, <3>6
    <3>8. Upto(n, g)
      BY <3>3, <3>7
    <3> QED
      BY <3>8
  <2> QED
    BY <2>1, <2>2
<1>2. Bad = {}
  <2>1. SUFFICES ASSUME Bad # {} PROVE FALSE
    OBVIOUS
  <2>2. PICK n \in Bad : \A k \in Bad : n <= k
    <3> HIDE DEF Bad
    <3>1. Bad \subseteq Nat
      BY DEF Bad
    <3> QED
      BY <2>1, <3>1, LeastExists
  <2>3. \A k \in Nat : k < n => \E fn : Upto(k, fn)
    <3> HIDE DEF Upto
    <3>1. n \in Nat
      BY <2>2
    <3> QED
      BY <2>2, <3>1
  <2>4. \E fn : Upto(n, fn)
    <3> HIDE DEF Upto
    <3> QED
      BY <1>1, <2>2, <2>3
  <2> QED
    BY <2>2, <2>4
<1>3. \E fn : Upto(Last, fn)
  BY <1>2, LastIsNatural
<1>4. FieldRules!Path(def, name) = CHOOSE fn : Upto(Last, fn)
  <2>1. PICK n : n = FieldRules!Cardinality(RecordFields) + 1
    OBVIOUS
  <2>2. n = Last
    BY <2>1 DEF FieldRules!Cardinality, Cardinality, Last
  <2>3. FieldRules!Path(def, name) = CHOOSE fn : Upto(n, fn)
    BY <2>1 DEF FieldRules!Path, Follows
  <2> QED
    BY <2>2, <2>3
<1>5. Upto(Last, path)
  <2> HIDE DEF Upto
  <2> QED
    BY <1>3, <1>4
<1> QED
  BY <1>5

(* How a definition refers to fields, and the dates of a record.           *)
Declared(def) == \A f \in RecordFields : def[f].notBefore \in RecordFields \union {NoField}

LEMMA PathStays ==
  ASSUME NEW def, Declared(def), NEW name \in RecordFields \union {NoField},
         NEW path, path = FieldRules!Path(def, name), NEW i \in 1..Last
  PROVE  /\ path[i] \in RecordFields \union {NoField}
         /\ path[i] = NoField => \A j \in 1..Last : i <= j => path[j] = NoField
<1>2. \A j \in 1..Last : path[j] = IF j = 1 THEN name ELSE Follows(def, path, j)
  BY PathIs
<1>3. ASSUME NEW Bad, Bad \subseteq Nat, Bad # {}
      PROVE  \E n \in Bad : \A k \in Nat : k < n => k \notin Bad
  <2>1. PICK n \in Bad : \A k \in Bad : n <= k
    BY <1>3, LeastExists
  <2> QED
    BY <1>3, <2>1
<1>4. path[i] \in RecordFields \union {NoField}
  <2>1. PICK Bad : Bad = {j \in 1..Last : path[j] \notin RecordFields \union {NoField}}
    OBVIOUS
  <2>2. SUFFICES ASSUME Bad # {} PROVE FALSE
    BY <2>1
  <2>3. PICK n \in Bad : \A k \in Nat : k < n => k \notin Bad
    <3>1. Bad \subseteq Nat
      BY <2>1, LastIsNatural
    <3> QED
      BY <1>3, <2>2, <3>1
  <2>4. n \in 1..Last /\ path[n] \notin RecordFields \union {NoField}
    BY <2>1
  <2>5. CASE n = 1
    BY <1>2, <2>4, <2>5
  <2>6. CASE n # 1
    <3>1. n - 1 \in 1..Last /\ n - 1 \in Nat /\ n - 1 < n
      BY <2>4, <2>6, LastIsNatural
    <3>2. path[n - 1] \in RecordFields \union {NoField}
      BY <2>1, <2>3, <3>1
    <3>3. path[n] = Follows(def, path, n)
      BY <1>2, <2>4, <2>6
    <3> QED
      BY <2>4, <3>2, <3>3 DEF Follows, Declared
  <2> QED
    BY <2>5, <2>6
<1>5. ASSUME path[i] = NoField PROVE \A j \in 1..Last : i <= j => path[j] = NoField
  <2>1. PICK Bad : Bad = {j \in 1..Last : i <= j /\ path[j] # NoField}
    OBVIOUS
  <2>2. SUFFICES ASSUME Bad # {} PROVE FALSE
    BY <2>1
  <2>3. PICK n \in Bad : \A k \in Nat : k < n => k \notin Bad
    <3>1. Bad \subseteq Nat
      BY <2>1, LastIsNatural
    <3> QED
      BY <1>3, <2>2, <3>1
  <2>4. n \in 1..Last /\ i <= n /\ path[n] # NoField /\ n # i
    BY <1>5, <2>1
  <2>5. n - 1 \in 1..Last /\ n - 1 \in Nat /\ n - 1 < n /\ i <= n - 1 /\ n # 1
    BY <2>4, LastIsNatural
  <2>6. path[n - 1] = NoField
    BY <2>1, <2>3, <2>5
  <2>7. path[n] = Follows(def, path, n)
    BY <1>2, <2>4, <2>5
  <2> QED
    BY <2>4, <2>6, <2>7 DEF Follows
<1> QED
  BY <1>4, <1>5

(* What follows a field on a path is the path from that field.             *)
LEMMA PathGoesOn ==
  ASSUME NEW def, Declared(def), NEW name \in RecordFields \union {NoField},
         NEW path, path = FieldRules!Path(def, name), NEW j \in 1..Last, path[j] \in RecordFields,
         NEW rest, rest = FieldRules!Path(def, def[path[j]].notBefore)
  PROVE  \A i \in 1..(Last - j) : path[j + i] = rest[i]
<1>1. \A k \in 1..Last : path[k] = IF k = 1 THEN name ELSE Follows(def, path, k)
  BY PathIs
<1>2. \A k \in 1..Last : rest[k] = IF k = 1 THEN def[path[j]].notBefore ELSE Follows(def, rest, k)
  <2>1. PICK next : next = def[path[j]].notBefore
    OBVIOUS
  <2> QED
    BY <2>1, PathIs
<1>3. PICK Bad : Bad = {i \in 1..(Last - j) : path[j + i] # rest[i]}
  OBVIOUS
<1>4. SUFFICES ASSUME Bad # {} PROVE FALSE
  BY <1>3
<1>5. PICK n \in Bad : \A k \in Bad : n <= k
  <2>1. Bad \subseteq Nat
    BY <1>3, LastIsNatural
  <2> QED
    BY <1>4, <2>1, LeastExists
<1>6. n \in 1..(Last - j) /\ path[j + n] # rest[n] /\ n \in Nat /\ j \in Nat
      /\ j + n \in 1..Last /\ j + n # 1 /\ n \in 1..Last
  BY <1>3, LastIsNatural
<1>7. path[j + n] = Follows(def, path, j + n)
  BY <1>1, <1>6
<1>8. CASE n = 1
  <2>1. j + n - 1 = j /\ path[j] # NoField
    BY <1>6, <1>8, RulesAssumption
  <2>2. path[j + n] = def[path[j]].notBefore
    <3>1. Follows(def, path, j + n) = Follows(def, path, j + 1)
      BY <1>8
    <3>2. j + 1 - 1 = j
      BY <1>6
    <3> QED
      BY <1>7, <2>1, <3>1, <3>2 DEF Follows
  <2>3. rest[n] = def[path[j]].notBefore
    BY <1>2, <1>6, <1>8
  <2> QED
    BY <1>6, <2>2, <2>3
<1>9. CASE n # 1
  <2>1. n - 1 \in 1..(Last - j) /\ ~(n <= n - 1)
    BY <1>6, <1>9, LastIsNatural
  <2>2. n - 1 \notin Bad
    BY <1>5, <2>1
  <2>3. path[j + (n - 1)] = rest[n - 1]
    BY <1>3, <2>1, <2>2
  <2>4. path[j + n - 1] = rest[n - 1]
    BY <1>6, <2>3
  <2>5. rest[n] = Follows(def, rest, n)
    BY <1>2, <1>6, <1>9
  <2> QED
    BY <1>6, <1>7, <2>4, <2>5 DEF Follows
<1> QED
  BY <1>8, <1>9

(* A date that is not before the nearest one set on its path is not before *)
(* any: the stages that were left out do not break the chain.              *)
LEMMA DatesFollowPath ==
  ASSUME NEW def, Declared(def), NEW data,
         \A f \in RecordFields :
           data[f].n \in Int /\ data[f].n # FieldRules!Garbage /\ ~FieldRules!TooEarly(def, data, f),
         NEW f \in RecordFields, NEW g \in FieldRules!Before(def, f),
         FieldRules!IsSet(data[f]), FieldRules!IsSet(data[g])
  PROVE  data[g].n <= data[f].n
<1> DEFINE From(a) == FieldRules!Path(def, def[a].notBefore)
<1>1. PICK Bad : Bad = {k \in 1..Last : \E a \in RecordFields :
                   LET p == From(a)
                   IN  /\ p[k] # NoField /\ FieldRules!IsSet(data[a])
                       /\ FieldRules!IsSet(data[p[k]]) /\ data[a].n < data[p[k]].n}
  OBVIOUS
<1>2. ASSUME Bad # {} PROVE FALSE
  <2>1. PICK k \in Bad : \A m \in Bad : k <= m
    <3>1. Bad \subseteq Nat
      BY <1>1, LastIsNatural
    <3> QED
      BY <1>2, <3>1, LeastExists
  <2>2. PICK a \in RecordFields :
          LET p == From(a)
          IN  /\ p[k] # NoField /\ FieldRules!IsSet(data[a])
              /\ FieldRules!IsSet(data[p[k]]) /\ data[a].n < data[p[k]].n
    BY <1>1, <2>1
  <2>3. PICK p : p = From(a)
    OBVIOUS
  <2>4. k \in 1..Last /\ p[k] # NoField /\ FieldRules!IsSet(data[a])
        /\ FieldRules!IsSet(data[p[k]]) /\ data[a].n < data[p[k]].n
    BY <1>1, <2>1, <2>2, <2>3
  <2>5. def[a].notBefore \in RecordFields \union {NoField}
    BY DEF Declared
  <2>6. DOMAIN p = 1..Last
    <3>1. PICK next : next = def[a].notBefore
      OBVIOUS
    <3> QED
      BY <2>3, <3>1, PathIs
  <2>7. PICK halts : halts = {i \in 1..Last : p[i] = NoField \/ FieldRules!IsSet(data[p[i]])}
    OBVIOUS
  <2>8. k \in halts /\ halts \subseteq Nat
    BY <2>4, <2>7, LastIsNatural
  <2>9. PICK j \in halts : \A i \in halts : j <= i
    BY <2>8, LeastExists
  <2>10. FieldRules!Min(halts) = j
    <3>1. PICK m : m = FieldRules!Min(halts)
      OBVIOUS
    <3>2. m = CHOOSE x \in halts : \A y \in halts : x <= y
      BY <3>1 DEF FieldRules!Min
    <3>3. m \in halts /\ \A y \in halts : m <= y
      BY <2>9, <3>2
    <3>4. m <= j /\ j <= m /\ m \in Nat /\ j \in Nat
      BY <2>8, <2>9, <3>3
    <3> QED
      BY <3>1, <3>4
  <2>11. FieldRules!Nearest(def, data, def[a].notBefore) = p[j]
    BY <2>3, <2>6, <2>7, <2>10 DEF FieldRules!Nearest
  <2>12. j \in 1..Last /\ j <= k
    BY <2>7, <2>8, <2>9
  <2>13. p[j] # NoField /\ FieldRules!IsSet(data[p[j]]) /\ p[j] \in RecordFields
    <3>1. p[j] \in RecordFields \union {NoField} /\ (p[j] = NoField => p[k] = NoField)
      BY <2>3, <2>4, <2>5, <2>12, PathStays
    <3> QED
      BY <2>4, <2>7, <2>9, <3>1
  <2>14. data[p[j]].n <= data[a].n
    <3>1. ~FieldRules!TooEarly(def, data, a)
      OBVIOUS
    <3>2. ~(data[a].n < data[p[j]].n)
      BY <2>4, <2>11, <2>13, <3>1 DEF FieldRules!TooEarly
    <3> QED
      BY <2>13, <3>2
  <2>15. j # k
    <3>1. data[p[j]].n \in Int /\ data[a].n \in Int
      BY <2>13
    <3> QED
      BY <2>4, <2>14, <3>1
  <2>16. PICK q : q = From(p[j])
    OBVIOUS
  <2>17. k - j \in 1..(Last - j) /\ j + (k - j) = k /\ k - j \in 1..Last /\ ~(k <= k - j)
    BY <2>4, <2>12, <2>15, LastIsNatural
  <2>18. q[k - j] = p[k]
    <3> HIDE DEF From
    <3>1. \A i \in 1..(Last - j) : p[j + i] = q[i]
      BY <2>3, <2>5, <2>12, <2>13, <2>16, PathGoesOn DEF From
    <3> QED
      BY <2>17, <3>1
  <2>19. p[k] \in RecordFields
    BY <2>3, <2>4, <2>5, PathStays
  <2>20. data[p[j]].n < data[p[k]].n
    BY <2>4, <2>13, <2>14, <2>19
  <2>21. k - j \in Bad
    BY <1>1, <2>4, <2>13, <2>16, <2>17, <2>18, <2>20
  <2> QED
    BY <2>1, <2>17, <2>21
<1>3. PICK p : p = From(f)
  OBVIOUS
<1>4. PICK next : next = def[f].notBefore
  OBVIOUS
<1>5. DOMAIN p = 1..Last
  BY <1>3, <1>4, PathIs
<1>6. PICK k \in 1..Last : g = p[k] /\ g # NoField
  BY <1>3, <1>5 DEF FieldRules!Before
<1>7. g \in RecordFields
  <2>1. def[f].notBefore \in RecordFields \union {NoField}
    BY DEF Declared
  <2> QED
    BY <1>3, <1>6, <2>1, PathStays
<1>8. k \notin Bad
  BY <1>2
<1>9. ~(data[f].n < data[g].n)
  BY <1>1, <1>3, <1>6, <1>8
<1> QED
  BY <1>7, <1>9

(* The version in force is the greatest one published.                     *)
LEMMA GreatestVersion ==
  ASSUME NEW S, S \subseteq FieldVersions, S # {}
  PROVE  \E x \in S : \A y \in S : y <= x
<1>1. IsFiniteSet(S) /\ S \subseteq Nat
  BY RulesAssumption, FS_Subset
<1>2. PICK n \in Nat : ExistsSurjection(1..n, S)
  BY <1>1, FS_NatSurjection
<1>3. PICK fn : fn \in [1..n -> S] /\ \A y \in S : \E i \in 1..n : fn[i] = y
  BY <1>2 DEF ExistsSurjection, Surjection
<1>4. PICK Left : Left = {m \in 0..n : \E x \in S : \A i \in 1..(n - m) : fn[i] <= x}
  OBVIOUS
<1>5. n \in Left
  BY <1>4
<1>6. PICK m \in Left : \A k \in Left : m <= k
  <2>1. Left \subseteq Nat
    BY <1>4
  <2> QED
    BY <1>5, <2>1, LeastExists
<1>7. PICK x \in S : \A i \in 1..(n - m) : fn[i] <= x
  BY <1>4, <1>6
<1>8. m \in 0..n
  BY <1>4, <1>6
<1>9. CASE m = 0
  <2>1. \A i \in 1..n : fn[i] <= x
    BY <1>7, <1>9
  <2> QED
    BY <1>3, <2>1
<1>10. CASE m # 0
  <2>1. n - m + 1 \in 1..n /\ m - 1 \in 0..n /\ ~(m <= m - 1)
    BY <1>8, <1>10
  <2>2. PICK e \in S : e = fn[n - m + 1]
    BY <1>3, <2>1
  <2>3. e \in Nat /\ x \in Nat
    BY <1>1
  <2>4. PICK z \in S : e <= z /\ x <= z
    <3>1. CASE e <= x
      BY <2>3, <3>1
    <3>2. CASE x <= e
      BY <2>3, <3>2
    <3> QED
      BY <2>3, <3>1, <3>2
  <2>5. ASSUME NEW i \in 1..(n - (m - 1)) PROVE fn[i] <= z
    <3>1. z \in Nat /\ i \in 1..n
      BY <1>1, <1>8, <1>10
    <3>2. CASE i = n - m + 1
      BY <2>2, <2>4, <3>2
    <3>3. CASE i # n - m + 1
      <4>1. i \in 1..(n - m)
        BY <1>8, <3>3
      <4>2. fn[i] <= x /\ fn[i] \in Nat
        BY <1>1, <1>3, <1>7, <3>1, <4>1
      <4> QED
        BY <2>3, <2>4, <3>1, <4>2
    <3> QED
      BY <3>2, <3>3
  <2>6. m - 1 \in Left
    BY <1>4, <2>1, <2>5
  <2> QED
    BY <1>6, <2>1, <2>6
<1> QED
  BY <1>9, <1>10

LEMMA InForceIs ==
  ASSUME NEW st, NEW m, m = FieldRules!InForceOf(st)
  PROVE  \/ m = 0 /\ \A v \in FieldVersions : st[v] # "published"
         \/ /\ m \in FieldVersions /\ m # 0 /\ st[m] = "published"
            /\ \A v \in FieldVersions : st[v] = "published" => v <= m
<1>1. PICK up : up = {v \in FieldVersions : st[v] = "published"}
  OBVIOUS
<1>2. m = IF up = {} THEN 0 ELSE CHOOSE v \in up : \A w \in up : w <= v
  BY <1>1 DEF FieldRules!InForceOf
<1>3. CASE up = {}
  BY <1>1, <1>2, <1>3
<1>4. CASE up # {}
  <2>1. m \in up /\ \A w \in up : w <= m
    BY <1>1, <1>2, <1>4, GreatestVersion
  <2> QED
    BY <1>1, <2>1, RulesAssumption
<1> QED
  BY <1>3, <1>4

(* What a warning is due for, and is not given, was not right before.      *)
LEMMA NothingNewUnannounced ==
  ASSUME NEW old \in FieldVersions \union {0}, NEW new \in FieldVersions, NEW f \in RecordFields,
         record.data[f].n \in Int,
         old # 0 => FieldRules!Fault(FieldRulesOf[old][f], record.data[f]) \in FieldRules!Unannounced,
         f \notin FieldRules!Warnings(old, new), f \notin FieldRules!BeyondMoneyBound(new)
  PROVE  FieldRules!Fault(FieldRulesOf[new][f], record.data[f]) \in FieldRules!Unannounced
<1>1. PICK v : v = record.data[f]
  OBVIOUS
<1>2. PICK rule : rule = FieldRulesOf[new][f]
  OBVIOUS
<1>3. PICK was : was = FieldRulesOf[old][f]
  OBVIOUS
<1>4. /\ ~FieldRules!RequiredFieldWarning(new, f) /\ ~FieldRules!TypeChangeWarning(old, new, f)
      /\ ~FieldRules!NumericBoundWarning(old, new, f)
  BY DEF FieldRules!Warnings
<1>5. SUFFICES ASSUME FieldRules!Fault(rule, v) \notin FieldRules!Unannounced PROVE FALSE
  BY <1>1, <1>2
<1>6. ~(rule.required /\ (v = FieldRules!Absent \/ FieldRules!IsBlankString(v)))
  BY <1>1, <1>2, <1>4 DEF FieldRules!RequiredFieldWarning
<1>7. v # FieldRules!Absent /\ FieldRules!ValueFault(rule, v) \notin FieldRules!Unannounced
  BY <1>5, <1>6 DEF FieldRules!Fault, FieldRules!Unannounced
<1>8. old # 0 => FieldRules!Fault(was, v) \in FieldRules!Unannounced
  BY <1>1, <1>3
<1>9. old # 0 => FieldRules!ValueFault(was, v) # "type_mismatch"
  BY <1>7, <1>8 DEF FieldRules!Fault, FieldRules!Unannounced
<1>10. v.shape = FieldRules!FieldTypeJSONShape(rule.type)
  <2>1. SUFFICES ASSUME v.shape # FieldRules!FieldTypeJSONShape(rule.type) PROVE FALSE
    OBVIOUS
  <2>2. old # 0 /\ was.type = rule.type
    BY <1>1, <1>2, <1>3, <1>4, <1>7, <2>1
       DEF FieldRules!TypeChangeWarning, FieldRules!ChangedSince
  <2>3. FieldRules!ValueFault(was, v) = "type_mismatch"
    BY <2>1, <2>2 DEF FieldRules!ValueFault
  <2> QED
    BY <1>9, <2>2, <2>3
<1>11. /\ rule.type \in {"number", "money"} /\ (v.n < rule.min \/ v.n > rule.max)
       /\ FieldRules!ValueFault(rule, v) \in {"below_minimum", "above_maximum"}
  BY <1>7, <1>10 DEF FieldRules!ValueFault, FieldRules!Unannounced
<1>12. rule.type = "number"
  <2>1. SUFFICES ASSUME rule.type = "money" PROVE FALSE
    BY <1>11
  <2>2. FieldRules!Fault(rule, v) \in {"below_minimum", "above_maximum"}
    BY <1>6, <1>7, <1>11 DEF FieldRules!Fault
  <2> QED
    BY <1>1, <1>2, <2>1, <2>2 DEF FieldRules!BeyondMoneyBound
<1>13. v.shape = "number"
  BY <1>10, <1>12 DEF FieldRules!FieldTypeJSONShape
<1>14. old # 0 /\ ~FieldRules!NumericBoundChanged(was, rule)
  BY <1>1, <1>2, <1>3, <1>4, <1>11, <1>12, <1>13
     DEF FieldRules!NumericBoundWarning, FieldRules!ChangedSince
<1>15. /\ was.min \in Int /\ was.max \in Int /\ rule.min \in Int /\ rule.max \in Int
       /\ was.type \in {"string", "date", "reference", "enum", "number", "money", "bool", "i18n_text"}
  BY <1>2, <1>3, <1>14, RulesAssumption
<1>16. v.n < was.min \/ v.n > was.max
  BY <1>1, <1>11, <1>14, <1>15 DEF FieldRules!NumericBoundChanged
<1>17. v.shape = FieldRules!FieldTypeJSONShape(was.type)
  BY <1>9, <1>14 DEF FieldRules!ValueFault
<1>18. was.type \in {"number", "money"}
  BY <1>13, <1>15, <1>17 DEF FieldRules!FieldTypeJSONShape
<1>19. FieldRules!ValueFault(was, v) \in {"below_minimum", "above_maximum"}
  BY <1>16, <1>17, <1>18 DEF FieldRules!ValueFault
<1>20. FieldRules!Fault(was, v) \in {"below_minimum", "above_maximum", "required"}
  BY <1>7, <1>19 DEF FieldRules!Fault
<1> QED
  BY <1>8, <1>14, <1>20 DEF FieldRules!Unannounced

(* A stored record is valid under the definition it was saved with, and    *)
(* what the one in force would refuse of it is known.                      *)
RulesInv ==
  /\ FieldRules!TypeOK
  /\ record # FieldRules!NoRow =>
       /\ record.under \in FieldVersions
       /\ \A f \in RecordFields : record.data[f].n \in Int
       /\ FieldRules!ValidateRecord(FieldRulesOf[record.under], record.data)
  /\ FieldRules!StrandedIsAnnounced

LEMMA RulesBegin == FieldRules!Init => RulesInv
BY DEF FieldRules!Init, RulesInv, FieldRules!TypeOK, FieldRules!NoRow,
   FieldRules!StrandedIsAnnounced

(* One more version published, or one less: the one in force stays, or is  *)
(* the one published.                                                      *)
LEMMA SyncPublishes ==
  ASSUME NEW v \in FieldVersions, ruleStatus \in [FieldVersions -> {"absent", "published", "rolled_back"}],
         ruleStatus' = [ruleStatus EXCEPT ![v] = "published"]
  PROVE  FieldRules!InForceOf(ruleStatus') \in {v, FieldRules!InForce}
<1>1. PICK m : m = FieldRules!InForceOf(ruleStatus')
  OBVIOUS
<1>2. PICK k : k = FieldRules!InForceOf(ruleStatus)
  OBVIOUS
<1>3. ruleStatus'[v] = "published" /\ \A w \in FieldVersions : w # v => ruleStatus'[w] = ruleStatus[w]
  OBVIOUS
<1>4. m \in FieldVersions /\ ruleStatus'[m] = "published"
      /\ \A w \in FieldVersions : ruleStatus'[w] = "published" => w <= m
  BY <1>1, <1>3, InForceIs
<1>5. \/ k = 0 /\ \A w \in FieldVersions : ruleStatus[w] # "published"
      \/ /\ k \in FieldVersions /\ ruleStatus[k] = "published"
         /\ \A w \in FieldVersions : ruleStatus[w] = "published" => w <= k
  BY <1>2, InForceIs
<1>6. CASE m = v
  BY <1>1, <1>6
<1>7. CASE m # v
  <2>1. ruleStatus[m] = "published"
    BY <1>3, <1>4, <1>7
  <2>2. k \in FieldVersions /\ ruleStatus[k] = "published" /\ m <= k
    BY <1>4, <1>5, <2>1
  <2>3. ruleStatus'[k] = "published"
    BY <1>3, <2>2
  <2>4. k <= m
    BY <1>4, <2>2, <2>3
  <2>5. m = k
    BY <1>4, <2>2, <2>4, RulesAssumption
  <2> QED
    BY <1>1, <1>2, <2>5 DEF FieldRules!InForce
<1> QED
  BY <1>6, <1>7

LEMMA StrandedIs ==
  /\ FieldRules!StrandedIsAnnounced =
       ((record # FieldRules!NoRow /\ FieldRules!InForceOf(ruleStatus) # 0) =>
          \A f \in RecordFields \ (told \union slipped) :
            FieldRules!Fault(FieldRulesOf[FieldRules!InForceOf(ruleStatus)][f], record.data[f])
              \in FieldRules!Unannounced)
  /\ FieldRules!StrandedIsAnnounced' =
       ((record' # FieldRules!NoRow /\ FieldRules!InForceOf(ruleStatus') # 0) =>
          \A f \in RecordFields \ (told' \union slipped') :
            FieldRules!Fault(FieldRulesOf[FieldRules!InForceOf(ruleStatus')][f], record'.data[f])
              \in FieldRules!Unannounced)
BY DEF FieldRules!StrandedIsAnnounced, FieldRules!InForce, FieldRules!NoRow

LEMMA SyncKeepsRules ==
  ASSUME RulesInv, NEW v \in FieldVersions, FieldRules!Sync(v)
  PROVE  RulesInv'
<1>1. /\ ruleStatus' = [ruleStatus EXCEPT ![v] = "published"] /\ UNCHANGED record
      /\ told' = IF record = FieldRules!NoRow \/ FieldRules!InForceOf(ruleStatus') = FieldRules!InForce
                 THEN told ELSE told \union FieldRules!Warnings(FieldRules!InForce, v)
      /\ slipped' = IF record = FieldRules!NoRow \/ FieldRules!InForceOf(ruleStatus') = FieldRules!InForce
                    THEN slipped ELSE slipped \union FieldRules!BeyondMoneyBound(v)
  BY DEF FieldRules!Sync
<1>2. ruleStatus \in [FieldVersions -> {"absent", "published", "rolled_back"}]
  BY DEF RulesInv, FieldRules!TypeOK
<1>3. FieldRules!InForceOf(ruleStatus') \in {v, FieldRules!InForce}
  BY <1>1, <1>2, SyncPublishes
<1>4. FieldRules!TypeOK'
  BY <1>1 DEF RulesInv, FieldRules!TypeOK, FieldRules!Warnings, FieldRules!BeyondMoneyBound
<1>5. FieldRules!StrandedIsAnnounced'
  <2>1. SUFFICES ASSUME record # FieldRules!NoRow, FieldRules!InForceOf(ruleStatus') # 0,
                        NEW f \in RecordFields \ (told' \union slipped')
                 PROVE  FieldRules!Fault(FieldRulesOf[FieldRules!InForceOf(ruleStatus')][f], record.data[f])
                          \in FieldRules!Unannounced
    BY <1>1, StrandedIs
  <2>2. FieldRules!InForce # 0 /\ f \notin told \union slipped =>
          FieldRules!Fault(FieldRulesOf[FieldRules!InForce][f], record.data[f]) \in FieldRules!Unannounced
    BY <2>1, StrandedIs DEF RulesInv, FieldRules!InForce
  <2>3. CASE FieldRules!InForceOf(ruleStatus') = FieldRules!InForce
    BY <1>1, <2>1, <2>2, <2>3
  <2>4. CASE FieldRules!InForceOf(ruleStatus') # FieldRules!InForce
    <3>1. f \notin FieldRules!Warnings(FieldRules!InForce, v) /\ f \notin FieldRules!BeyondMoneyBound(v)
          /\ f \notin told \union slipped
      BY <1>1, <2>1, <2>4
    <3>2. FieldRules!InForce \in FieldVersions \union {0}
      BY InForceIs DEF FieldRules!InForce
    <3>3. record.data[f].n \in Int
      BY <2>1 DEF RulesInv
    <3>4. FieldRules!Fault(FieldRulesOf[v][f], record.data[f]) \in FieldRules!Unannounced
      <4>1. f \in RecordFields
        OBVIOUS
      <4>2. PICK old \in FieldVersions \union {0} : old = FieldRules!InForce
        BY <3>2
      <4>3. old # 0 => FieldRules!Fault(FieldRulesOf[old][f], record.data[f]) \in FieldRules!Unannounced
        BY <2>2, <3>1, <4>2
      <4>4. f \notin FieldRules!Warnings(old, v)
        BY <3>1, <4>2
      <4> QED
        BY <3>1, <3>3, <4>1, <4>3, <4>4, NothingNewUnannounced
    <3>5. FieldRules!InForceOf(ruleStatus') = v
      BY <1>3, <2>4
    <3> QED
      BY <3>4, <3>5
  <2> QED
    BY <2>3, <2>4
<1>6. record' # FieldRules!NoRow =>
        /\ record'.under \in FieldVersions
        /\ \A f \in RecordFields : record'.data[f].n \in Int
        /\ FieldRules!ValidateRecord(FieldRulesOf[record'.under], record'.data)
  BY <1>1 DEF RulesInv
<1> QED
  BY <1>4, <1>5, <1>6 DEF RulesInv, FieldRules!NoRow

LEMMA RollbackKeepsRules ==
  ASSUME RulesInv, NEW v \in FieldVersions, FieldRules!Rollback(v)
  PROVE  RulesInv'
<1>1. /\ ruleStatus' = [ruleStatus EXCEPT ![v] = "rolled_back"] /\ UNCHANGED <<record, told>>
      /\ slipped' = IF record = FieldRules!NoRow
                         \/ FieldRules!InForceOf(ruleStatus') \in {0, FieldRules!InForce}
                    THEN slipped
                    ELSE slipped \union FieldRules!Refused(FieldRules!InForceOf(ruleStatus'))
  BY DEF FieldRules!Rollback
<1>2. FieldRules!TypeOK'
  BY <1>1 DEF RulesInv, FieldRules!TypeOK, FieldRules!Refused
<1>3. FieldRules!StrandedIsAnnounced'
  <2>1. SUFFICES ASSUME record # FieldRules!NoRow, FieldRules!InForceOf(ruleStatus') # 0,
                        NEW f \in RecordFields \ (told' \union slipped')
                 PROVE  FieldRules!Fault(FieldRulesOf[FieldRules!InForceOf(ruleStatus')][f], record.data[f])
                          \in FieldRules!Unannounced
    BY <1>1, StrandedIs
  <2>2. CASE FieldRules!InForceOf(ruleStatus') = FieldRules!InForce
    <3>1. told' = told /\ slipped' = slipped
      BY <1>1, <2>2
    <3> QED
      BY <2>1, <2>2, <3>1, StrandedIs DEF RulesInv, FieldRules!InForce
  <2>3. CASE FieldRules!InForceOf(ruleStatus') # FieldRules!InForce
    <3>1. f \notin FieldRules!Refused(FieldRules!InForceOf(ruleStatus'))
      BY <1>1, <2>1, <2>3
    <3> QED
      BY <3>1 DEF FieldRules!Refused, FieldRules!Unannounced
  <2> QED
    BY <2>2, <2>3
<1>4. record' # FieldRules!NoRow =>
        /\ record'.under \in FieldVersions
        /\ \A f \in RecordFields : record'.data[f].n \in Int
        /\ FieldRules!ValidateRecord(FieldRulesOf[record'.under], record'.data)
  BY <1>1 DEF RulesInv
<1> QED
  BY <1>2, <1>3, <1>4 DEF RulesInv, FieldRules!NoRow

LEMMA StoreKeepsRules ==
  ASSUME RulesInv, NEW data, \A f \in RecordFields : data[f].n \in Int,
         FieldRules!InForce # 0, FieldRules!Store(data)
  PROVE  RulesInv'
<1>1. /\ FieldRules!ValidateRecord(FieldRulesOf[FieldRules!InForce], data)
      /\ record' = [data |-> data, under |-> FieldRules!InForce]
      /\ told' = {} /\ slipped' = {} /\ UNCHANGED ruleStatus
  BY DEF FieldRules!Store
<1>2. PICK v : v = FieldRules!InForce
  OBVIOUS
<1>3. v \in FieldVersions
  BY <1>2, InForceIs DEF FieldRules!InForce
<1>4. record'.data = data /\ record'.under = v
  BY <1>1, <1>2
<1>5. FieldRules!TypeOK'
  BY <1>1, <1>3, <1>4 DEF RulesInv, FieldRules!TypeOK
<1>6. FieldRules!StrandedIsAnnounced'
  <2>1. FieldRules!InForceOf(ruleStatus') = v
    BY <1>1, <1>2 DEF FieldRules!InForce
  <2>2. \A f \in RecordFields : FieldRules!Fault(FieldRulesOf[v][f], data[f]) = "none"
    BY <1>1, <1>2 DEF FieldRules!ValidateRecord
  <2>3. \A f \in RecordFields : FieldRules!Fault(FieldRulesOf[v][f], record'.data[f])
                                  \in FieldRules!Unannounced
    BY <1>4, <2>2 DEF FieldRules!Unannounced
  <2> QED
    BY <2>1, <2>3, StrandedIs
<1>7. /\ record'.under \in FieldVersions
      /\ \A f \in RecordFields : record'.data[f].n \in Int
      /\ FieldRules!ValidateRecord(FieldRulesOf[record'.under], record'.data)
  BY <1>1, <1>2, <1>3, <1>4
<1> QED
  BY <1>5, <1>6, <1>7 DEF RulesInv, FieldRules!NoRow

LEMMA RulesKept == RulesInv /\ FieldRules!Next => RulesInv'
<1> SUFFICES ASSUME RulesInv, FieldRules!Next PROVE RulesInv'
  OBVIOUS
<1>1. CASE \E v \in FieldVersions : FieldRules!Sync(v)
  BY <1>1, SyncKeepsRules
<1>2. CASE \E v \in FieldVersions : FieldRules!Rollback(v)
  BY <1>2, RollbackKeepsRules
<1>3. CASE \E data \in Submissions : FieldRules!Create(data)
  <2>1. PICK data \in Submissions : FieldRules!Create(data)
    BY <1>3
  <2>2. PICK d : d = FieldRules!ApplyDefaults(FieldRulesOf[FieldRules!InForce], data)
    OBVIOUS
  <2>3. FieldRules!InForce # 0 /\ FieldRules!Store(d)
    BY <2>1, <2>2 DEF FieldRules!Create
  <2>4. FieldRules!InForce \in FieldVersions
    BY <2>3, InForceIs DEF FieldRules!InForce
  <2>5. \A f \in RecordFields : d[f].n \in Int
    BY <2>2, <2>4, RulesAssumption DEF FieldRules!ApplyDefaults
  <2> QED
    BY <2>3, <2>5, StoreKeepsRules
<1>4. CASE \E data \in Submissions : FieldRules!Update(data)
  BY <1>4, RulesAssumption, StoreKeepsRules DEF FieldRules!Update
<1>5. CASE FieldRules!Delete
  <2>1. record' = FieldRules!NoRow /\ told' = {} /\ slipped' = {} /\ UNCHANGED ruleStatus
    BY <1>5 DEF FieldRules!Delete
  <2>2. FieldRules!TypeOK'
    BY <2>1 DEF RulesInv, FieldRules!TypeOK, FieldRules!NoRow
  <2>3. FieldRules!StrandedIsAnnounced'
    BY <2>1, StrandedIs
  <2> QED
    BY <2>1, <2>2, <2>3 DEF RulesInv, FieldRules!NoRow
<1> QED
  BY <1>1, <1>2, <1>3, <1>4, <1>5 DEF FieldRules!Next

LEMMA RulesSound == RulesInv => FieldRules!TypeOK /\ FieldRules!DatesInOrder /\ FieldRules!StrandedIsAnnounced
<1> SUFFICES ASSUME RulesInv PROVE FieldRules!DatesInOrder
  BY DEF RulesInv
<1>1. SUFFICES ASSUME record # FieldRules!NoRow,
                      \A f \in RecordFields : record.data[f].n # FieldRules!Garbage,
                      NEW f \in RecordFields,
                      NEW g \in FieldRules!Before(FieldRulesOf[record.under], f),
                      FieldRules!IsSet(record.data[f]), FieldRules!IsSet(record.data[g])
               PROVE  record.data[g].n <= record.data[f].n
  BY DEF FieldRules!DatesInOrder
<1>2. record.under \in FieldVersions /\ FieldRules!ValidateRecord(FieldRulesOf[record.under], record.data)
      /\ \A h \in RecordFields : record.data[h].n \in Int
  BY <1>1 DEF RulesInv
<1>3. Declared(FieldRulesOf[record.under])
  BY <1>2, RulesAssumption DEF Declared
<1>4. \A h \in RecordFields : ~FieldRules!TooEarly(FieldRulesOf[record.under], record.data, h)
  BY <1>2 DEF FieldRules!ValidateRecord
<1>5. \A h \in RecordFields :
        record.data[h].n \in Int /\ record.data[h].n # FieldRules!Garbage
        /\ ~FieldRules!TooEarly(FieldRulesOf[record.under], record.data, h)
  BY <1>1, <1>2, <1>4
<1>6. f \in RecordFields /\ g \in FieldRules!Before(FieldRulesOf[record.under], f)
      /\ FieldRules!IsSet(record.data[f]) /\ FieldRules!IsSet(record.data[g])
  BY <1>1
<1> QED
  BY <1>3, <1>5, <1>6, DatesFollowPath

RulesPartInv == part = "rules" => RulesInv

LEMMA RulesPartStep == RulesPartInv /\ [Next]_vars => RulesPartInv'
<1> SUFFICES ASSUME RulesPartInv, [Next]_vars, part' = "rules" PROVE RulesInv'
  BY DEF RulesPartInv
<1>1. part = "rules" /\ (FieldRules!Next \/ UNCHANGED rulesVars)
  BY DEF Next, OthersIdle, Idle, vars, RegistryStep, TenancyStep, SyncStep, BundleStep,
     SetupStep, GraphStep, RulesStep, MigrationStep
<1>2. RulesInv
  BY <1>1 DEF RulesPartInv
<1>3. CASE UNCHANGED rulesVars
  <2>1. UNCHANGED <<ruleStatus, record, told, slipped>>
    BY <1>3 DEF rulesVars
  <2>2. FieldRules!StrandedIsAnnounced'
    BY <1>2, <2>1, StrandedIs DEF RulesInv
  <2> QED
    BY <1>2, <2>1, <2>2 DEF RulesInv, FieldRules!TypeOK, FieldRules!NoRow
<1> QED
  BY <1>1, <1>2, <1>3, RulesKept

(* entity.ValidateRecord, Publish, Rollback and the warnings of a sync,    *)
(* for any versions and chains of dates: the dates of a stored record are  *)
(* in order along the whole chain, whatever stages were left out, and no   *)
(* record is stranded by a sync without a warning where one is due.        *)
THEOREM RecordsValid == Spec => []RecordsStayValid
<1>1. Init => RulesPartInv
  BY RulesBegin DEF Init, RulesPartInv
<1>2. RulesPartInv => RecordsStayValid
  BY RulesSound DEF RulesPartInv, RecordsStayValid
<1> QED
  BY <1>1, <1>2, RulesPartStep, PTL DEF Spec

-----------------------------------------------------------------------------
(* Data migrations.                                                        *)

Pages == {"idle", "ended", "conflict", "refused", "facility", "create", "list", "count", "update"}
PostedCount == "fixedasset-posted-period-count"

IsRecord(d, t) == d = [f \in MigratedFields[t] |-> d[f]]
AmountsOK(d) == \A f \in Migration!Money(d) : d[f] \in Nat \union {-1}
IsRow(x) ==
  /\ x = [type |-> x.type, version |-> x.version, data |-> x.data]
  /\ x.type \in DOMAIN MigratedFields /\ x.version \in Nat \ {0}
  /\ IsRecord(x.data, x.type) /\ AmountsOK(x.data)

(* A row as it is, and as runs have listed it.                             *)
Sights(r) ==
  {row[r]} \union {migration[c].listed[r] : c \in {a \in Operators : r \in DOMAIN migration[a].listed}}

(* A version of a row is one state of it: what was listed is what is       *)
(* stored, or the version has gone by.                                     *)
SightsAgree ==
  \A r \in DOMAIN row : \A x \in Sights(r) :
    /\ IsRow(x) /\ x.type = row[r].type /\ x.version <= row[r].version
    /\ \A y \in Sights(r) : x.version = y.version => x = y

(* What a run decides of a record does not depend on the facility it found *)
(* or was promised, and what it has said of a version stays true of it.    *)
Migrates(command, t, d, facility, counted) ==
  LET o == Migration!Transform(command, d, facility, counted)
  IN  o.act = "migrate" /\ Migration!ValidateRecord(t, o.data)
Says(e, decided) ==
  /\ e \in Commands \X (DOMAIN row) \X Nat
  /\ e[3] <= row[e[2]].version /\ row[e[2]].type = Migration!TypeFor(e[1])
  /\ e[1] # PostedCount =>
       \A x \in Sights(e[2]) : x.version = e[3] =>
         Migrates(e[1], x.type, x.data, "00000000", 0) = decided
Said(e, decided) == Says(e, decided) /\ \E x \in Sights(e[2]) : x.version = e[3]
SayingsHold ==
  /\ promised \intersect declined = {}
  /\ \A e \in promised : Says(e, TRUE)
  /\ \A e \in declined : Says(e, FALSE) /\ e[1] # PostedCount

(* What a record d says of what is meant, m.                               *)
MeansWell(d, m) ==
  /\ \A f \in Migration!Money(d) : d[f] \in {m[f], IF m[f] > 0 THEN 100 * m[f] ELSE m[f]}
  /\ "status_id" \in DOMAIN d =>
       d.status_id \in {m.status_id} \union
         {StatusCodes[k] : k \in DOMAIN StatusCodes \intersect
                                   (IF m.status_id = "" THEN {m.status} ELSE {})}
  /\ "facility_id" \in DOMAIN d => m.facility_id \in {"", d.facility_id}
  /\ "name" \in DOMAIN d => \A l \in Locales : m.name[l] \in {"", d.name[l]}
(* And what it keeps so that it goes on saying it.                         *)
Faithful(d, m, t) ==
  /\ IsRecord(m, t) /\ \A f \in Migration!Money(d) : m[f] \in Nat \union {-1}
  /\ "status_id" \in DOMAIN d /\ d.status_id = "" => d.status = m.status
  /\ "name" \in DOMAIN d => d.name = [l \in Locales |-> d.name[l]]
  /\ MeansWell(d, m)
RecordsFaithful ==
  /\ DOMAIN meant = DOMAIN row /\ meant = [r \in DOMAIN row |-> meant[r]]
  /\ \A r \in DOMAIN row : Faithful(row[r].data, meant[r], row[r].type)

(* Where a run is, it has what it needs there.                             *)
Held(c, x) ==
  /\ x = [at |-> x.at, command |-> x.command, dry |-> x.dry, facility |-> x.facility,
          todo |-> x.todo, listed |-> x.listed, counted |-> x.counted]
  /\ x.at \in Pages /\ x.dry \in BOOLEAN /\ x.counted \in Nat
  /\ DOMAIN x.listed \subseteq DOMAIN row /\ x.todo \subseteq DOMAIN x.listed
  /\ x.at \in {"facility", "create", "list", "count", "update"} =>
       /\ x.command \in Commands
       /\ \E r \in DOMAIN row : row[r].type = Migration!TypeFor(x.command)
  /\ x.at \in {"count", "update"} =>
       /\ x.todo # {}
       /\ \A r \in DOMAIN x.listed : row[r].type = Migration!TypeFor(x.command)
  /\ x.at \in {"list", "count", "update"} /\ Migration!NeedsFacility(x.command) => x.facility # ""
  /\ x.at = "create" => \A i \in DOMAIN facilities : facilities[i] # c
  /\ x.at = "update" /\ x.command = PostedCount =>
       LET r == Migration!Min(x.todo) IN
         x.listed[r].version = row[r].version => x.counted = posted[r]

MigrationTypes ==
  /\ IsFiniteSet(DOMAIN row) /\ DOMAIN row \subseteq Nat
  /\ row = [r \in DOMAIN row |-> row[r]]
  /\ posted \in [DOMAIN row -> Nat]
  /\ migration = [c \in Operators |-> migration[c]]
  /\ facilities \in Seq(Operators)
  /\ \A i, j \in DOMAIN facilities : facilities[i] = facilities[j] => i = j
  /\ saves \in 0..MaxSaves /\ migrations \in 0..MaxRuns
  /\ migrationCrashes \in 0..MaxMigrationCrashes

MigInv ==
  /\ MigrationTypes /\ SightsAgree /\ SayingsHold /\ RecordsFaithful
  /\ \A c \in Operators : Held(c, migration[c])

LEMMA MigrationConstants ==
  /\ "" \notin Operators /\ \A k \in DOMAIN StatusCodes : StatusCodes[k] # ""
  /\ MaxSaves \in Nat /\ MaxRuns \in Nat /\ MaxMigrationCrashes \in Nat
BY MigrationAssumption

LEMMA FieldsByType ==
  /\ DOMAIN MigratedFields = {"POLine", "PurchaseOrder", "RequestForQuotationQuoteLine",
                              "GoodsReceipt", "InventoryItem", "Status", "FixedAsset"}
  /\ MigratedFields["POLine"] = {"unit_price", "line_total"}
  /\ MigratedFields["PurchaseOrder"] = {"total", "status", "status_id"}
  /\ MigratedFields["RequestForQuotationQuoteLine"] = {"unit_price"}
  /\ MigratedFields["GoodsReceipt"] = {"facility_id"}
  /\ MigratedFields["InventoryItem"] = {"item_id", "facility_id"}
  /\ MigratedFields["Status"] = {"code", "plain", "name"}
  /\ MigratedFields["FixedAsset"] = {"posted_period_count"}
BY DEF MigratedFields

LEMMA MoneyOf ==
  ASSUME NEW t \in DOMAIN MigratedFields, NEW d, IsRecord(d, t)
  PROVE  /\ DOMAIN d = MigratedFields[t]
         /\ Migration!Money(d) = MigratedFields[t] \intersect {"unit_price", "line_total", "total"}
<1>1. DOMAIN d = MigratedFields[t]
  BY DEF IsRecord
<1> QED
  BY <1>1 DEF Migration!Money, Migration!MoneyFields

(* What a command writes, of a record it lists.                            *)
Written(t, d, m, o) ==
  /\ IsRecord(o, t) /\ AmountsOK(o) /\ Faithful(o, m, t)
  /\ ~\E f, g \in Migration!Money(o) : o[f] # m[f] /\ o[g] = m[g] /\ o[g] > 0
Given(t, d, m) == t \in DOMAIN MigratedFields /\ IsRecord(d, t) /\ AmountsOK(d) /\ Faithful(d, m, t)

LEMMA PolineWrites ==
  ASSUME NEW d, NEW m, Given("POLine", d, m), Migration!PolineMoney(d).act = "migrate"
  PROVE  Written("POLine", d, m, Migration!PolineMoney(d).data)
<1>1. /\ DOMAIN d = {"unit_price", "line_total"} /\ Migration!Money(d) = {"unit_price", "line_total"}
      /\ d = [f \in {"unit_price", "line_total"} |-> d[f]]
  BY FieldsByType, MoneyOf DEF Given, IsRecord
<1> DEFINE changed == {f \in Migration!Money(d) : d[f] > 0}
           n == [f \in DOMAIN d |-> IF f \in changed THEN 100 * d[f] ELSE d[f]]
<1>2. Migration!PolineMoney(d) = [act |-> "migrate", data |-> n]
      /\ \A f \in changed : d[f] % 100 # 0
  BY DEF Migration!PolineMoney, Migration!Migrate, Migration!Skip, Migration!AlreadyDone,
         Migration!Ambiguous, Migration!ToMinorUnits
<1>3. Migration!PolineMoney(d).data = n
  BY <1>2
<1>4. \A f \in {"unit_price", "line_total"} :
        d[f] \in Nat \union {-1} /\ m[f] \in Nat \union {-1}
        /\ d[f] \in {m[f], IF m[f] > 0 THEN 100 * m[f] ELSE m[f]}
  BY <1>1 DEF Given, AmountsOK, Faithful, MeansWell
<1>5. \A f \in {"unit_price", "line_total"} :
        n[f] = IF d[f] > 0 THEN 100 * d[f] ELSE d[f]
  BY <1>1
<1>6. \A f \in {"unit_price", "line_total"} : d[f] > 0 => d[f] % 100 # 0
  BY <1>1, <1>2
<1>7. \A f \in {"unit_price", "line_total"} : d[f] > 0 => d[f] = m[f]
  BY <1>4, <1>6
<1>8. IsRecord(n, "POLine")
  BY <1>1, FieldsByType DEF IsRecord
<1> HIDE DEF n
<1>9. Migration!Money(n) = {"unit_price", "line_total"} /\ DOMAIN n = {"unit_price", "line_total"}
  BY <1>8, FieldsByType, MoneyOf
<1>10. AmountsOK(n)
  BY <1>4, <1>5, <1>9 DEF AmountsOK
<1>11. Faithful(n, m, "POLine")
  <2>1. \A f \in Migration!Money(n) : n[f] \in {m[f], IF m[f] > 0 THEN 100 * m[f] ELSE m[f]}
    BY <1>4, <1>5, <1>7, <1>9
  <2> QED
    BY <1>4, <1>9, <2>1 DEF Faithful, MeansWell, Given
<1>12. ~\E f, g \in Migration!Money(n) : n[f] # m[f] /\ n[g] = m[g] /\ n[g] > 0
  BY <1>4, <1>5, <1>7, <1>9
<1> QED
  BY <1>3, <1>8, <1>10, <1>11, <1>12 DEF Written

LEMMA TotalWrites ==
  ASSUME NEW d, NEW m, Given("PurchaseOrder", d, m), Migration!OrderTotal(d).act = "migrate"
  PROVE  Written("PurchaseOrder", d, m, Migration!OrderTotal(d).data)
<1>1. /\ DOMAIN d = {"total", "status", "status_id"} /\ Migration!Money(d) = {"total"}
      /\ d = [f \in {"total", "status", "status_id"} |-> d[f]]
  BY FieldsByType, MoneyOf DEF Given, IsRecord
<1>2. PICK n : n = [d EXCEPT !.total = 100 * d.total]
  OBVIOUS
<1>3. /\ Migration!OrderTotal(d).data = n
      /\ d.total \notin {-1, 0} /\ d.total % 100 # 0
  BY <1>2 DEF Migration!OrderTotal, Migration!Migrate, Migration!Skip, Migration!AlreadyDone,
         Migration!Ambiguous, Migration!ToMinorUnits, Migration!Absent
<1>4. /\ d.total \in Nat \union {-1} /\ m.total \in Nat \union {-1}
      /\ d.total \in {m.total, IF m.total > 0 THEN 100 * m.total ELSE m.total}
  BY <1>1 DEF Given, AmountsOK, Faithful, MeansWell
<1>5. d.total = m.total /\ d.total > 0
  BY <1>3, <1>4
<1>6. /\ n = [f \in {"total", "status", "status_id"} |-> n[f]] /\ n.total = 100 * d.total
      /\ n.status = d.status /\ n.status_id = d.status_id
  BY <1>1, <1>2
<1>7. IsRecord(n, "PurchaseOrder")
  BY <1>6, FieldsByType DEF IsRecord
<1>8. Migration!Money(n) = {"total"} /\ DOMAIN n = {"total", "status", "status_id"}
  BY <1>7, FieldsByType, MoneyOf
<1>9. AmountsOK(n)
  BY <1>4, <1>5, <1>6, <1>8 DEF AmountsOK
<1>10. Faithful(n, m, "PurchaseOrder")
  <2>1. \A f \in Migration!Money(n) : n[f] \in {m[f], IF m[f] > 0 THEN 100 * m[f] ELSE m[f]}
    BY <1>4, <1>5, <1>6, <1>8
  <2>2. Faithful(d, m, "PurchaseOrder")
    BY DEF Given
  <2>3. /\ d.status_id \in {m.status_id} \union
              {StatusCodes[k] : k \in DOMAIN StatusCodes \intersect
                                        (IF m.status_id = "" THEN {m.status} ELSE {})}
        /\ d.status_id = "" => d.status = m.status
        /\ IsRecord(m, "PurchaseOrder")
    BY <1>1, <2>2 DEF Faithful, MeansWell
  <2>4. MeansWell(n, m)
    BY <1>6, <1>8, <2>1, <2>3 DEF MeansWell
  <2> QED
    BY <1>4, <1>6, <1>8, <2>3, <2>4 DEF Faithful
<1> QED
  BY <1>3, <1>7, <1>8, <1>9, <1>10 DEF Written

LEMMA QuoteWrites ==
  ASSUME NEW d, NEW m, Given("RequestForQuotationQuoteLine", d, m),
         Migration!QuoteLinePrice(d).act = "migrate"
  PROVE  Written("RequestForQuotationQuoteLine", d, m, Migration!QuoteLinePrice(d).data)
<1>1. /\ DOMAIN d = {"unit_price"} /\ Migration!Money(d) = {"unit_price"}
      /\ d = [f \in {"unit_price"} |-> d[f]]
  BY FieldsByType, MoneyOf DEF Given, IsRecord
<1>2. PICK n : n = [d EXCEPT !.unit_price = 100 * d.unit_price]
  OBVIOUS
<1>3. /\ Migration!QuoteLinePrice(d).data = n
      /\ d.unit_price # -1 /\ d.unit_price % 100 # 0
  BY <1>2 DEF Migration!QuoteLinePrice, Migration!Migrate, Migration!Skip,
         Migration!Ambiguous, Migration!ToMinorUnits, Migration!Absent
<1>4. /\ d.unit_price \in Nat \union {-1} /\ m.unit_price \in Nat \union {-1}
      /\ d.unit_price \in {m.unit_price, IF m.unit_price > 0 THEN 100 * m.unit_price ELSE m.unit_price}
  BY <1>1 DEF Given, AmountsOK, Faithful, MeansWell
<1>5. d.unit_price = m.unit_price /\ d.unit_price > 0
  BY <1>3, <1>4
<1>6. n = [f \in {"unit_price"} |-> n[f]] /\ n.unit_price = 100 * d.unit_price
  BY <1>1, <1>2
<1>7. IsRecord(n, "RequestForQuotationQuoteLine")
  BY <1>6, FieldsByType DEF IsRecord
<1>8. Migration!Money(n) = {"unit_price"} /\ DOMAIN n = {"unit_price"}
  BY <1>7, FieldsByType, MoneyOf
<1>9. AmountsOK(n)
  BY <1>4, <1>5, <1>6, <1>8 DEF AmountsOK
<1>10. Faithful(n, m, "RequestForQuotationQuoteLine")
  BY <1>1, <1>4, <1>5, <1>6, <1>8 DEF Faithful, MeansWell, Given
<1> QED
  BY <1>3, <1>7, <1>8, <1>9, <1>10 DEF Written

(* A command that writes no amounts.                                       *)
LEMMA NoAmounts ==
  ASSUME NEW t \in {"GoodsReceipt", "InventoryItem", "Status", "FixedAsset"}, NEW n, IsRecord(n, t)
  PROVE  Migration!Money(n) = {} /\ AmountsOK(n) /\ t \in DOMAIN MigratedFields
<1>1. t \in DOMAIN MigratedFields
  BY FieldsByType
<1>2. MigratedFields[t] \intersect {"unit_price", "line_total", "total"} = {}
  BY FieldsByType
<1> QED
  BY <1>1, <1>2, MoneyOf DEF AmountsOK

LEMMA StatusWrites ==
  ASSUME NEW d, NEW m, Given("PurchaseOrder", d, m), Migration!OrderStatus(d).act = "migrate"
  PROVE  Written("PurchaseOrder", d, m, Migration!OrderStatus(d).data)
<1>1. /\ DOMAIN d = {"total", "status", "status_id"} /\ Migration!Money(d) = {"total"}
      /\ d = [f \in {"total", "status", "status_id"} |-> d[f]]
  BY FieldsByType, MoneyOf DEF Given, IsRecord
<1>2. PICK n : n = [d EXCEPT !.status_id = StatusCodes[d.status], !.status = ""]
  OBVIOUS
<1>3. /\ Migration!OrderStatus(d).data = n
      /\ d.status_id = "" /\ d.status \in DOMAIN StatusCodes
  BY <1>2 DEF Migration!OrderStatus, Migration!Migrate, Migration!Skip, Migration!AlreadyDone,
         Migration!None
<1>4. Faithful(d, m, "PurchaseOrder") /\ AmountsOK(d)
  BY DEF Given
<1>5. /\ n = [f \in {"total", "status", "status_id"} |-> n[f]] /\ n.total = d.total
      /\ n.status_id = StatusCodes[d.status]
  BY <1>1, <1>2
<1>6. IsRecord(n, "PurchaseOrder")
  BY <1>5, FieldsByType DEF IsRecord
<1>7. Migration!Money(n) = {"total"} /\ DOMAIN n = {"total", "status", "status_id"}
  BY <1>6, FieldsByType, MoneyOf
<1>8. AmountsOK(n)
  BY <1>1, <1>4, <1>5, <1>7 DEF AmountsOK
<1>9. m.status_id = "" /\ d.status = m.status
  BY <1>1, <1>3, <1>4, MigrationConstants DEF Faithful, MeansWell
<1>10. n.status_id # ""
  BY <1>3, <1>5, MigrationConstants
<1>11. n.status_id \in {StatusCodes[k] : k \in DOMAIN StatusCodes \intersect
                                        (IF m.status_id = "" THEN {m.status} ELSE {})}
  BY <1>3, <1>5, <1>9
<1>12. n.total \in {m.total, IF m.total > 0 THEN 100 * m.total ELSE m.total}
  BY <1>1, <1>4, <1>5 DEF Faithful, MeansWell
<1>13. MeansWell(n, m)
  BY <1>7, <1>11, <1>12 DEF MeansWell
<1>14. Faithful(n, m, "PurchaseOrder")
  BY <1>1, <1>4, <1>7, <1>10, <1>13 DEF Faithful
<1> QED
  BY <1>3, <1>6, <1>7, <1>8, <1>14 DEF Written

LEMMA ReceiptFacilityWrites ==
  ASSUME NEW d, NEW m, NEW id, Given("GoodsReceipt", d, m),
         Migration!ReceiptFacility(d, id).act = "migrate"
  PROVE  Written("GoodsReceipt", d, m, Migration!ReceiptFacility(d, id).data)
<1>1. DOMAIN d = {"facility_id"} /\ d = [f \in {"facility_id"} |-> d[f]]
  BY FieldsByType, MoneyOf DEF Given, IsRecord
<1>2. PICK n : n = [d EXCEPT !.facility_id = id]
  OBVIOUS
<1>3. Migration!ReceiptFacility(d, id).data = n /\ d.facility_id = ""
  BY <1>2 DEF Migration!ReceiptFacility, Migration!Migrate, Migration!AlreadyDone, Migration!None
<1>4. n = [f \in {"facility_id"} |-> n[f]] /\ DOMAIN n = {"facility_id"}
  BY <1>1, <1>2
<1>5. IsRecord(n, "GoodsReceipt")
  BY <1>4, FieldsByType DEF IsRecord
<1>6. Migration!Money(n) = {} /\ AmountsOK(n)
  BY <1>5, NoAmounts
<1>7. m.facility_id = "" /\ IsRecord(m, "GoodsReceipt")
  BY <1>1, <1>3 DEF Given, Faithful, MeansWell
<1>8. Faithful(n, m, "GoodsReceipt")
  BY <1>4, <1>6, <1>7 DEF Faithful, MeansWell
<1> QED
  BY <1>3, <1>5, <1>6, <1>8 DEF Written

LEMMA StockFacilityWrites ==
  ASSUME NEW d, NEW m, NEW id, Given("InventoryItem", d, m),
         Migration!StockFacility(d, id).act = "migrate"
  PROVE  Written("InventoryItem", d, m, Migration!StockFacility(d, id).data)
<1>1. DOMAIN d = {"item_id", "facility_id"} /\ d = [f \in {"item_id", "facility_id"} |-> d[f]]
  BY FieldsByType, MoneyOf DEF Given, IsRecord
<1>2. PICK n : n = [d EXCEPT !.facility_id = id]
  OBVIOUS
<1>3. Migration!StockFacility(d, id).data = n /\ d.facility_id = ""
  BY <1>2 DEF Migration!StockFacility, Migration!Migrate, Migration!AlreadyDone, Migration!None
<1>4. n = [f \in {"item_id", "facility_id"} |-> n[f]] /\ DOMAIN n = {"item_id", "facility_id"}
  BY <1>1, <1>2
<1>5. IsRecord(n, "InventoryItem")
  BY <1>4, FieldsByType DEF IsRecord
<1>6. Migration!Money(n) = {} /\ AmountsOK(n)
  BY <1>5, NoAmounts
<1>7. m.facility_id = "" /\ IsRecord(m, "InventoryItem")
  BY <1>1, <1>3 DEF Given, Faithful, MeansWell
<1>8. Faithful(n, m, "InventoryItem")
  BY <1>4, <1>6, <1>7 DEF Faithful, MeansWell
<1> QED
  BY <1>3, <1>5, <1>6, <1>8 DEF Written

LEMMA NameI18nWrites ==
  ASSUME NEW d, NEW m, Given("Status", d, m), Migration!NameI18n(d).act = "migrate"
  PROVE  Written("Status", d, m, Migration!NameI18n(d).data)
<1>1. DOMAIN d = {"code", "plain", "name"} /\ d = [f \in {"code", "plain", "name"} |-> d[f]]
  BY FieldsByType, MoneyOf DEF Given, IsRecord
<1>2. PICK n : n = [d EXCEPT !.plain = FALSE]
  OBVIOUS
<1>3. Migration!NameI18n(d).data = n
  BY <1>2 DEF Migration!NameI18n, Migration!Migrate, Migration!AlreadyDone
<1>4. /\ n = [f \in {"code", "plain", "name"} |-> n[f]] /\ DOMAIN n = {"code", "plain", "name"}
      /\ n.name = d.name
  BY <1>1, <1>2
<1>5. IsRecord(n, "Status")
  BY <1>4, FieldsByType DEF IsRecord
<1>6. Migration!Money(n) = {} /\ AmountsOK(n)
  BY <1>5, NoAmounts
<1>7. Faithful(d, m, "Status")
  BY DEF Given
<1>8. Faithful(n, m, "Status")
  BY <1>1, <1>4, <1>6, <1>7 DEF Faithful, MeansWell
<1> QED
  BY <1>3, <1>5, <1>6, <1>8 DEF Written

LEMMA TranslationsWrite ==
  ASSUME NEW d, NEW m, Given("Status", d, m), Migration!NameTranslations(d).act = "migrate"
  PROVE  Written("Status", d, m, Migration!NameTranslations(d).data)
<1>1. DOMAIN d = {"code", "plain", "name"} /\ d = [f \in {"code", "plain", "name"} |-> d[f]]
  BY FieldsByType, MoneyOf DEF Given, IsRecord
<1> DEFINE added == {l \in Translations[d.code] : d.name[l] = ""}
<1>2. PICK names : names = [l \in Locales |-> IF l \in added THEN "module" ELSE d.name[l]]
  OBVIOUS
<1>3. PICK n : n = [d EXCEPT !.name = names]
  OBVIOUS
<1>4. Migration!NameTranslations(d).data = n
  BY <1>2, <1>3 DEF Migration!NameTranslations, Migration!Migrate, Migration!AlreadyDone,
         Migration!Skip, Migration!None
<1>5. /\ n = [f \in {"code", "plain", "name"} |-> n[f]] /\ DOMAIN n = {"code", "plain", "name"}
      /\ n.name = names
  BY <1>1, <1>3
<1>6. IsRecord(n, "Status")
  BY <1>5, FieldsByType DEF IsRecord
<1>7. Migration!Money(n) = {} /\ AmountsOK(n)
  BY <1>6, NoAmounts
<1>8. /\ IsRecord(m, "Status") /\ d.name = [l \in Locales |-> d.name[l]]
      /\ \A l \in Locales : m.name[l] \in {"", d.name[l]}
  BY <1>1 DEF Given, Faithful, MeansWell
<1>9. n.name = [l \in Locales |-> n.name[l]]
  BY <1>2, <1>5
<1>10. \A l \in Locales : m.name[l] \in {"", n.name[l]}
  BY <1>2, <1>5, <1>8
<1>11. Faithful(n, m, "Status")
  BY <1>5, <1>7, <1>8, <1>9, <1>10 DEF Faithful, MeansWell
<1> QED
  BY <1>4, <1>6, <1>7, <1>11 DEF Written

LEMMA CountWrites ==
  ASSUME NEW d, NEW m, NEW k, Given("FixedAsset", d, m),
         Migration!PostedPeriodCount(d, k).act = "migrate"
  PROVE  /\ Written("FixedAsset", d, m, Migration!PostedPeriodCount(d, k).data)
         /\ Migration!PostedPeriodCount(d, k).data.posted_period_count = k
<1>1. DOMAIN d = {"posted_period_count"} /\ d = [f \in {"posted_period_count"} |-> d[f]]
  BY FieldsByType, MoneyOf DEF Given, IsRecord
<1>2. PICK n : n = [d EXCEPT !.posted_period_count = k]
  OBVIOUS
<1>3. Migration!PostedPeriodCount(d, k).data = n
  BY <1>2 DEF Migration!PostedPeriodCount, Migration!Migrate, Migration!AlreadyDone
<1>4. /\ n = [f \in {"posted_period_count"} |-> n[f]] /\ DOMAIN n = {"posted_period_count"}
      /\ n.posted_period_count = k
  BY <1>1, <1>2
<1>5. IsRecord(n, "FixedAsset")
  BY <1>4, FieldsByType DEF IsRecord
<1>6. Migration!Money(n) = {} /\ AmountsOK(n)
  BY <1>5, NoAmounts
<1>7. Faithful(n, m, "FixedAsset")
  BY <1>4, <1>6 DEF Given, Faithful, MeansWell
<1> QED
  BY <1>3, <1>4, <1>5, <1>6, <1>7 DEF Written

(* What a command does is the transform of its name.                       *)
LEMMA TransformOf ==
  ASSUME NEW d, NEW id, NEW k
  PROVE
    /\ Migration!TypeFor("poline-money") = "POLine"
    /\ Migration!Transform("poline-money", d, id, k) = Migration!PolineMoney(d)
    /\ Migration!TypeFor("purchase-order-total") = "PurchaseOrder"
    /\ Migration!Transform("purchase-order-total", d, id, k) = Migration!OrderTotal(d)
    /\ Migration!TypeFor("quote-line-unit-price") = "RequestForQuotationQuoteLine"
    /\ Migration!Transform("quote-line-unit-price", d, id, k) = Migration!QuoteLinePrice(d)
    /\ Migration!TypeFor("purchase-order-status") = "PurchaseOrder"
    /\ Migration!Transform("purchase-order-status", d, id, k) = Migration!OrderStatus(d)
    /\ Migration!TypeFor("goods-receipt-facility") = "GoodsReceipt"
    /\ Migration!Transform("goods-receipt-facility", d, id, k) = Migration!ReceiptFacility(d, id)
    /\ Migration!TypeFor("inventory-facility") = "InventoryItem"
    /\ Migration!Transform("inventory-facility", d, id, k) = Migration!StockFacility(d, id)
    /\ Migration!TypeFor("status-name-i18n") = "Status"
    /\ Migration!Transform("status-name-i18n", d, id, k) = Migration!NameI18n(d)
    /\ Migration!TypeFor("status-name-translations") = "Status"
    /\ Migration!Transform("status-name-translations", d, id, k) = Migration!NameTranslations(d)
    /\ Migration!TypeFor("fixedasset-posted-period-count") = "FixedAsset"
    /\ Migration!Transform("fixedasset-posted-period-count", d, id, k) = Migration!PostedPeriodCount(d, k)
BY DEF Migration!Transform, Migration!TypeFor

LEMMA CommandNames ==
  \A command \in Commands : command \in
    {"poline-money", "purchase-order-total", "purchase-order-status",
     "quote-line-unit-price", "goods-receipt-facility", "inventory-facility",
     "status-name-i18n", "status-name-translations", "fixedasset-posted-period-count"}
BY MigrationAssumption

LEMMA TransformWrites ==
  ASSUME NEW command \in Commands, NEW d, NEW m, NEW id, NEW k, NEW t,
         t = Migration!TypeFor(command), Given(t, d, m),
         Migration!Transform(command, d, id, k).act = "migrate"
  PROVE  LET o == Migration!Transform(command, d, id, k).data
         IN  /\ Written(t, d, m, o)
             /\ command = PostedCount => o.posted_period_count = k
<1>1. CASE command = "poline-money"
  BY <1>1, TransformOf, PolineWrites DEF PostedCount
<1>2. CASE command = "purchase-order-total"
  BY <1>2, TransformOf, TotalWrites DEF PostedCount
<1>3. CASE command = "quote-line-unit-price"
  BY <1>3, TransformOf, QuoteWrites DEF PostedCount
<1>4. CASE command = "purchase-order-status"
  BY <1>4, TransformOf, StatusWrites DEF PostedCount
<1>5. CASE command = "goods-receipt-facility"
  BY <1>5, TransformOf, ReceiptFacilityWrites DEF PostedCount
<1>6. CASE command = "inventory-facility"
  BY <1>6, TransformOf, StockFacilityWrites DEF PostedCount
<1>7. CASE command = "status-name-i18n"
  BY <1>7, TransformOf, NameI18nWrites DEF PostedCount
<1>8. CASE command = "status-name-translations"
  BY <1>8, TransformOf, TranslationsWrite DEF PostedCount
<1>9. CASE command = "fixedasset-posted-period-count"
  BY <1>9, TransformOf, CountWrites DEF PostedCount
<1> QED
  BY <1>1, <1>2, <1>3, <1>4, <1>5, <1>6, <1>7, <1>8, <1>9, CommandNames

LEMMA DecisionsAgree ==
  ASSUME NEW command \in Commands, command # PostedCount, NEW d, NEW t, IsRecord(d, t),
         t = Migration!TypeFor(command), NEW id, NEW k,
         Migration!NeedsFacility(command) => id # ""
  PROVE  Migrates(command, t, d, id, k) = Migrates(command, t, d, "00000000", 0)
<1>1. CASE command \notin {"goods-receipt-facility", "inventory-facility"}
  <2>1. Migration!Transform(command, d, id, k) = Migration!Transform(command, d, "00000000", 0)
    BY <1>1, CommandNames DEF PostedCount, Migration!Transform
  <2> QED
    BY <2>1 DEF Migrates
<1>2. CASE command = "goods-receipt-facility"
  <2>1. t = "GoodsReceipt" /\ id # ""
    BY <1>2, TransformOf DEF Migration!NeedsFacility
  <2>2. ASSUME NEW i, i # ""
        PROVE  Migrates(command, t, d, i, k) <=> d.facility_id = ""
    <3>1. /\ Migration!Transform(command, d, i, k) = Migration!ReceiptFacility(d, i)
          /\ DOMAIN d = {"facility_id"} /\ d = [f \in {"facility_id"} |-> d[f]]
      BY <1>2, <2>1, TransformOf, FieldsByType DEF IsRecord
    <3>2. PICK n : n = [d EXCEPT !.facility_id = i]
      OBVIOUS
    <3>3. n.facility_id # "" /\ Migration!Money(n) = {}
      BY <2>2, <3>1, <3>2 DEF Migration!Money, Migration!MoneyFields
    <3>4. /\ d.facility_id # "" => Migration!ReceiptFacility(d, i).act = "done"
          /\ d.facility_id = "" => /\ Migration!ReceiptFacility(d, i).act = "migrate"
                                   /\ Migration!ReceiptFacility(d, i).data = n
      BY <3>2 DEF Migration!ReceiptFacility, Migration!Migrate, Migration!AlreadyDone, Migration!None
    <3>5. Migration!ValidateRecord(t, n)
      BY <2>1, <3>3 DEF Migration!ValidateRecord, Migration!None
    <3>6. CASE d.facility_id # ""
      <4>1. Migration!Transform(command, d, i, k).act = "done"
        BY <3>1, <3>4, <3>6
      <4> QED
        BY <3>6, <4>1 DEF Migrates
    <3>7. CASE d.facility_id = ""
      <4>1. /\ Migration!Transform(command, d, i, k).act = "migrate"
            /\ Migration!Transform(command, d, i, k).data = n
        BY <3>1, <3>4, <3>7
      <4> QED
        BY <3>5, <3>7, <4>1 DEF Migrates
    <3> QED
      BY <3>6, <3>7
  <2>3. Migrates(command, t, d, id, k) \in BOOLEAN /\ Migrates(command, t, d, "00000000", 0) \in BOOLEAN
    BY DEF Migrates
  <2>4. Migrates(command, t, d, "00000000", k) = Migrates(command, t, d, "00000000", 0)
    <3>1. Migration!Transform(command, d, "00000000", k) = Migration!Transform(command, d, "00000000", 0)
      BY ONLY <1>2 DEF Migration!Transform
    <3> QED
      BY <3>1 DEF Migrates
  <2> QED
    BY <2>1, <2>2, <2>3, <2>4
<1>3. CASE command = "inventory-facility"
  <2>1. t = "InventoryItem" /\ id # ""
    BY <1>3, TransformOf DEF Migration!NeedsFacility
  <2>2. ASSUME NEW i, i # ""
        PROVE  Migrates(command, t, d, i, k) <=> d.facility_id = ""
    <3>1. /\ Migration!Transform(command, d, i, k) = Migration!StockFacility(d, i)
          /\ DOMAIN d = {"item_id", "facility_id"} /\ d = [f \in {"item_id", "facility_id"} |-> d[f]]
      BY <1>3, <2>1, TransformOf, FieldsByType DEF IsRecord
    <3>2. PICK n : n = [d EXCEPT !.facility_id = i]
      OBVIOUS
    <3>3. n.facility_id # "" /\ Migration!Money(n) = {}
      BY <2>2, <3>1, <3>2 DEF Migration!Money, Migration!MoneyFields
    <3>4. /\ d.facility_id # "" => Migration!StockFacility(d, i).act = "done"
          /\ d.facility_id = "" => /\ Migration!StockFacility(d, i).act = "migrate"
                                   /\ Migration!StockFacility(d, i).data = n
      BY <3>2 DEF Migration!StockFacility, Migration!Migrate, Migration!AlreadyDone, Migration!None
    <3>5. Migration!ValidateRecord(t, n)
      BY <2>1, <3>3 DEF Migration!ValidateRecord, Migration!None
    <3>6. CASE d.facility_id # ""
      <4>1. Migration!Transform(command, d, i, k).act = "done"
        BY <3>1, <3>4, <3>6
      <4> QED
        BY <3>6, <4>1 DEF Migrates
    <3>7. CASE d.facility_id = ""
      <4>1. /\ Migration!Transform(command, d, i, k).act = "migrate"
            /\ Migration!Transform(command, d, i, k).data = n
        BY <3>1, <3>4, <3>7
      <4> QED
        BY <3>5, <3>7, <4>1 DEF Migrates
    <3> QED
      BY <3>6, <3>7
  <2>3. Migrates(command, t, d, id, k) \in BOOLEAN /\ Migrates(command, t, d, "00000000", 0) \in BOOLEAN
    BY DEF Migrates
  <2>4. Migrates(command, t, d, "00000000", k) = Migrates(command, t, d, "00000000", 0)
    <3>1. Migration!Transform(command, d, "00000000", k) = Migration!Transform(command, d, "00000000", 0)
      BY ONLY <1>3 DEF Migration!Transform
    <3> QED
      BY <3>1 DEF Migrates
  <2> QED
    BY <2>1, <2>2, <2>3, <2>4
<1> QED
  BY <1>1, <1>2, <1>3

(* Rows stay or get a next version; runs list what they find.              *)
RowsMove ==
  /\ DOMAIN row' = DOMAIN row /\ row' = [r \in DOMAIN row |-> row'[r]]
  /\ \A r \in DOMAIN row :
       \/ row'[r] = row[r] /\ posted'[r] = posted[r]
       \/ IsRow(row'[r]) /\ row'[r].type = row[r].type /\ row'[r].version = row[r].version + 1
  /\ \A c \in Operators : \A r \in DOMAIN migration'[c].listed :
       r \in DOMAIN row /\ migration'[c].listed[r] \in Sights(r)

LEMMA SightsMove ==
  ASSUME MigInv, RowsMove, NEW r \in DOMAIN row
  PROVE  Sights(r)' \subseteq Sights(r) \union {row'[r]}
BY DEF Sights, RowsMove

LEMMA RowIsSeen ==
  ASSUME MigInv, NEW r \in DOMAIN row
  PROVE  row[r] \in Sights(r) /\ IsRow(row[r]) /\ row[r].version \in Nat \ {0}
<1>1. row[r] \in Sights(r)
  BY DEF Sights
<1>2. IsRow(row[r])
  BY <1>1 DEF MigInv, SightsAgree
<1> QED
  BY <1>1, <1>2 DEF IsRow

LEMMA SightFacts ==
  ASSUME MigInv, NEW r \in DOMAIN row, NEW x \in Sights(r)
  PROVE  /\ IsRow(x) /\ x.type = row[r].type /\ x.version \in Nat \ {0}
         /\ x.version <= row[r].version
         /\ \A y \in Sights(r) : x.version = y.version => x = y
BY DEF MigInv, SightsAgree, IsRow

LEMMA SightsStillAgree ==
  ASSUME MigInv, RowsMove
  PROVE  SightsAgree'
<1>1. SUFFICES ASSUME NEW r \in DOMAIN row, NEW x \in Sights(r)'
               PROVE  /\ IsRow(x) /\ x.type = row'[r].type /\ x.version <= row'[r].version
                      /\ \A y \in Sights(r)' : x.version = y.version => x = y
  BY DEF SightsAgree, RowsMove, IsRow, IsRecord, AmountsOK, Migration!Money, Migration!MoneyFields
<1>2. \A z \in Sights(r)' : z \in Sights(r) \/ z = row'[r]
  BY SightsMove
<1>3. row[r] \in Sights(r) /\ IsRow(row[r]) /\ row[r].version \in Nat
  BY RowIsSeen
<1>4. CASE row'[r] = row[r]
  <2>1. \A z \in Sights(r)' : z \in Sights(r)
    BY <1>2, <1>3, <1>4
  <2> QED
    BY <1>4, <2>1, SightFacts
<1>5. CASE IsRow(row'[r]) /\ row'[r].type = row[r].type /\ row'[r].version = row[r].version + 1
  <2>1. \A z \in Sights(r) : IsRow(z) /\ z.type = row[r].type /\ z.version \in Nat /\ z.version <= row[r].version
    BY SightFacts
  <2>2. \A z \in Sights(r) : z.version <= row'[r].version /\ z.version # row'[r].version
    BY <1>3, <1>5, <2>1
  <2>3. row'[r].version <= row'[r].version
    BY <1>3, <1>5
  <2>4. \A y, z \in Sights(r) : y.version = z.version => y = z
    BY SightFacts
  <2> QED
    BY <1>2, <1>5, <2>1, <2>2, <2>3, <2>4
<1> QED
  BY <1>4, <1>5 DEF RowsMove

LEMMA SayingsKept ==
  ASSUME MigInv, RowsMove, NEW e, NEW decided, Says(e, decided)
  PROVE  Says(e, decided)'
<1>1. /\ e \in Commands \X (DOMAIN row) \X Nat /\ e[2] \in DOMAIN row /\ e[3] \in Nat
      /\ e[3] <= row[e[2]].version /\ row[e[2]].type = Migration!TypeFor(e[1])
  BY DEF Says
<1>2. PICK r \in DOMAIN row : r = e[2]
  BY <1>1
<1>3. row[r].version \in Nat
  BY RowIsSeen
<1>4. \/ row'[r] = row[r]
      \/ row'[r].type = row[r].type /\ row'[r].version = row[r].version + 1
  BY DEF RowsMove
<1>5. e[3] <= row'[r].version /\ row'[r].type = row[r].type
  BY <1>1, <1>2, <1>3, <1>4
<1>6. ASSUME e[1] # PostedCount, NEW x \in Sights(r)', x.version = e[3]
      PROVE  Migrates(e[1], x.type, x.data, "00000000", 0) = decided
  <2>1. x \in Sights(r)
    BY <1>1, <1>2, <1>3, <1>4, <1>6, SightsMove, RowIsSeen
  <2> QED
    BY <1>2, <1>6, <2>1 DEF Says
<1>7. DOMAIN row' = DOMAIN row
  BY DEF RowsMove
<1> QED
  BY <1>1, <1>2, <1>5, <1>6, <1>7 DEF Says, Migrates

LEMMA MigrationMoves ==
  ASSUME MigInv, RowsMove, MigrationTypes', RecordsFaithful',
         \A c \in Operators : Held(c, migration[c])',
         \A e \in promised' : e \in promised \/ Said(e, TRUE),
         \A e \in declined' : e \in declined \/ (Said(e, FALSE) /\ e[1] # PostedCount)
  PROVE  MigInv'
<1>1. \A e \in promised' : Says(e, TRUE)
  BY DEF MigInv, SayingsHold, Said
<1>2. \A e \in declined' : Says(e, FALSE) /\ e[1] # PostedCount
  BY DEF MigInv, SayingsHold, Said
<1>3. ASSUME NEW e \in promised', e \in declined'
      PROVE  FALSE
  <2>1. CASE e \in promised /\ e \in declined
    BY <2>1 DEF MigInv, SayingsHold
  <2>2. CASE Said(e, TRUE) \/ Said(e, FALSE)
    <3>1. PICK x \in Sights(e[2]) : x.version = e[3]
      BY <2>2 DEF Said
    <3> QED
      BY <1>1, <1>2, <1>3, <3>1 DEF Says
  <2> QED
    BY <1>3, <2>1, <2>2
<1>4. SayingsHold'
  <2>1. /\ \A e \in promised' : Says(e, TRUE)'
        /\ \A e \in declined' : Says(e, FALSE)' /\ e[1] # PostedCount
    BY <1>1, <1>2, SayingsKept
  <2> QED
    BY <1>3, <2>1 DEF SayingsHold, PostedCount
<1> QED
  BY <1>4, SightsStillAgree DEF MigInv

(* A run that a step is not about.                                         *)
LEMMA StillHeld ==
  ASSUME MigInv, RowsMove, NEW c \in Operators, migration'[c] = migration[c],
         facilities' = facilities \/ \E b \in Operators \ {c} : facilities' = Append(facilities, b)
  PROVE  Held(c, migration[c])'
<1>1. PICK x : x = migration[c]
  OBVIOUS
<1>2. Held(c, x)
  BY <1>1 DEF MigInv
<1>3. \A r \in DOMAIN row : row'[r].type = row[r].type
  BY DEF RowsMove
<1>4. x.at = "create" => \A i \in DOMAIN facilities' : facilities'[i] # c
  <2>1. facilities \in Seq(Operators)
    BY DEF MigInv, MigrationTypes
  <2> QED
    BY <1>2, <2>1 DEF Held
<1>5. ASSUME x.at = "update" /\ x.command = PostedCount,
             x.listed[Migration!Min(x.todo)].version = row'[Migration!Min(x.todo)].version
      PROVE  x.counted = posted'[Migration!Min(x.todo)]
  <2>1. x.todo # {} /\ x.todo \subseteq DOMAIN x.listed /\ DOMAIN x.listed \subseteq DOMAIN row
    BY <1>2, <1>5 DEF Held
  <2>2. x.todo \subseteq DOMAIN row /\ DOMAIN row \subseteq Nat /\ IsFiniteSet(DOMAIN row)
    BY <2>1 DEF MigInv, MigrationTypes
  <2>3. IsFiniteSet(x.todo) /\ x.todo \subseteq Nat
    BY <2>2, FS_Subset
  <2>4. \E r \in x.todo : \A s \in x.todo : r <= s
    BY <2>1, <2>3, LeastExists
  <2>5. PICK r \in x.todo : r = Migration!Min(x.todo)
    BY <2>4 DEF Migration!Min
  <2>6. r \in DOMAIN row /\ x.listed[r] \in Sights(r)
    BY <1>1, <2>1 DEF Sights
  <2>7. x.listed[r].version \in Nat /\ x.listed[r].version <= row[r].version /\ row[r].version \in Nat
    BY <2>6, SightFacts, RowIsSeen
  <2>8. row'[r] = row[r] /\ posted'[r] = posted[r]
    BY <1>5, <2>5, <2>6, <2>7 DEF RowsMove
  <2> QED
    BY <1>2, <1>5, <2>5, <2>8 DEF Held
<1>6. DOMAIN row' = DOMAIN row
  BY DEF RowsMove
<1>7. Held(c, x)'
  BY <1>2, <1>3, <1>4, <1>5, <1>6 DEF Held, PostedCount
<1> QED
  BY <1>1, <1>7

LEMMA RunMoves ==
  ASSUME MigInv, NEW c \in Operators, NEW n, migration' = [migration EXCEPT ![c] = n],
         UNCHANGED <<row, meant, posted, saves>>,
         \/ facilities' = facilities
         \/ facilities' = Append(facilities, c) /\ migration[c].at = "create",
         Held(c, n)',
         \A r \in DOMAIN n.listed : r \in DOMAIN row /\ n.listed[r] \in Sights(r),
         migrations' \in 0..MaxRuns, migrationCrashes' \in 0..MaxMigrationCrashes,
         \A e \in promised' : e \in promised \/ Said(e, TRUE),
         \A e \in declined' : e \in declined \/ (Said(e, FALSE) /\ e[1] # PostedCount)
  PROVE  MigInv'
<1>1. /\ migration' = [b \in Operators |-> migration'[b]] /\ migration'[c] = n
      /\ \A b \in Operators : b # c => migration'[b] = migration[b]
  BY DEF MigInv, MigrationTypes
<1>2. RowsMove
  <2>1. \A b \in Operators : \A r \in DOMAIN migration'[b].listed :
          r \in DOMAIN row /\ migration'[b].listed[r] \in Sights(r)
    <3>1. ASSUME NEW b \in Operators, b # c, NEW r \in DOMAIN migration[b].listed
          PROVE  r \in DOMAIN row /\ migration[b].listed[r] \in Sights(r)
      BY <3>1 DEF MigInv, Held, Sights
    <3> QED
      BY <1>1, <3>1
  <2>2. row = [r \in DOMAIN row |-> row[r]]
    BY DEF MigInv, MigrationTypes
  <2> QED
    BY <2>1, <2>2 DEF RowsMove
<1>3. MigrationTypes'
  <2>1. /\ facilities \in Seq(Operators)
        /\ \A i, j \in DOMAIN facilities : facilities[i] = facilities[j] => i = j
    BY DEF MigInv, MigrationTypes
  <2>2. migration[c].at = "create" => \A i \in DOMAIN facilities : facilities[i] # c
    BY DEF MigInv, Held
  <2>3. CASE facilities' = facilities
    BY <1>1, <2>1, <2>3 DEF MigInv, MigrationTypes
  <2>4. CASE facilities' = Append(facilities, c) /\ migration[c].at = "create"
    <3>1. \A i \in DOMAIN facilities : facilities[i] # c
      BY <2>2, <2>4
    <3>2. /\ facilities' \in Seq(Operators)
          /\ \A i, j \in DOMAIN facilities' : facilities'[i] = facilities'[j] => i = j
      BY <2>1, <2>4, <3>1
    <3> QED
      BY <1>1, <3>2 DEF MigInv, MigrationTypes
  <2> QED
    BY <2>3, <2>4
<1>4. RecordsFaithful'
  BY DEF MigInv, RecordsFaithful, Faithful, MeansWell, IsRecord, Migration!Money, Migration!MoneyFields
<1>5. \A b \in Operators : Held(b, migration[b])'
  <2>1. Held(c, migration[c])'
    BY <1>1
  <2>2. ASSUME NEW b \in Operators, b # c
        PROVE  Held(b, migration[b])'
    BY <1>1, <1>2, <2>2, StillHeld
  <2> QED
    BY <2>1, <2>2
<1> QED
  BY <1>2, <1>3, <1>4, <1>5, MigrationMoves

(* What a run holds, and where it is among the records it listed.          *)
LEMMA RunHolds ==
  ASSUME MigInv, NEW c \in Operators
  PROVE  /\ Held(c, migration[c])
         /\ \A r \in DOMAIN migration[c].listed :
              r \in DOMAIN row /\ migration[c].listed[r] \in Sights(r)
BY DEF MigInv, Held, Sights

LEMMA CurrentRecord ==
  ASSUME MigInv, NEW c \in Operators, migration[c].at \in {"count", "update"}
  PROVE  LET r == Migration!Current(c) IN
           /\ r \in migration[c].todo /\ r \in DOMAIN row /\ r \in DOMAIN migration[c].listed
           /\ migration[c].listed[r] \in Sights(r)
           /\ row[r].type = Migration!TypeFor(migration[c].command)
           /\ Migration!Current(c) = Migration!Min(migration[c].todo)
<1>1. PICK x : x = migration[c]
  OBVIOUS
<1>2. Held(c, x) /\ x.at \in {"count", "update"}
  BY <1>1 DEF MigInv
<1>3. /\ x.todo # {} /\ x.todo \subseteq DOMAIN x.listed /\ DOMAIN x.listed \subseteq DOMAIN row
      /\ \A r \in DOMAIN x.listed : row[r].type = Migration!TypeFor(x.command)
  BY <1>2 DEF Held
<1>4. x.todo \subseteq DOMAIN row /\ DOMAIN row \subseteq Nat /\ IsFiniteSet(DOMAIN row)
  BY <1>3 DEF MigInv, MigrationTypes
<1>5. IsFiniteSet(x.todo) /\ x.todo \subseteq Nat
  BY <1>4, FS_Subset
<1>6. \E r \in x.todo : \A s \in x.todo : r <= s
  BY <1>3, <1>5, LeastExists
<1>7. PICK r \in x.todo : r = Migration!Min(x.todo)
  BY <1>6 DEF Migration!Min
<1>8. Migration!Current(c) = Migration!Min(x.todo)
  BY <1>1 DEF Migration!Current
<1>9. r \in DOMAIN x.listed
  BY <1>3
<1>10. x.listed[r] \in Sights(r)
  BY <1>1, <1>9 DEF Sights
<1> QED
  BY <1>1, <1>3, <1>4, <1>7, <1>8, <1>9, <1>10

LEMMA StartRunKeeps ==
  ASSUME MigInv, NEW c \in Operators, Migration!StartRun(c)
  PROVE  MigInv'
<1>1. PICK command \in Commands, dry \in BOOLEAN :
        /\ \E r \in Migration!Records : row[r].type = Migration!TypeFor(command)
        /\ migration' = [migration EXCEPT ![c] = [Migration!Idle EXCEPT !.command = command,
             !.dry = dry, !.at = IF Migration!NeedsFacility(command) THEN "facility" ELSE "list"]]
  BY DEF Migration!StartRun
<1>e. PICK at : at = IF Migration!NeedsFacility(command) THEN "facility" ELSE "list"
  OBVIOUS
<1>2. PICK n : n = [Migration!Idle EXCEPT !.command = command, !.dry = dry, !.at = at]
  OBVIOUS
<1>3. n = [at |-> at, command |-> command, dry |-> dry, facility |-> "", todo |-> {},
           listed |-> <<>>, counted |-> 0]
  BY <1>2 DEF Migration!Idle, Migration!None
<1>4. /\ UNCHANGED <<row, meant, posted, facilities, promised, declined, saves, migrationCrashes>>
      /\ migrations' = migrations + 1 /\ migrations < MaxRuns
  BY DEF Migration!StartRun
<1>a. /\ n.listed = <<>> /\ n.todo = {} /\ n.command = command /\ n.dry = dry /\ n.counted = 0
      /\ n.at = at
      /\ n = [at |-> n.at, command |-> n.command, dry |-> n.dry, facility |-> n.facility,
              todo |-> n.todo, listed |-> n.listed, counted |-> n.counted]
  BY <1>3
<1>c. /\ n.at \in {"facility", "list"}
      /\ n.at = "list" => Migration!NeedsFacility(n.command) = FALSE
  BY <1>a, <1>e DEF Migration!NeedsFacility
<1>d. DOMAIN n.listed = {}
  BY <1>a
<1>5. Held(c, n)'
  <2>1. \E r \in DOMAIN row : row[r].type = Migration!TypeFor(n.command)
    BY <1>1, <1>a DEF Migration!Records
  <2>2. n.at \notin {"count", "update", "create"} /\ n.at \in Pages
    BY <1>c DEF Pages
  <2>3. (\E r \in DOMAIN row : row[r].type = Migration!TypeFor(n.command))'
    BY <1>4, <2>1
  <2>4. /\ n.dry \in BOOLEAN /\ n.counted \in Nat /\ n.command \in Commands
        /\ DOMAIN n.listed \subseteq (DOMAIN row)' /\ n.todo \subseteq DOMAIN n.listed
    BY <1>a, <1>d
  <2> QED
    BY <1>a, <1>c, <2>2, <2>3, <2>4 DEF Held
<1>6. \A r \in DOMAIN n.listed : r \in DOMAIN row /\ n.listed[r] \in Sights(r)
  BY <1>d
<1>b. migrations \in 0..MaxRuns /\ migrationCrashes \in 0..MaxMigrationCrashes /\ MaxRuns \in Nat
  BY MigrationConstants DEF MigInv, MigrationTypes
<1>7. migrations' \in 0..MaxRuns /\ migrationCrashes' \in 0..MaxMigrationCrashes
  BY <1>4, <1>b
<1>8. migration' = [migration EXCEPT ![c] = n]
  BY <1>1, <1>2, <1>e
<1> QED
  BY <1>4, <1>5, <1>6, <1>7, <1>8, RunMoves

(* A run at its next page, with what it has listed.                        *)
LEMMA RunGoes ==
  ASSUME MigInv, NEW c \in Operators, NEW n, migration' = [migration EXCEPT ![c] = n],
         Held(c, n)', n.listed = migration[c].listed,
         UNCHANGED <<row, meant, posted, saves, promised, declined, migrations, migrationCrashes>>,
         \/ facilities' = facilities
         \/ facilities' = Append(facilities, c) /\ migration[c].at = "create"
  PROVE  MigInv'
<1>1. \A r \in DOMAIN n.listed : r \in DOMAIN row /\ n.listed[r] \in Sights(r)
  BY RunHolds
<1>2. migrations' \in 0..MaxRuns /\ migrationCrashes' \in 0..MaxMigrationCrashes
  BY DEF MigInv, MigrationTypes
<1> QED
  BY <1>1, <1>2, RunMoves

LEMMA FindFacilityKeeps ==
  ASSUME MigInv, NEW c \in Operators, Migration!FindFacility(c)
  PROVE  MigInv'
<1>1. PICK q : q = migration[c]
  OBVIOUS
<1>2. Held(c, q) /\ q.at = "facility"
  BY <1>1, RunHolds DEF Migration!FindFacility
<1>3. UNCHANGED <<row, meant, posted, facilities, promised, declined, saves, migrations, migrationCrashes>>
  BY DEF Migration!FindFacility
<1>4. facilities \in Seq(Operators)
  BY DEF MigInv, MigrationTypes
<1>5. PICK n : /\ migration' = [migration EXCEPT ![c] = n]
               /\ n = CASE facilities # <<>> -> [q EXCEPT !.at = "list", !.facility = Head(facilities)]
                        [] facilities = <<>> /\ q.dry -> [q EXCEPT !.at = "list", !.facility = "00000000"]
                        [] OTHER -> [q EXCEPT !.at = "create"]
  BY <1>1 DEF Migration!FindFacility, Migration!ZeroID
<1>6. CASE facilities # <<>>
  <2>a. PICK h \in Operators : h = Head(facilities)
    BY <1>4, <1>6
  <2>b. n = [q EXCEPT !.at = "list", !.facility = Head(facilities)]
    BY ONLY <1>5, <1>6, Zenon
  <2>c. n = [q EXCEPT !.at = "list", !.facility = h]
    BY ONLY <2>a, <2>b, Zenon
  <2>1. n = [at |-> "list", command |-> q.command, dry |-> q.dry, facility |-> h,
             todo |-> q.todo, listed |-> q.listed, counted |-> q.counted]
    BY <1>2, <2>c DEF Held
  <2>2. h # ""
    BY MigrationConstants
  <2>3. Held(c, n)'
    BY <1>2, <1>3, <2>1, <2>2 DEF Held, Pages
  <2>4. n.listed = migration[c].listed
    BY <1>1, <2>1
  <2> QED
    BY <1>3, <1>5, <2>3, <2>4, RunGoes
<1>7. CASE facilities = <<>> /\ q.dry
  <2>1. n = [at |-> "list", command |-> q.command, dry |-> q.dry, facility |-> "00000000",
             todo |-> q.todo, listed |-> q.listed, counted |-> q.counted]
    BY <1>2, <1>5, <1>7 DEF Held
  <2>2. Held(c, n)'
    BY <1>2, <1>3, <2>1 DEF Held, Pages
  <2>3. n.listed = migration[c].listed
    BY <1>1, <2>1
  <2> QED
    BY <1>3, <1>5, <2>2, <2>3, RunGoes
<1>8. CASE facilities = <<>> /\ ~q.dry
  <2>1. n = [at |-> "create", command |-> q.command, dry |-> q.dry, facility |-> q.facility,
             todo |-> q.todo, listed |-> q.listed, counted |-> q.counted]
    BY <1>2, <1>5, <1>8 DEF Held
  <2>2. Held(c, n)'
    BY <1>2, <1>3, <1>8, <2>1 DEF Held, Pages
  <2>3. n.listed = migration[c].listed
    BY <1>1, <2>1
  <2> QED
    BY <1>3, <1>5, <2>2, <2>3, RunGoes
<1> QED
  BY <1>6, <1>7, <1>8

LEMMA CreateFacilityKeeps ==
  ASSUME MigInv, NEW c \in Operators, Migration!CreateFacility(c)
  PROVE  MigInv'
<1>1. PICK q : q = migration[c]
  OBVIOUS
<1>2. Held(c, q) /\ q.at = "create"
  BY <1>1, RunHolds DEF Migration!CreateFacility
<1>3. /\ UNCHANGED <<row, meant, posted, promised, declined, saves, migrations, migrationCrashes>>
      /\ facilities' = Append(facilities, c)
      /\ migration' = [migration EXCEPT ![c].at = "list", ![c].facility = c]
  BY DEF Migration!CreateFacility
<1>4. PICK n : n = [q EXCEPT !.at = "list", !.facility = c]
  OBVIOUS
<1>5. migration' = [migration EXCEPT ![c] = n]
  BY <1>1, <1>3, <1>4 DEF MigInv, MigrationTypes
<1>6. n = [at |-> "list", command |-> q.command, dry |-> q.dry, facility |-> c,
           todo |-> q.todo, listed |-> q.listed, counted |-> q.counted]
  BY <1>2, <1>4 DEF Held
<1>7. c # ""
  BY MigrationConstants
<1>8. Held(c, n)'
  BY <1>2, <1>3, <1>6, <1>7 DEF Held, Pages
<1>9. n.listed = migration[c].listed
  BY <1>1, <1>6
<1> QED
  BY <1>1, <1>2, <1>3, <1>5, <1>8, <1>9, RunGoes

LEMMA ListKeeps ==
  ASSUME MigInv, NEW c \in Operators, Migration!List(c)
  PROVE  MigInv'
<1>1. PICK q : q = migration[c]
  OBVIOUS
<1>2. Held(c, q) /\ q.at = "list"
  BY <1>1, RunHolds DEF Migration!List
<1>3. PICK mine : mine = {r \in DOMAIN row : row[r].type = Migration!TypeFor(q.command)}
  OBVIOUS
<1>4. PICK found : found = [r \in mine |-> row[r]]
  OBVIOUS
<1>5. PICK at : at = Migration!Loop(q.command)
  OBVIOUS
<1>6. /\ UNCHANGED <<row, meant, posted, facilities, promised, declined, saves, migrations, migrationCrashes>>
      /\ migration' = [migration EXCEPT ![c].at = at, ![c].todo = mine, ![c].listed = found]
  BY <1>1, <1>3, <1>4, <1>5 DEF Migration!List, Migration!Records
<1>7. PICK n : n = [q EXCEPT !.at = at, !.todo = mine, !.listed = found]
  OBVIOUS
<1>8. migration' = [migration EXCEPT ![c] = n]
  BY <1>1, <1>6, <1>7 DEF MigInv, MigrationTypes
<1>9. n = [at |-> at, command |-> q.command, dry |-> q.dry, facility |-> q.facility,
           todo |-> mine, listed |-> found, counted |-> q.counted]
  BY <1>2, <1>7 DEF Held
<1>10. at \in {"count", "update"} /\ (at = "update" => q.command # PostedCount)
  BY <1>5 DEF Migration!Loop, PostedCount
<1>11. Held(c, n)'
  <2>1. DOMAIN found = mine /\ mine \subseteq DOMAIN row /\ mine # {}
    BY <1>2, <1>3, <1>4 DEF Held
  <2>2. \A r \in mine : row[r].type = Migration!TypeFor(q.command)
    BY <1>3
  <2> QED
    BY <1>2, <1>6, <1>9, <1>10, <2>1, <2>2 DEF Held, Pages
<1>12. \A r \in DOMAIN n.listed : r \in DOMAIN row /\ n.listed[r] \in Sights(r)
  BY <1>3, <1>4, <1>9 DEF Sights
<1>13. migrations' \in 0..MaxRuns /\ migrationCrashes' \in 0..MaxMigrationCrashes
  BY <1>6 DEF MigInv, MigrationTypes
<1> QED
  BY <1>6, <1>8, <1>11, <1>12, <1>13, RunMoves

LEMMA CountPostedKeeps ==
  ASSUME MigInv, NEW c \in Operators, Migration!CountPosted(c)
  PROVE  MigInv'
<1>1. PICK q : q = migration[c]
  OBVIOUS
<1>2. Held(c, q) /\ q.at = "count"
  BY <1>1, RunHolds DEF Migration!CountPosted
<1>3. PICK r \in DOMAIN row : r = Migration!Current(c) /\ r = Migration!Min(q.todo)
  BY <1>1, <1>2, CurrentRecord
<1>4. PICK k \in Nat : k = posted[r]
  BY DEF MigInv, MigrationTypes
<1>5. /\ UNCHANGED <<row, meant, posted, facilities, promised, declined, saves, migrations, migrationCrashes>>
      /\ migration' = [migration EXCEPT ![c].at = "update", ![c].counted = k]
  BY <1>3, <1>4 DEF Migration!CountPosted
<1>6. PICK n : n = [q EXCEPT !.at = "update", !.counted = k]
  OBVIOUS
<1>7. migration' = [migration EXCEPT ![c] = n]
  BY <1>1, <1>5, <1>6 DEF MigInv, MigrationTypes
<1>8. n = [at |-> "update", command |-> q.command, dry |-> q.dry, facility |-> q.facility,
           todo |-> q.todo, listed |-> q.listed, counted |-> k]
  BY <1>2, <1>6 DEF Held
<1>9. Held(c, n)'
  BY <1>2, <1>3, <1>4, <1>5, <1>8 DEF Held, Pages
<1>10. n.listed = migration[c].listed
  BY <1>1, <1>8
<1> QED
  BY <1>5, <1>7, <1>9, <1>10, RunGoes

(* A run goes on to its next record, or ends.                              *)
LEMMA GoesOn ==
  ASSUME MigInv, NEW c \in Operators, migration[c].at = "update", Migration!GoOn(c),
         DOMAIN row' = DOMAIN row, \A r \in DOMAIN row : row'[r].type = row[r].type
  PROVE  \E n : migration' = [migration EXCEPT ![c] = n] /\ Held(c, n)'
                /\ n.listed = migration[c].listed
<1>1. PICK q : q = migration[c]
  OBVIOUS
<1>2. Held(c, q) /\ q.at = "update"
  BY <1>1, RunHolds
<1>3. PICK left : left = q.todo \ {Migration!Current(c)}
  OBVIOUS
<1>4. PICK at : at = IF left = {} THEN "ended" ELSE Migration!Loop(q.command)
  OBVIOUS
<1>5. migration' = [migration EXCEPT ![c].todo = left, ![c].counted = 0, ![c].at = at]
  BY <1>1, <1>3, <1>4 DEF Migration!GoOn
<1>6. PICK n : n = [q EXCEPT !.todo = left, !.counted = 0, !.at = at]
  OBVIOUS
<1>7. migration' = [migration EXCEPT ![c] = n]
  BY <1>1, <1>5, <1>6 DEF MigInv, MigrationTypes
<1>8. n = [at |-> at, command |-> q.command, dry |-> q.dry, facility |-> q.facility,
           todo |-> left, listed |-> q.listed, counted |-> 0]
  BY <1>2, <1>6 DEF Held
<1>9. /\ at \in {"ended", "count", "update"} /\ (at = "update" => q.command # PostedCount)
      /\ (at # "ended" => left # {})
  BY <1>4 DEF Migration!Loop, PostedCount
<1>10. Held(c, n)'
  <2>1. (\E r \in DOMAIN row : row[r].type = Migration!TypeFor(q.command))'
    BY <1>2 DEF Held
  <2>2. \A r \in DOMAIN q.listed : row'[r].type = Migration!TypeFor(q.command)
    BY <1>2 DEF Held
  <2>3. left \subseteq DOMAIN q.listed /\ DOMAIN q.listed \subseteq DOMAIN row'
    BY <1>2, <1>3 DEF Held
  <2> QED
    BY <1>2, <1>8, <1>9, <2>1, <2>2, <2>3 DEF Held, Pages
<1>11. n.listed = migration[c].listed
  BY <1>1, <1>8
<1> QED
  BY <1>7, <1>10, <1>11

(* What a run decides of the record it is at.                              *)
LEMMA Decides ==
  ASSUME MigInv, NEW c \in Operators, migration[c].at = "update",
         NEW q, q = migration[c], NEW r, r = Migration!Current(c), NEW x, x = Migration!Listed(c)
  PROVE  /\ r \in DOMAIN row /\ x \in Sights(r) /\ IsRow(x) /\ x.version <= row[r].version
         /\ q.command \in Commands /\ q.counted \in Nat
         /\ row[r].type = Migration!TypeFor(q.command) /\ x.type = row[r].type
         /\ Migration!NeedsFacility(q.command) => q.facility # ""
         /\ Migration!Entry(c) = <<q.command, r, x.version>>
         /\ Migration!Outcome(c) = Migration!Transform(q.command, x.data, q.facility, q.counted)
         /\ Migration!WouldMigrate(c) <=> Migrates(q.command, x.type, x.data, q.facility, q.counted)
<1>1. /\ r \in DOMAIN row /\ r \in DOMAIN q.listed /\ q.listed[r] \in Sights(r)
      /\ row[r].type = Migration!TypeFor(q.command)
  BY CurrentRecord
<1>2. x = q.listed[r]
  BY DEF Migration!Listed
<1>3. x \in Sights(r) /\ IsRow(x) /\ x.type = row[r].type /\ x.version <= row[r].version
  BY <1>1, <1>2, SightFacts
<1>4. Held(c, q)
  BY RunHolds
<1>5. /\ q.command \in Commands /\ q.counted \in Nat
      /\ Migration!NeedsFacility(q.command) => q.facility # ""
  BY <1>4 DEF Held
<1>6. Migration!Entry(c) = <<q.command, r, x.version>>
  BY DEF Migration!Entry
<1>7. Migration!Outcome(c) = Migration!Transform(q.command, x.data, q.facility, q.counted)
  BY DEF Migration!Outcome
<1>8. Migration!WouldMigrate(c) <=> Migrates(q.command, x.type, x.data, q.facility, q.counted)
  BY <1>3, <1>7 DEF Migration!WouldMigrate, Migrates
<1> QED
  BY <1>1, <1>3, <1>5, <1>6, <1>7, <1>8

LEMMA DecisionIsSaid ==
  ASSUME MigInv, NEW c \in Operators, migration[c].at = "update", NEW decided \in BOOLEAN,
         Migration!WouldMigrate(c) <=> decided
  PROVE  Said(Migration!Entry(c), decided)
<1>1. PICK q : q = migration[c]
  OBVIOUS
<1>2. PICK r : r = Migration!Current(c)
  OBVIOUS
<1>3. PICK x : x = Migration!Listed(c)
  OBVIOUS
<1>4. /\ r \in DOMAIN row /\ x \in Sights(r) /\ IsRow(x) /\ x.version <= row[r].version
      /\ q.command \in Commands
      /\ row[r].type = Migration!TypeFor(q.command) /\ x.type = row[r].type
      /\ Migration!NeedsFacility(q.command) => q.facility # ""
      /\ Migration!WouldMigrate(c) <=> Migrates(q.command, x.type, x.data, q.facility, q.counted)
  BY <1>1, <1>2, <1>3, Decides
<1>5. PICK e : e = <<q.command, r, x.version>>
  OBVIOUS
<1>6. Migration!Entry(c) = e
  BY ONLY <1>1, <1>2, <1>3, <1>5 DEF Migration!Entry
<1>7. ASSUME q.command # PostedCount, NEW y \in Sights(r), y.version = x.version
      PROVE  Migrates(q.command, y.type, y.data, "00000000", 0) = decided
  <2>1. y = x
    BY <1>4, <1>7, SightFacts
  <2>2. IsRecord(x.data, x.type)
    BY <1>4 DEF IsRow
  <2>3. Migrates(q.command, x.type, x.data, q.facility, q.counted)
          = Migrates(q.command, x.type, x.data, "00000000", 0)
    BY <1>4, <1>7, <2>2, DecisionsAgree
  <2>4. Migrates(q.command, x.type, x.data, q.facility, q.counted) \in BOOLEAN
    BY DEF Migrates
  <2> QED
    BY <1>4, <2>1, <2>3, <2>4
<1>8. x.version \in Nat
  BY <1>4 DEF IsRow
<1>9. Said(e, decided)
  BY <1>4, <1>5, <1>7, <1>8 DEF Says, Said
<1> QED
  BY <1>6, <1>9

(* A count is always one the definition allows.                            *)
LEMMA CountIsValid ==
  ASSUME NEW d, IsRecord(d, "FixedAsset"), NEW id, NEW k,
         Migration!Transform(PostedCount, d, id, k).act # "done"
  PROVE  Migrates(PostedCount, "FixedAsset", d, id, k)
<1>1. Migration!Transform(PostedCount, d, id, k) = Migration!PostedPeriodCount(d, k)
  BY TransformOf DEF PostedCount
<1>2. PICK n : n = [d EXCEPT !.posted_period_count = k]
  OBVIOUS
<1>3. /\ d.posted_period_count = k => Migration!PostedPeriodCount(d, k).act = "done"
      /\ d.posted_period_count # k => /\ Migration!PostedPeriodCount(d, k).act = "migrate"
                                      /\ Migration!PostedPeriodCount(d, k).data = n
  BY <1>2 DEF Migration!PostedPeriodCount, Migration!Migrate, Migration!AlreadyDone
<1>4. DOMAIN n = {"posted_period_count"}
  BY <1>2, FieldsByType DEF IsRecord
<1>5. Migration!ValidateRecord("FixedAsset", n)
  BY <1>4 DEF Migration!ValidateRecord, Migration!Money, Migration!MoneyFields
<1> QED
  BY <1>1, <1>3, <1>5 DEF Migrates

LEMMA SkipRecordKeeps ==
  ASSUME MigInv, NEW c \in Operators, Migration!SkipRecord(c)
  PROVE  MigInv'
<1>1. /\ migration[c].at = "update" /\ ~Migration!WouldMigrate(c) /\ Migration!GoOn(c)
      /\ declined' = IF migration[c].dry \/ Migration!Outcome(c).act = "done" THEN declined
                     ELSE declined \union {Migration!Entry(c)}
      /\ UNCHANGED <<row, meant, posted, facilities, promised, saves, migrations, migrationCrashes>>
  BY DEF Migration!SkipRecord
<1>2. PICK n : migration' = [migration EXCEPT ![c] = n] /\ Held(c, n)' /\ n.listed = migration[c].listed
  BY <1>1, GoesOn
<1>3. ASSUME Migration!Outcome(c).act # "done"
      PROVE  Migration!Entry(c)[1] # PostedCount
  <2>1. PICK q : q = migration[c]
    OBVIOUS
  <2>2. PICK r : r = Migration!Current(c)
    OBVIOUS
  <2>3. PICK x : x = Migration!Listed(c)
    OBVIOUS
  <2>4. /\ IsRow(x) /\ x.type = Migration!TypeFor(q.command)
        /\ Migration!Outcome(c) = Migration!Transform(q.command, x.data, q.facility, q.counted)
        /\ ~Migrates(q.command, x.type, x.data, q.facility, q.counted)
    BY <1>1, <2>1, <2>2, <2>3, Decides
  <2>6. Migration!Entry(c) = <<q.command, r, x.version>>
    BY ONLY <2>1, <2>2, <2>3 DEF Migration!Entry
  <2>5. CASE q.command = PostedCount
    <3>1. x.type = "FixedAsset"
      BY <2>4, <2>5, TransformOf DEF PostedCount
    <3>2. IsRecord(x.data, "FixedAsset")
      BY <2>4, <3>1 DEF IsRow
    <3>3. Migration!Transform(PostedCount, x.data, q.facility, q.counted).act # "done"
      BY <1>3, <2>4, <2>5
    <3>4. Migrates(PostedCount, "FixedAsset", x.data, q.facility, q.counted)
      BY <3>2, <3>3, CountIsValid
    <3> QED
      BY <2>4, <2>5, <3>1, <3>4
  <2> QED
    BY <2>5, <2>6
<1>4. \A e \in declined' : e \in declined \/ (Said(e, FALSE) /\ e[1] # PostedCount)
  BY <1>1, <1>3, DecisionIsSaid
<1>5. \A r \in DOMAIN n.listed : r \in DOMAIN row /\ n.listed[r] \in Sights(r)
  BY <1>2, RunHolds
<1>6. migrations' \in 0..MaxRuns /\ migrationCrashes' \in 0..MaxMigrationCrashes
  BY <1>1 DEF MigInv, MigrationTypes
<1> QED
  BY <1>1, <1>2, <1>4, <1>5, <1>6, RunMoves

LEMMA PreviewRecordKeeps ==
  ASSUME MigInv, NEW c \in Operators, Migration!PreviewRecord(c)
  PROVE  MigInv'
<1>1. /\ migration[c].at = "update" /\ Migration!WouldMigrate(c) /\ Migration!GoOn(c)
      /\ promised' = promised \union {Migration!Entry(c)}
      /\ UNCHANGED <<row, meant, posted, facilities, declined, saves, migrations, migrationCrashes>>
  BY DEF Migration!PreviewRecord
<1>2. PICK n : migration' = [migration EXCEPT ![c] = n] /\ Held(c, n)' /\ n.listed = migration[c].listed
  BY <1>1, GoesOn
<1>3. \A e \in promised' : e \in promised \/ Said(e, TRUE)
  BY <1>1, DecisionIsSaid
<1>4. \A r \in DOMAIN n.listed : r \in DOMAIN row /\ n.listed[r] \in Sights(r)
  BY <1>2, RunHolds
<1>5. migrations' \in 0..MaxRuns /\ migrationCrashes' \in 0..MaxMigrationCrashes
  BY <1>1 DEF MigInv, MigrationTypes
<1> QED
  BY <1>1, <1>2, <1>3, <1>4, <1>5, RunMoves

(* The step that writes: the record listed is the one stored.              *)
LEMMA RecordWritten ==
  ASSUME MigInv, NEW c \in Operators, Migration!UpdateRecord(c)
  PROVE  \E r \in DOMAIN row : \E o :
           /\ r = Migration!Current(c) /\ row[r] = Migration!Listed(c)
           /\ row' = [row EXCEPT ![r].version = @ + 1, ![r].data = o]
           /\ Written(row[r].type, row[r].data, meant[r], o)
           /\ row[r].type = "FixedAsset" => o.posted_period_count = posted[r]
<1>1. PICK q : q = migration[c]
  OBVIOUS
<1>2. PICK r : r = Migration!Current(c)
  OBVIOUS
<1>3. PICK x : x = Migration!Listed(c)
  OBVIOUS
<1>4. PICK o : o = Migration!Outcome(c).data
  OBVIOUS
<1>5. /\ q.at = "update" /\ Migration!Outcome(c).act = "migrate" /\ row[r].version = x.version
      /\ row' = [row EXCEPT ![r].version = @ + 1, ![r].data = o]
  BY <1>1, <1>2, <1>3, <1>4 DEF Migration!UpdateRecord, Migration!WouldMigrate, Migration!SameVersion
<1>6. /\ r \in DOMAIN row /\ x \in Sights(r) /\ IsRow(x)
      /\ q.command \in Commands /\ row[r].type = Migration!TypeFor(q.command)
      /\ Migration!Outcome(c) = Migration!Transform(q.command, x.data, q.facility, q.counted)
  BY <1>1, <1>2, <1>3, <1>5, Decides
<1>7. row[r] = x
  BY <1>5, <1>6, RowIsSeen, SightFacts
<1>8. Given(row[r].type, x.data, meant[r])
  BY <1>6, <1>7 DEF Given, IsRow, MigInv, RecordsFaithful
<1>9. /\ Written(row[r].type, x.data, meant[r], o)
      /\ q.command = PostedCount => o.posted_period_count = q.counted
  <2>1. Migration!Transform(q.command, x.data, q.facility, q.counted).act = "migrate"
    BY <1>5, <1>6
  <2>2. o = Migration!Transform(q.command, x.data, q.facility, q.counted).data
    BY <1>4, <1>6
  <2> QED
    BY <1>6, <1>8, <2>1, <2>2, TransformWrites
<1>10. ASSUME row[r].type = "FixedAsset"
       PROVE  o.posted_period_count = posted[r]
  <2>1. q.command = PostedCount
    BY <1>6, <1>10, CommandNames, TransformOf DEF PostedCount
  <2>2. Held(c, q) /\ q.listed[r] = x /\ r = Migration!Min(q.todo)
    BY <1>1, <1>2, <1>3, RunHolds DEF Migration!Listed, Migration!Current
  <2>3. q.counted = posted[r]
    BY <1>5, <2>1, <2>2 DEF Held
  <2> QED
    BY <1>9, <2>1, <2>3
<1> QED
  BY <1>2, <1>3, <1>5, <1>6, <1>7, <1>9, <1>10

(* A row with new data, and the others as they are.                        *)
LEMMA RowRewritten ==
  ASSUME MigInv, NEW r \in DOMAIN row, NEW o,
         row' = [row EXCEPT ![r].version = @ + 1, ![r].data = o],
         IsRecord(o, row[r].type), AmountsOK(o)
  PROVE  /\ DOMAIN row' = DOMAIN row /\ row' = [s \in DOMAIN row |-> row'[s]]
         /\ IsRow(row'[r]) /\ row'[r].data = o
         /\ row'[r].type = row[r].type /\ row'[r].version = row[r].version + 1
         /\ \A s \in DOMAIN row : s # r => row'[s] = row[s]
<1>1. PICK q : q = row[r]
  OBVIOUS
<1>2. IsRow(q) /\ q.version \in Nat
  BY <1>1, RowIsSeen
<1>3. PICK w : w = [q EXCEPT !.version = q.version + 1, !.data = o]
  OBVIOUS
<1>4. row = [s \in DOMAIN row |-> row[s]]
  BY DEF MigInv, MigrationTypes
<1>5. row' = [row EXCEPT ![r] = w]
  BY <1>1, <1>3, <1>4
<1>6. w = [type |-> q.type, version |-> q.version + 1, data |-> o]
  BY <1>2, <1>3 DEF IsRow
<1>7. q.version + 1 \in Nat \ {0}
  BY <1>2
<1>8. IsRow(w)
  BY <1>1, <1>2, <1>6, <1>7 DEF IsRow
<1>9. row'[r] = w /\ DOMAIN row' = DOMAIN row /\ \A s \in DOMAIN row : s # r => row'[s] = row[s]
  BY <1>4, <1>5
<1>10. row' = [s \in DOMAIN row |-> row'[s]]
  BY <1>4, <1>5
<1>11. w.data = o /\ w.type = row[r].type /\ w.version = row[r].version + 1
  BY <1>1, <1>6
<1> QED
  BY <1>8, <1>9, <1>10, <1>11

LEMMA FaithfulLater ==
  ASSUME DOMAIN row' = DOMAIN row,
         DOMAIN meant' = DOMAIN row, meant' = [r \in DOMAIN row |-> meant'[r]],
         \A s \in DOMAIN row : Faithful(row'[s].data, meant'[s], row'[s].type)
  PROVE  RecordsFaithful'
<1>1. (\A s \in DOMAIN row : Faithful(row[s].data, meant[s], row[s].type))'
  BY DEF Faithful, MeansWell, IsRecord, Migration!Money, Migration!MoneyFields
<1> QED
  BY <1>1 DEF RecordsFaithful

LEMMA UpdateRecordKeeps ==
  ASSUME MigInv, NEW c \in Operators, Migration!UpdateRecord(c)
  PROVE  MigInv'
<1>1. PICK r \in DOMAIN row : \E o :
           /\ row' = [row EXCEPT ![r].version = @ + 1, ![r].data = o]
           /\ Written(row[r].type, row[r].data, meant[r], o)
  BY RecordWritten
<1>2. PICK o : /\ row' = [row EXCEPT ![r].version = @ + 1, ![r].data = o]
               /\ Written(row[r].type, row[r].data, meant[r], o)
  BY <1>1
<1>3. IsRecord(o, row[r].type) /\ AmountsOK(o) /\ Faithful(o, meant[r], row[r].type)
  BY <1>2 DEF Written
<1>4. /\ DOMAIN row' = DOMAIN row /\ row' = [s \in DOMAIN row |-> row'[s]]
      /\ IsRow(row'[r]) /\ row'[r].data = o
      /\ row'[r].type = row[r].type /\ row'[r].version = row[r].version + 1
      /\ \A s \in DOMAIN row : s # r => row'[s] = row[s]
  BY <1>2, <1>3, RowRewritten
<1>5. /\ migration[c].at = "update" /\ Migration!GoOn(c)
      /\ UNCHANGED <<meant, posted, facilities, promised, declined, saves, migrations, migrationCrashes>>
  BY DEF Migration!UpdateRecord
<1>6. \A s \in DOMAIN row : row'[s].type = row[s].type
  BY <1>4
<1>7. PICK n : migration' = [migration EXCEPT ![c] = n] /\ Held(c, n)' /\ n.listed = migration[c].listed
  BY <1>4, <1>5, <1>6, GoesOn
<1>8. /\ migration' = [b \in Operators |-> migration'[b]] /\ migration'[c] = n
      /\ \A b \in Operators : b # c => migration'[b] = migration[b]
  BY <1>7 DEF MigInv, MigrationTypes
<1>9. RowsMove
  <2>1. \A b \in Operators : migration'[b].listed = migration[b].listed
    BY <1>7, <1>8
  <2>2. \A b \in Operators : \A s \in DOMAIN migration'[b].listed :
          s \in DOMAIN row /\ migration'[b].listed[s] \in Sights(s)
    BY <2>1, RunHolds
  <2> QED
    BY <1>4, <1>5, <2>2 DEF RowsMove
<1>10. MigrationTypes'
  BY <1>4, <1>5, <1>8 DEF MigInv, MigrationTypes
<1>11. RecordsFaithful'
  <2>1. ASSUME NEW s \in DOMAIN row
        PROVE  Faithful(row'[s].data, meant[s], row'[s].type)
    <3>1. CASE s = r
      BY <1>3, <1>4, <3>1
    <3>2. CASE s # r
      BY <1>4, <3>2 DEF MigInv, RecordsFaithful
    <3> QED
      BY <3>1, <3>2
  <2>2. DOMAIN meant' = DOMAIN row /\ meant' = [s \in DOMAIN row |-> meant'[s]]
    BY <1>5 DEF MigInv, RecordsFaithful
  <2>3. \A s \in DOMAIN row : Faithful(row'[s].data, meant'[s], row'[s].type)
    BY <1>5, <2>1
  <2> QED
    BY <1>4, <2>2, <2>3, FaithfulLater
<1>12. \A b \in Operators : Held(b, migration[b])'
  <2>1. Held(c, migration[c])'
    BY <1>7, <1>8
  <2>2. ASSUME NEW b \in Operators, b # c
        PROVE  Held(b, migration[b])'
    BY <1>5, <1>8, <1>9, <2>2, StillHeld
  <2> QED
    BY <2>1, <2>2
<1> QED
  BY <1>5, <1>9, <1>10, <1>11, <1>12, MigrationMoves

(* A run that is over, or lost.                                            *)
LEMMA RunOver ==
  ASSUME MigInv, NEW c \in Operators, NEW at \in {"idle", "conflict", "refused"},
         NEW n, n = [at |-> at, command |-> "", dry |-> FALSE, facility |-> "", todo |-> {},
                     listed |-> <<>>, counted |-> 0],
         migration' = [migration EXCEPT ![c] = n],
         UNCHANGED <<row, meant, posted, facilities, saves, promised, declined, migrations>>,
         migrationCrashes' \in 0..MaxMigrationCrashes
  PROVE  MigInv'
<1>1. n.listed = <<>>
  OBVIOUS
<1>2. DOMAIN n.listed = {}
  BY ONLY <1>1
<1>3. Held(c, n)'
  BY <1>2 DEF Held, Pages
<1>4. migrations' \in 0..MaxRuns
  BY DEF MigInv, MigrationTypes
<1>5. \A r \in DOMAIN n.listed : r \in DOMAIN row /\ n.listed[r] \in Sights(r)
  BY <1>2
<1> QED
  BY <1>3, <1>4, <1>5, RunMoves

LEMMA UpdateFailsKeeps ==
  ASSUME MigInv, NEW c \in Operators, Migration!UpdateFails(c)
  PROVE  MigInv'
<1>1. /\ migration[c].at = "update"
      /\ UNCHANGED <<row, meant, posted, facilities, promised, declined, saves, migrations, migrationCrashes>>
      /\ \/ Migration!GoOn(c)
         \/ \E at \in {"conflict", "refused"} :
              migration' = [migration EXCEPT ![c] = [Migration!Idle EXCEPT !.at = at]]
  BY DEF Migration!UpdateFails
<1>2. CASE Migration!GoOn(c)
  <2>1. PICK n : migration' = [migration EXCEPT ![c] = n] /\ Held(c, n)' /\ n.listed = migration[c].listed
    BY <1>1, <1>2, GoesOn
  <2> QED
    BY <1>1, <2>1, RunGoes
<1>3. migrationCrashes' \in 0..MaxMigrationCrashes
  BY <1>1 DEF MigInv, MigrationTypes
<1>4. CASE \E at \in {"conflict", "refused"} :
             migration' = [migration EXCEPT ![c] = [Migration!Idle EXCEPT !.at = at]]
  <2>1. PICK at \in {"conflict", "refused"} :
          migration' = [migration EXCEPT ![c] = [Migration!Idle EXCEPT !.at = at]]
    BY <1>4
  <2>2. PICK n : n = [Migration!Idle EXCEPT !.at = at]
    OBVIOUS
  <2>3. n = [at |-> at, command |-> "", dry |-> FALSE, facility |-> "", todo |-> {},
             listed |-> <<>>, counted |-> 0]
    BY <2>2 DEF Migration!Idle, Migration!None
  <2> QED
    BY <1>1, <1>3, <2>1, <2>2, <2>3, RunOver
<1> QED
  BY <1>1, <1>2, <1>4

LEMMA MigrationCrashKeeps ==
  ASSUME MigInv, NEW c \in Operators, Migration!Crash(c)
  PROVE  MigInv'
<1>1. /\ UNCHANGED <<row, meant, posted, facilities, promised, declined, saves, migrations>>
      /\ migrationCrashes < MaxMigrationCrashes /\ migrationCrashes' = migrationCrashes + 1
      /\ migration' = [migration EXCEPT ![c] = Migration!Idle]
  BY DEF Migration!Crash
<1>2. PICK n : n = Migration!Idle
  OBVIOUS
<1>3. n = [at |-> "idle", command |-> "", dry |-> FALSE, facility |-> "", todo |-> {},
           listed |-> <<>>, counted |-> 0]
  BY <1>2 DEF Migration!Idle, Migration!None
<1>4. migrationCrashes \in 0..MaxMigrationCrashes /\ MaxMigrationCrashes \in Nat
  BY MigrationConstants DEF MigInv, MigrationTypes
<1>5. migrationCrashes' \in 0..MaxMigrationCrashes
  BY <1>1, <1>4
<1> QED
  BY <1>1, <1>2, <1>3, <1>5, RunOver

(* What a user saves: one field of the form set, the others as they were.  *)
LEMMA FormSaved ==
  ASSUME MigInv, NEW r \in DOMAIN row, NEW d, d = row[r].data, NEW t, t = row[r].type,
         NEW o \in Migration!SavedAs(r, d)
  PROVE  /\ IsRecord(o, t) /\ \A f \in Migration!Money(o) : o[f] \in {d[f], 500}
         /\ "name" \in DOMAIN o => o.name = [l \in Locales |-> o.name[l]]
<1>1. IsRow(row[r])
  BY RowIsSeen
<1>2. t \in DOMAIN MigratedFields /\ IsRecord(d, t) /\ Faithful(d, meant[r], t)
  BY <1>1 DEF IsRow, MigInv, RecordsFaithful
<1>3. DOMAIN d = MigratedFields[t] /\ d = [f \in MigratedFields[t] |-> d[f]]
  BY <1>2 DEF IsRecord
<1>4. "name" \in DOMAIN d => d.name = [l \in Locales |-> d.name[l]]
  BY <1>2 DEF Faithful
<1>5. DOMAIN o = DOMAIN d /\ o = [f \in DOMAIN d |-> o[f]]
  <2>1. CASE o \in {[d EXCEPT ![f] = 500] : f \in Migration!Money(d)}
    BY <1>3, <2>1
  <2>2. CASE o \in {[d EXCEPT !.status_id = i, !.status = ""] : i \in {StatusCodes[k] : k \in DOMAIN StatusCodes}}
    BY <1>3, <2>2
  <2>3. CASE o = [d EXCEPT !.facility_id = "shop"]
    BY <1>3, <2>3
  <2>4. CASE t = "Status" /\ o \in {[d EXCEPT !.plain = FALSE, !.name = [@ EXCEPT ![l] = "user"]] : l \in Locales}
    <3>1. PICK l \in Locales : o = [d EXCEPT !.plain = FALSE, !.name = [d.name EXCEPT ![l] = "user"]]
      BY <2>4
    <3> QED
      BY <1>3, <3>1
  <2> QED
    BY <2>1, <2>2, <2>3, <2>4 DEF Migration!SavedAs, Migration!None
<1>a. IsRecord(o, t)
  BY <1>3, <1>5 DEF IsRecord
<1>6. Migration!Money(o) \subseteq DOMAIN d /\ "status_id" \notin Migration!Money(o) /\ "status" \notin Migration!Money(o)
      /\ "facility_id" \notin Migration!Money(o) /\ "plain" \notin Migration!Money(o) /\ "name" \notin Migration!Money(o)
  BY <1>5 DEF Migration!Money, Migration!MoneyFields
<1>7. CASE o \in {[d EXCEPT ![f] = 500] : f \in Migration!Money(d)}
  <2>1. PICK f \in Migration!Money(d) : o = [d EXCEPT ![f] = 500]
    BY <1>7
  <2>2. f \in DOMAIN d /\ f # "name"
    BY DEF Migration!Money, Migration!MoneyFields
  <2> QED
    BY <1>3, <1>4, <1>5, <1>6, <1>a, <2>1, <2>2
<1>8. CASE o \in {[d EXCEPT !.status_id = i, !.status = ""] : i \in {StatusCodes[k] : k \in DOMAIN StatusCodes}}
  <2>1. PICK i : o = [d EXCEPT !.status_id = i, !.status = ""]
    BY <1>8
  <2>2. \A f \in DOMAIN d : f \notin {"status_id", "status"} => o[f] = d[f]
    BY <1>3, <2>1
  <2> QED
    BY <1>4, <1>5, <1>6, <1>a, <2>2
<1>9. CASE o = [d EXCEPT !.facility_id = "shop"]
  <2>1. \A f \in DOMAIN d : f # "facility_id" => o[f] = d[f]
    BY <1>3, <1>9
  <2> QED
    BY <1>4, <1>5, <1>6, <1>a, <2>1
<1>10. CASE t = "Status" /\ o \in {[d EXCEPT !.plain = FALSE, !.name = [@ EXCEPT ![l] = "user"]] : l \in Locales}
  <2>1. PICK l \in Locales : o = [d EXCEPT !.plain = FALSE, !.name = [d.name EXCEPT ![l] = "user"]]
    BY <1>10
  <2>2. DOMAIN d = {"code", "plain", "name"}
    BY <1>3, <1>10, FieldsByType
  <2>3. o.name = [d.name EXCEPT ![l] = "user"]
    BY <1>3, <2>1, <2>2
  <2>4. \A f \in DOMAIN d : f \notin {"plain", "name"} => o[f] = d[f]
    BY <1>3, <2>1
  <2>5. o.name = [k \in Locales |-> o.name[k]]
    BY <1>4, <2>2, <2>3
  <2> QED
    BY <1>5, <1>6, <1>a, <2>4, <2>5
<1> QED
  BY <1>7, <1>8, <1>9, <1>10 DEF Migration!SavedAs, Migration!None

LEMMA UserMeans ==
  ASSUME NEW t, NEW d, NEW m, Given(t, d, m), NEW o, IsRecord(o, t),
         \A f \in Migration!Money(o) : o[f] \in {d[f], 500},
         "name" \in DOMAIN o => o.name = [l \in Locales |-> o.name[l]]
  PROVE  AmountsOK(o) /\ Faithful(o, Migration!Means(m, d, o), t)
<1>1. PICK n : n = Migration!Means(m, d, o)
  OBVIOUS
<1>2. /\ t \in DOMAIN MigratedFields /\ IsRecord(d, t) /\ AmountsOK(d) /\ Faithful(d, m, t)
      /\ DOMAIN d = MigratedFields[t] /\ DOMAIN o = MigratedFields[t]
  BY DEF Given, IsRecord
<1>3. /\ n = [f \in MigratedFields[t] |->
                IF f \in Migration!MoneyFields /\ o[f] = d[f] THEN m[f]
                ELSE IF f \in Migration!MoneyFields THEN o[f] \div 100 ELSE o[f]]
  BY <1>1, <1>2 DEF Migration!Means
<1>4. Migration!Money(o) = Migration!Money(d) /\ Migration!Money(o) = MigratedFields[t] \intersect Migration!MoneyFields
  BY <1>2 DEF Migration!Money
<1>5. IsRecord(n, t)
  BY <1>3 DEF IsRecord
<1>6. \A f \in MigratedFields[t] : f \notin Migration!MoneyFields => n[f] = o[f]
  BY <1>3
<1>7. ASSUME NEW f \in Migration!Money(o)
      PROVE  /\ o[f] \in Nat \union {-1} /\ n[f] \in Nat \union {-1}
             /\ o[f] \in {n[f], IF n[f] > 0 THEN 100 * n[f] ELSE n[f]}
  <2>1. f \in Migration!Money(d) /\ f \in MigratedFields[t] /\ f \in Migration!MoneyFields
    BY <1>4
  <2>2. /\ d[f] \in Nat \union {-1} /\ m[f] \in Nat \union {-1}
        /\ d[f] \in {m[f], IF m[f] > 0 THEN 100 * m[f] ELSE m[f]}
    BY <1>2, <2>1 DEF AmountsOK, Faithful, MeansWell
  <2>3. CASE o[f] = d[f]
    <3>1. n[f] = m[f]
      BY <1>3, <2>1, <2>3
    <3> QED
      BY <2>2, <2>3, <3>1
  <2>4. CASE o[f] # d[f]
    <3>1. o[f] = 500 /\ n[f] = o[f] \div 100
      BY <1>3, <2>1, <2>4
    <3>2. n[f] = 5
      BY <3>1
    <3> QED
      BY <3>1, <3>2
  <2> QED
    BY <2>3, <2>4
<1>8. AmountsOK(o)
  BY <1>7 DEF AmountsOK
<1>9. /\ "status_id" \in DOMAIN o => n.status_id = o.status_id
      /\ "facility_id" \in DOMAIN o => n.facility_id = o.facility_id
      /\ "name" \in DOMAIN o => n.name = o.name
      /\ "status" \in DOMAIN o => n.status = o.status
  BY <1>2, <1>6 DEF Migration!MoneyFields
<1>10. "status_id" \in DOMAIN o => "status" \in DOMAIN o
  BY <1>2, FieldsByType
<1>11. MeansWell(o, n)
  BY <1>7, <1>9 DEF MeansWell
<1> QED
  BY <1>1, <1>5, <1>7, <1>8, <1>9, <1>10, <1>11 DEF Faithful

LEMMA UserSavesKeeps ==
  ASSUME MigInv, NEW r \in DOMAIN row, Migration!UserSaves(r)
  PROVE  MigInv'
<1>1. PICK d : d = row[r].data
  OBVIOUS
<1>2. PICK t : t = row[r].type
  OBVIOUS
<1>3. PICK o \in Migration!SavedAs(r, d) :
        /\ row' = [row EXCEPT ![r].version = @ + 1, ![r].data = o]
        /\ meant' = [meant EXCEPT ![r] = Migration!Means(meant[r], d, o)]
  BY <1>1 DEF Migration!UserSaves
<1>4. /\ saves < MaxSaves /\ saves' = saves + 1
      /\ UNCHANGED <<posted, facilities, migration, promised, declined, migrations, migrationCrashes>>
  BY DEF Migration!UserSaves
<1>5. /\ IsRecord(o, t) /\ \A f \in Migration!Money(o) : o[f] \in {d[f], 500}
      /\ "name" \in DOMAIN o => o.name = [l \in Locales |-> o.name[l]]
  BY <1>1, <1>2, FormSaved
<1>6. Given(t, d, meant[r])
  BY <1>1, <1>2, RowIsSeen DEF Given, IsRow, MigInv, RecordsFaithful
<1>7. PICK m : m = Migration!Means(meant[r], d, o)
  OBVIOUS
<1>8. AmountsOK(o) /\ Faithful(o, m, t)
  BY <1>5, <1>6, <1>7, UserMeans
<1>9. /\ DOMAIN row' = DOMAIN row /\ row' = [s \in DOMAIN row |-> row'[s]]
      /\ IsRow(row'[r]) /\ row'[r].data = o
      /\ row'[r].type = row[r].type /\ row'[r].version = row[r].version + 1
      /\ \A s \in DOMAIN row : s # r => row'[s] = row[s]
  BY <1>2, <1>3, <1>5, <1>8, RowRewritten
<1>10. RowsMove
  BY <1>4, <1>9, RunHolds DEF RowsMove
<1>11. MigrationTypes'
  <2>1. saves \in 0..MaxSaves /\ MaxSaves \in Nat
    BY MigrationConstants DEF MigInv, MigrationTypes
  <2>2. saves' \in 0..MaxSaves
    BY <1>4, <2>1
  <2> QED
    BY <1>4, <1>9, <2>2 DEF MigInv, MigrationTypes
<1>12. RecordsFaithful'
  <2>1. DOMAIN meant = DOMAIN row /\ meant = [s \in DOMAIN row |-> meant[s]]
    BY DEF MigInv, RecordsFaithful
  <2>2. /\ meant'[r] = m /\ DOMAIN meant' = DOMAIN row /\ meant' = [s \in DOMAIN row |-> meant'[s]]
        /\ \A s \in DOMAIN row : s # r => meant'[s] = meant[s]
    BY <1>3, <1>7, <2>1
  <2>3. ASSUME NEW s \in DOMAIN row
        PROVE  Faithful(row'[s].data, meant'[s], row'[s].type)
    <3>1. CASE s = r
      BY <1>2, <1>8, <1>9, <2>2, <3>1
    <3>2. CASE s # r
      BY <1>9, <2>2, <3>2 DEF MigInv, RecordsFaithful
    <3> QED
      BY <3>1, <3>2
  <2> QED
    BY <1>9, <2>2, <2>3, FaithfulLater
<1>13. \A b \in Operators : Held(b, migration[b])'
  BY <1>4, <1>10, StillHeld
<1> QED
  BY <1>4, <1>10, <1>11, <1>12, <1>13, MigrationMoves

LEMMA PostPeriodKeeps ==
  ASSUME MigInv, NEW r \in DOMAIN row, Migration!PostPeriod(r)
  PROVE  MigInv'
<1>1. /\ row[r].type = "FixedAsset" /\ saves < MaxSaves /\ saves' = saves + 1
      /\ posted' = [posted EXCEPT ![r] = posted[r] + 1]
      /\ UNCHANGED <<meant, facilities, migration, promised, declined, migrations, migrationCrashes>>
  BY DEF Migration!PostPeriod
<1>2. PICK d : d = row[r].data
  OBVIOUS
<1>3. PICK k : k = d.posted_period_count + 1
  OBVIOUS
<1>4. PICK o : o = [d EXCEPT !.posted_period_count = k]
  OBVIOUS
<1>5. row' = [row EXCEPT ![r].version = @ + 1, ![r].data = o]
  BY <1>2, <1>3, <1>4 DEF Migration!PostPeriod
<1>6. IsRecord(o, "FixedAsset")
  BY <1>1, <1>2, <1>4, RowIsSeen DEF IsRow, IsRecord
<1>7. AmountsOK(o) /\ Migration!Money(o) = {}
  BY <1>6, NoAmounts
<1>8. /\ DOMAIN row' = DOMAIN row /\ row' = [s \in DOMAIN row |-> row'[s]]
      /\ IsRow(row'[r]) /\ row'[r].data = o
      /\ row'[r].type = row[r].type /\ row'[r].version = row[r].version + 1
      /\ \A s \in DOMAIN row : s # r => row'[s] = row[s]
  BY <1>1, <1>5, <1>6, <1>7, RowRewritten
<1>9. posted \in [DOMAIN row -> Nat]
  BY DEF MigInv, MigrationTypes
<1>10. posted' \in [DOMAIN row -> Nat] /\ \A s \in DOMAIN row : s # r => posted'[s] = posted[s]
  BY <1>1, <1>9
<1>11. RowsMove
  BY <1>1, <1>8, <1>10, RunHolds DEF RowsMove
<1>12. MigrationTypes'
  <2>1. saves \in 0..MaxSaves /\ MaxSaves \in Nat
    BY MigrationConstants DEF MigInv, MigrationTypes
  <2>2. saves' \in 0..MaxSaves
    BY <1>1, <2>1
  <2> QED
    BY <1>1, <1>8, <1>10, <2>2 DEF MigInv, MigrationTypes
<1>13. RecordsFaithful'
  <2>1. DOMAIN meant = DOMAIN row /\ meant = [s \in DOMAIN row |-> meant[s]]
    BY DEF MigInv, RecordsFaithful
  <2>2. ASSUME NEW s \in DOMAIN row
        PROVE  Faithful(row'[s].data, meant[s], row'[s].type)
    <3>1. CASE s = r
      <4>1. Faithful(row[r].data, meant[r], "FixedAsset")
        BY <1>1 DEF MigInv, RecordsFaithful
      <4>2. DOMAIN o = {"posted_period_count"} /\ DOMAIN d = {"posted_period_count"}
        BY <1>1, <1>2, <1>6, FieldsByType, RowIsSeen DEF IsRecord, IsRow
      <4>3. Migration!Money(d) = {}
        BY <4>2 DEF Migration!Money, Migration!MoneyFields
      <4>4. IsRecord(meant[r], "FixedAsset")
        BY <4>1 DEF Faithful
      <4>5. Faithful(o, meant[r], "FixedAsset")
        BY <1>7, <4>2, <4>4 DEF Faithful, MeansWell
      <4> QED
        BY <1>1, <1>8, <3>1, <4>5
    <3>2. CASE s # r
      BY <1>8, <3>2 DEF MigInv, RecordsFaithful
    <3> QED
      BY <3>1, <3>2
  <2>3. DOMAIN meant' = DOMAIN row /\ meant' = [s \in DOMAIN row |-> meant'[s]]
    BY <1>1, <2>1
  <2>4. \A s \in DOMAIN row : Faithful(row'[s].data, meant'[s], row'[s].type)
    BY <1>1, <2>2
  <2> QED
    BY <1>8, <2>3, <2>4, FaithfulLater
<1>14. \A b \in Operators : Held(b, migration[b])'
  BY <1>1, <1>11, StillHeld
<1> QED
  BY <1>1, <1>11, <1>12, <1>13, <1>14, MigrationMoves

LEMMA FirstMeans ==
  ASSUME NEW old, SaysWhatIsMeant(old)
  PROVE  Given(old.type, old.data, old.meant)
<1>1. PICK t \in DOMAIN MigratedFields : t = old.type
  BY DEF SaysWhatIsMeant
<1>2. PICK d : d = old.data
  OBVIOUS
<1>3. PICK m : m = old.meant
  OBVIOUS
<1>4. /\ d = [f \in MigratedFields[t] |-> d[f]] /\ m = [f \in MigratedFields[t] |-> m[f]]
      /\ \A f \in MigratedFields[t] : f \notin Amounts => d[f] = m[f]
      /\ \A f \in MigratedFields[t] : f \in Amounts =>
           /\ m[f] \in Nat \union {-1}
           /\ d[f] \in {m[f], IF m[f] > 0 THEN 100 * m[f] ELSE m[f]}
      /\ "name" \in MigratedFields[t] => d.name = [l \in Locales |-> d.name[l]]
  BY <1>1, <1>2, <1>3 DEF SaysWhatIsMeant
<1>5. IsRecord(d, t) /\ IsRecord(m, t) /\ DOMAIN d = MigratedFields[t]
  BY <1>4 DEF IsRecord
<1>6. Migration!Money(d) \subseteq MigratedFields[t] /\ \A f \in Migration!Money(d) : f \in Amounts
  BY <1>5 DEF Migration!Money, Migration!MoneyFields, Amounts
<1>7. \A f \in Migration!Money(d) :
        /\ m[f] \in Nat \union {-1} /\ d[f] \in Nat \union {-1}
        /\ d[f] \in {m[f], IF m[f] > 0 THEN 100 * m[f] ELSE m[f]}
  BY <1>4, <1>6
<1>8. /\ "status_id" \in DOMAIN d => d.status_id = m.status_id
      /\ "facility_id" \in DOMAIN d => d.facility_id = m.facility_id
      /\ "name" \in DOMAIN d => d.name = m.name
      /\ "status" \in DOMAIN d => d.status = m.status
  BY <1>4, <1>5 DEF Amounts
<1>9. "status_id" \in DOMAIN d => "status" \in DOMAIN d
  BY <1>5, FieldsByType
<1>10. MeansWell(d, m)
  BY <1>7, <1>8 DEF MeansWell
<1>11. Faithful(d, m, t)
  BY <1>4, <1>5, <1>7, <1>8, <1>9, <1>10 DEF Faithful
<1>12. AmountsOK(d)
  BY <1>7 DEF AmountsOK
<1> QED
  BY <1>1, <1>2, <1>3, <1>5, <1>11, <1>12 DEF Given

LEMMA MigrationBegins == Migration!Init => MigInv
<1> SUFFICES ASSUME Migration!Init PROVE MigInv
  OBVIOUS
<1>1. PICK first \in OldTenants :
        /\ row = [r \in DOMAIN first |-> [type |-> first[r].type, version |-> 1, data |-> first[r].data]]
        /\ meant = [r \in DOMAIN first |-> first[r].meant]
        /\ posted = [r \in DOMAIN first |-> first[r].posted]
  BY DEF Migration!Init
<1>2. /\ facilities = <<>> /\ migration = [c \in Operators |-> Migration!Idle]
      /\ promised = {} /\ declined = {} /\ saves = 0 /\ migrations = 0 /\ migrationCrashes = 0
  BY DEF Migration!Init
<1>3. /\ IsFiniteSet(DOMAIN first) /\ DOMAIN first \subseteq Nat
      /\ \A r \in DOMAIN first : SaysWhatIsMeant(first[r])
  BY MigrationAssumption
<1>4. ASSUME NEW r \in DOMAIN row
      PROVE  IsRow(row[r]) /\ Faithful(row[r].data, meant[r], row[r].type) /\ posted[r] \in Nat
  <2>1. SaysWhatIsMeant(first[r]) /\ first[r].posted \in Nat
    BY <1>1, <1>3 DEF SaysWhatIsMeant
  <2>2. Given(first[r].type, first[r].data, first[r].meant)
    BY <2>1, FirstMeans
  <2>3. row[r] = [type |-> first[r].type, version |-> 1, data |-> first[r].data]
    BY <1>1
  <2>4. meant[r] = first[r].meant /\ posted[r] = first[r].posted
    BY <1>1
  <2>5. /\ first[r].type \in DOMAIN MigratedFields /\ IsRecord(first[r].data, first[r].type)
        /\ AmountsOK(first[r].data) /\ Faithful(first[r].data, first[r].meant, first[r].type)
    BY <2>2 DEF Given
  <2>6. IsRow(row[r])
    BY <2>3, <2>5 DEF IsRow
  <2> QED
    BY <2>1, <2>3, <2>4, <2>5, <2>6
<1>5. ASSUME NEW c \in Operators
      PROVE  Held(c, migration[c]) /\ DOMAIN migration[c].listed = {}
  <2>1. PICK n : n = migration[c]
    OBVIOUS
  <2>2. n = [at |-> "idle", command |-> "", dry |-> FALSE, facility |-> "", todo |-> {},
             listed |-> <<>>, counted |-> 0]
    BY <1>2, <2>1 DEF Migration!Idle, Migration!None
  <2>3. n.listed = <<>>
    BY <2>2
  <2>4. DOMAIN n.listed = {}
    BY ONLY <2>3
  <2>5. Held(c, n)
    BY <2>2, <2>4 DEF Held, Pages
  <2> QED
    BY <2>1, <2>4, <2>5
<1>6. \A r \in DOMAIN row : Sights(r) = {row[r]}
  BY <1>5 DEF Sights
<1>7. SightsAgree
  <2>1. \A r \in DOMAIN row : row[r].version = 1
    BY <1>1
  <2> QED
    BY <1>4, <1>6, <2>1 DEF SightsAgree
<1>8. MigrationTypes
  <2>1. facilities \in Seq(Operators) /\ DOMAIN facilities = {}
    BY <1>2
  <2>2. row = [r \in DOMAIN row |-> row[r]] /\ DOMAIN row = DOMAIN first
    BY <1>1
  <2>3. posted \in [DOMAIN row -> Nat]
    BY <1>1, <1>4
  <2>4. /\ saves \in 0..MaxSaves /\ migrations \in 0..MaxRuns
        /\ migrationCrashes \in 0..MaxMigrationCrashes
    <3>1. MaxSaves \in Nat /\ MaxRuns \in Nat /\ MaxMigrationCrashes \in Nat
      BY MigrationConstants
    <3> QED
      BY <1>2, <3>1
  <2> QED
    BY <1>2, <1>3, <2>1, <2>2, <2>3, <2>4 DEF MigrationTypes
<1>9. RecordsFaithful
  BY <1>1, <1>4 DEF RecordsFaithful
<1>10. SayingsHold
  BY <1>2 DEF SayingsHold
<1> QED
  BY <1>5, <1>7, <1>8, <1>9, <1>10 DEF MigInv

LEMMA MigrationKept == ASSUME MigInv, Migration!Next PROVE MigInv'
<1>1. CASE \E c \in Operators : Migration!Step(c)
  <2>1. PICK c \in Operators : Migration!Step(c)
    BY <1>1
  <2> QED
    BY <2>1, StartRunKeeps, FindFacilityKeeps, CreateFacilityKeeps, ListKeeps, CountPostedKeeps,
       SkipRecordKeeps, PreviewRecordKeeps, UpdateRecordKeeps, UpdateFailsKeeps, MigrationCrashKeeps
       DEF Migration!Step
<1>2. CASE \E r \in DOMAIN row : Migration!UserSaves(r) \/ Migration!PostPeriod(r)
  BY <1>2, UserSavesKeeps, PostPeriodKeeps
<1> QED
  BY <1>1, <1>2 DEF Migration!Next, Migration!Records

LEMMA MigrationSound ==
  MigInv => Migration!TypeOK /\ Migration!MeaningKept /\ Migration!PromisesKept
<1> SUFFICES ASSUME MigInv PROVE Migration!TypeOK /\ Migration!MeaningKept /\ Migration!PromisesKept
  OBVIOUS
<1>1. Migration!TypeOK
  <2>1. \A r \in Migration!Records : row[r].version \in Nat \ {0}
    BY RowIsSeen DEF Migration!Records
  <2>2. \A c \in Operators : migration[c].at \in Pages /\ migration[c].todo \subseteq DOMAIN migration[c].listed
    BY DEF MigInv, Held
  <2>3. Migration!IsInjective(facilities)
    BY DEF MigInv, MigrationTypes, Migration!IsInjective
  <2> QED
    BY <2>1, <2>2, <2>3 DEF Migration!TypeOK, MigInv, MigrationTypes, Pages
<1>2. Migration!MeaningKept
  BY DEF Migration!MeaningKept, Migration!Records, Migration!None, MigInv, RecordsFaithful, Faithful, MeansWell
<1>3. Migration!PromisesKept
  BY DEF Migration!PromisesKept, MigInv, SayingsHold
<1> QED
  BY <1>1, <1>2, <1>3

LEMMA MigrationWritesWhole == ASSUME MigInv, Migration!Next PROVE Migration!Whole
<1> SUFFICES ASSUME NEW r \in DOMAIN row, row'[r] # row[r], saves' = saves
             PROVE  /\ ~\E f, g \in Migration!Money(row'[r].data) :
                         /\ row'[r].data[f] # meant[r][f] /\ row'[r].data[g] = meant[r][g]
                         /\ row'[r].data[g] > 0
                    /\ row[r].type = "FixedAsset" => row'[r].data.posted_period_count = posted[r]
  BY DEF Migration!Whole, Migration!Records
<1>1. saves \in 0..MaxSaves /\ MaxSaves \in Nat
  BY MigrationConstants DEF MigInv, MigrationTypes
<1>2. \E c \in Operators : Migration!Step(c)
  <2>1. saves' # saves + 1
    BY <1>1
  <2>2. \A s : ~Migration!UserSaves(s) /\ ~Migration!PostPeriod(s)
    BY <2>1 DEF Migration!UserSaves, Migration!PostPeriod
  <2> QED
    BY <2>2 DEF Migration!Next
<1>3. PICK c \in Operators : Migration!UpdateRecord(c)
  BY <1>2 DEF Migration!Step, Migration!StartRun, Migration!FindFacility, Migration!CreateFacility,
     Migration!List, Migration!CountPosted, Migration!SkipRecord, Migration!PreviewRecord,
     Migration!UpdateFails, Migration!Crash
<1>4. PICK s \in DOMAIN row : \E o :
        /\ row' = [row EXCEPT ![s].version = @ + 1, ![s].data = o]
        /\ Written(row[s].type, row[s].data, meant[s], o)
        /\ row[s].type = "FixedAsset" => o.posted_period_count = posted[s]
  BY <1>3, RecordWritten
<1>5. PICK o :
        /\ row' = [row EXCEPT ![s].version = @ + 1, ![s].data = o]
        /\ Written(row[s].type, row[s].data, meant[s], o)
        /\ row[s].type = "FixedAsset" => o.posted_period_count = posted[s]
  BY <1>4
<1>6. IsRecord(o, row[s].type) /\ AmountsOK(o)
  BY <1>5 DEF Written
<1>7. row'[s].data = o /\ \A a \in DOMAIN row : a # s => row'[a] = row[a]
  BY <1>5, <1>6, RowRewritten
<1>8. r = s
  BY <1>7
<1> QED
  BY <1>5, <1>7, <1>8 DEF Written

MigrationPartInv == part = "migration" => MigInv

LEMMA MigrationPartStep == MigrationPartInv /\ [Next]_vars => MigrationPartInv'
<1> SUFFICES ASSUME MigrationPartInv, [Next]_vars, part' = "migration" PROVE MigInv'
  BY DEF MigrationPartInv
<1>1. part = "migration" /\ (Migration!Next \/ UNCHANGED migrationVars)
  BY DEF Next, OthersIdle, Idle, vars, RegistryStep, TenancyStep, SyncStep, BundleStep,
     SetupStep, GraphStep, RulesStep, MigrationStep
<1>2. MigInv
  BY <1>1 DEF MigrationPartInv
<1>3. CASE Migration!Next
  BY <1>2, <1>3, MigrationKept
<1>4. CASE UNCHANGED migrationVars
  <2>1. UNCHANGED <<row, meant, posted, facilities, migration, promised, declined, saves,
                    migrations, migrationCrashes>>
    BY <1>4 DEF migrationVars
  <2>2. RowsMove
    BY <1>2, <2>1, RunHolds DEF RowsMove, MigInv, MigrationTypes
  <2>3. MigrationTypes'
    BY <1>2, <2>1 DEF MigInv, MigrationTypes
  <2>4. RecordsFaithful'
    BY <1>2, <2>1, FaithfulLater DEF MigInv, RecordsFaithful
  <2>5. \A b \in Operators : Held(b, migration[b])'
    BY <1>2, <2>1, <2>2, StillHeld
  <2> QED
    BY <1>2, <2>1, <2>2, <2>3, <2>4, <2>5, MigrationMoves
<1> QED
  BY <1>1, <1>3, <1>4

LEMMA MigrationInvariant == Spec => []MigrationPartInv
<1>1. Init => MigrationPartInv
  BY MigrationBegins DEF Init, MigrationPartInv
<1> QED
  BY <1>1, MigrationPartStep, PTL DEF Spec

(* recordmigrate.Run and the backfill commands, for any tenants, commands, *)
(* runs at the same time, saves between them, postings and crashes: what a *)
(* record says stays what its last writer meant, an update converts all of *)
(* a record's amounts or none and writes a count that is right, and what a *)
(* dry run promises of a version no run declines.                          *)
THEOREM MigrationsMean == Spec => MigrationsKeepMeaning
<1>1. MigrationPartInv =>
        (part = "migration" => Migration!TypeOK /\ Migration!MeaningKept /\ Migration!PromisesKept)
  BY MigrationSound DEF MigrationPartInv
<1>2. MigrationPartInv /\ [Next]_vars =>
        [part = "migration" => part' = "migration" /\ Migration!Whole]_vars
  <2>1. SUFFICES ASSUME MigrationPartInv, Next, part = "migration"
                 PROVE  part' = "migration" /\ Migration!Whole
    OBVIOUS
  <2>2. MigInv /\ UNCHANGED part /\ (Migration!Next \/ UNCHANGED migrationVars)
    BY <2>1 DEF MigrationPartInv, Next, OthersIdle, Idle, RegistryStep, TenancyStep, SyncStep,
       BundleStep, SetupStep, GraphStep, RulesStep, MigrationStep
  <2>3. CASE Migration!Next
    BY <2>1, <2>2, <2>3, MigrationWritesWhole
  <2>4. CASE UNCHANGED migrationVars
    BY <2>1, <2>2, <2>4 DEF migrationVars, Migration!Whole
  <2> QED
    BY <2>2, <2>3, <2>4
<1>3. MigrationPartInv /\ MigrationPartInv' /\ [Next]_vars =>
        [part = "migration" =>
           /\ (Migration!TypeOK /\ Migration!MeaningKept /\ Migration!PromisesKept)'
           /\ Migration!Whole]_vars
  <2>1. MigrationPartInv' =>
          ((part = "migration")' =>
             (Migration!TypeOK /\ Migration!MeaningKept /\ Migration!PromisesKept)')
    BY <1>1, PTL
  <2> QED
    BY <1>2, <2>1
<1> QED
  BY <1>3, MigrationInvariant, PTL DEF Spec, MigrationsKeepMeaning
=============================================================================
