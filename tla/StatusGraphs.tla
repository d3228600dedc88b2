----------------------------- MODULE StatusGraphs -----------------------------
(* Seeding of a status graph (internal/kernel/statusgraph) and the documents *)
(* that move along it (ValidateStatusTransition in internal/kernel/crud).    *)
(*                                                                           *)
(* Seed looks for each row before it creates it, one transaction a row, so   *)
(* that it can be run again after a crash and by every release: it must      *)
(* neither lose a row nor make one twice.  StatusType, Status and            *)
(* StatusTransition have no unique constraint, so two Seeds at once can; and *)
(* a document's status counts only under the StatusType that is found first. *)
EXTENDS Catalogue

CONSTANTS
  Seeders, Documents,
  SeedAlone,      \* no two commands seed a tenant at the same time
  MaxCrashes

VARIABLES
  code,           \* the StatusTypeCode whose graph is seeded
  rows,           \* rows, a sequence in the order of their created_at
  committed,      \* positions of the rows that are committed
  seeder,         \* seeder -> [pc, item, row, type, ids]
  document,       \* document -> the Status row it holds, or 0
  crashes

vars == <<code, rows, committed, seeder, document, crashes>>

AllGraphs == [c \in UNION {DOMAIN ModuleStatuses[m] : m \in DOMAIN ModuleStatuses} |->
                LET m == CHOOSE k \in DOMAIN ModuleStatuses : c \in DOMAIN ModuleStatuses[k]
                IN  ModuleStatuses[m][c]]
graph == AllGraphs[code]
specs == graph.specs

(* A graph as it is declared: no state or edge twice, edges between states,  *)
(* and a set of states that no edge leaves holds a terminal one, and every   *)
(* state if it holds the initial ones.                                       *)
WellDeclared(g) ==
  LET names == Range(g.specs.order)
  IN  /\ g.specs.order \in Seq(STRING) /\ IsInjective(g.specs.order)
      /\ g.edges \in Seq(names \X names) /\ IsInjective(g.edges)
      /\ g.specs.initial \subseteq names /\ g.specs.terminal \subseteq names
      /\ \A set \in SUBSET names :
            (\A i \in DOMAIN g.edges : g.edges[i][1] \in set => g.edges[i][2] \in set) =>
              /\ set # {} => set \intersect g.specs.terminal # {}
              /\ g.specs.initial \subseteq set => set = names

(* What Seed goes through: the StatusType, the statuses, the transitions.    *)
AllItems ==
  [c \in DOMAIN AllGraphs |->
     LET states == AllGraphs[c].specs.order
         edges == AllGraphs[c].edges
     IN  [i \in 1..(1 + Len(states) + Len(edges)) |->
            IF i = 1 THEN [kind |-> "type"]
            ELSE IF i <= 1 + Len(states) THEN [kind |-> "status", name |-> states[i - 1]]
            ELSE [kind |-> "edge", edge |-> edges[i - 1 - Len(states)]]]]
SeedItems == AllItems[code]

Idle == [pc |-> "idle", item |-> 1, row |-> 0, type |-> 0, ids |-> <<>>]

Init ==
  /\ code \in DOMAIN AllGraphs
  /\ rows = <<>> /\ committed = {}
  /\ seeder = [s \in Seeders |-> Idle]
  /\ document = [d \in Documents |-> 0]
  /\ crashes = 0

------------------------------------------------------------------------------
Types == {r \in committed : rows[r].kind = "type"}
(* statusTypeIDByCode and getOrCreate take the first of ListByField.         *)
First(ids) == IF ids = {} THEN 0 ELSE CHOOSE r \in ids : \A q \in ids : r <= q
statusTypeIDByCode == First(Types)
StatusesOf(type) == {r \in committed : rows[r].kind = "status" /\ rows[r].type = type}
EdgesFrom(status) == {r \in committed : rows[r].kind = "edge" /\ rows[r].from = status}

At(s) == SeedItems[seeder[s].item]

(* Faulty variant: every row is created anew.                                *)
NothingFound(s) == {}
(* The rows that are taken for the one the seeder is about to create.        *)
Found(s) ==
  CASE At(s).kind = "type" -> Types
    [] At(s).kind = "status" ->
         {r \in StatusesOf(seeder[s].type) : rows[r].name = At(s).name}
    [] At(s).kind = "edge" ->
         {r \in EdgesFrom(seeder[s].ids[At(s).edge[1]]) :
            rows[r].to = seeder[s].ids[At(s).edge[2]]}

NewRow(s) ==
  CASE At(s).kind = "type" -> [kind |-> "type"]
    [] At(s).kind = "status" ->
         [kind |-> "status", type |-> seeder[s].type, name |-> At(s).name]
    [] At(s).kind = "edge" ->
         [kind |-> "edge", type |-> seeder[s].type,
          from |-> seeder[s].ids[At(s).edge[1]], to |-> seeder[s].ids[At(s).edge[2]]]

(* The seeder goes on to the next item, knowing the row of this one.         *)
Advance(s, r) ==
  LET now == seeder[s]
      next == [now EXCEPT
                 !.pc = IF now.item = Len(SeedItems) THEN "done" ELSE "look",
                 !.item = now.item + 1, !.row = 0,
                 !.type = IF At(s).kind = "type" THEN r ELSE now.type,
                 !.ids = IF At(s).kind = "status"
                           THEN [n \in DOMAIN now.ids \union {At(s).name} |->
                                   IF n = At(s).name THEN r ELSE now.ids[n]]
                           ELSE now.ids]
  IN  seeder' = [seeder EXCEPT ![s] = next]

------------------------------------------------------------------------------
StartSeed(s) ==
  /\ seeder[s].pc = "idle"
  /\ SeedAlone => \A q \in Seeders : seeder[q].pc \in {"idle", "done"}
  /\ seeder' = [seeder EXCEPT ![s].pc = "look"]
  /\ UNCHANGED <<code, rows, committed, document, crashes>>

FindRow(s) ==
  /\ seeder[s].pc = "look" /\ Found(s) # {}
  /\ Advance(s, First(Found(s)))
  /\ UNCHANGED <<code, rows, committed, document, crashes>>

(* The row's created_at is the time its transaction begins.                  *)
CreateRow(s) ==
  /\ seeder[s].pc = "look" /\ Found(s) = {}
  /\ rows' = Append(rows, NewRow(s))
  /\ seeder' = [seeder EXCEPT ![s].pc = "commit", ![s].row = Len(rows) + 1]
  /\ UNCHANGED <<code, committed, document, crashes>>

CommitRow(s) ==
  /\ seeder[s].pc = "commit"
  /\ committed' = committed \union {seeder[s].row}
  /\ Advance(s, seeder[s].row)
  /\ UNCHANGED <<code, rows, document, crashes>>

(* The command dies, with the transaction it has open, or fails and ends.    *)
Crash(s) ==
  /\ seeder[s].pc \in {"look", "commit"} /\ crashes < MaxCrashes
  /\ seeder' = [seeder EXCEPT ![s] = Idle]
  /\ crashes' = crashes + 1
  /\ UNCHANGED <<code, rows, committed, document>>

------------------------------------------------------------------------------
(* Documents.                                                                *)

(* A document begins in an initial status and takes declared transitions.    *)
ValidateStatusTransition(from, to) ==
  /\ to \in StatusesOf(statusTypeIDByCode)
  /\ IF from = 0 THEN rows[to].name \in specs.initial
     ELSE \E e \in EdgesFrom(from) : rows[e].to = to /\ rows[e].type = statusTypeIDByCode

SaveDocument(d, to) ==
  /\ document[d] # to
  /\ ValidateStatusTransition(document[d], to)
  /\ document' = [document EXCEPT ![d] = to]
  /\ UNCHANGED <<code, rows, committed, seeder, crashes>>

SeederStep(s) ==
  StartSeed(s) \/ FindRow(s) \/ CreateRow(s) \/ CommitRow(s) \/ Crash(s)

Next ==
  \/ \E s \in Seeders : SeederStep(s)
  \/ \E d \in Documents, to \in committed : SaveDocument(d, to)

Spec == Init /\ [][Next]_vars

------------------------------------------------------------------------------
TypeOK ==
  /\ committed \subseteq DOMAIN rows
  /\ \A s \in Seeders : seeder[s].pc \in {"idle", "look", "commit", "done"}
  /\ \A d \in Documents : document[d] \in {0} \union committed
  /\ crashes \in 0..MaxCrashes

Seeded == \E s \in Seeders : seeder[s].pc = "done"

(* Seed: whatever it was interrupted at and however often it is run, no row  *)
(* is made twice, and a Seed that succeeded has left them all.               *)
SeededOnce ==
  /\ \A r, q \in committed : rows[r] = rows[q] => r = q
  /\ Seeded => Cardinality(committed) = Len(SeedItems)

(* The graphs the modules declare, as seeded: once its graph is seeded, a    *)
(* document always has a way to a status that ends it, and every status of   *)
(* the graph is one that some document can come to: a set of statuses that   *)
(* no transition leaves holds an end if a document is in it, and every       *)
(* status if it holds the initial ones.                                      *)
DocumentsCanEnd ==
  Seeded =>
    LET type == statusTypeIDByCode
        statuses == StatusesOf(type)
        moves == {<<rows[e].from, rows[e].to>> :
                    e \in {r \in committed : rows[r].kind = "edge" /\ rows[r].type = type}}
        named(set) == {r \in statuses : rows[r].name \in set}
        ends == named(specs.terminal)
        starts == named(specs.initial)
        held == {document[d] : d \in Documents} \ {0}
    IN  \A set \in SUBSET (statuses \union held) :
          (\A t \in moves : t[1] \in set => t[2] \in set) =>
            /\ set \intersect held # {} => set \intersect ends # {}
            /\ starts \subseteq set => statuses \subseteq set

=============================================================================
