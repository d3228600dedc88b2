---------------------------- MODULE BundleInstall ----------------------------
(* cmd/install-module: modulebundle.Load and Install put a module that does *)
(* not ship with the program into a tenant's registry.  Everything that     *)
(* speaks against it is looked up first; then its entities, its forms and   *)
(* its status graphs are written, a transaction each.  An install that dies *)
(* half way is run again, after other installs and rollbacks.               *)
EXTENDS Integers, SequencesExt, FiniteSetsExt

CONSTANTS
  Bundles,         \* bundle files
  Author, Module,  \* who wrote it, and the module key it gives itself
  Items,           \* its <<kind, type, version>>: entities, then forms
  Graphs,          \* its status graphs: entity type -> StatusTypeCode
  Types, Versions, Codes,
  BuiltIn,         \* entity type -> its module, for what the program ships
  CodeOf,          \* entity type -> StatusTypeCode, for what the program ships
  InstallAlone,    \* no two installs run on a tenant at the same time
  MaxStops

VARIABLES
  row,             \* row[kind, type, version]: [status, by]
  owners,          \* code -> the entity type of its StatusType row, or None
  graph,           \* code -> the types whose statuses and edges it holds
  install,         \* bundle -> [pc, pos, blocked]
  stops

vars == <<row, owners, graph, install, stops>>

Core == "core"
None == "none"
Kinds == {"entity", "form"}
Statuses == {"absent", "started", "published", "rolled_back"}
ReservedModules == {BuiltIn[t] : t \in DOMAIN BuiltIn}
AuthorOf(by) == IF by = Core THEN Core ELSE Author[by]
ModuleOf(by, t) == IF by = Core THEN BuiltIn[t] ELSE Module[by]

NewInstall == [pc |-> "idle", pos |-> 1, blocked |-> FALSE]

(* A tenant that has the built-in modules.                                  *)
Init ==
  /\ row = [k \in Kinds \X Types \X Versions |->
              IF k[2] \in DOMAIN BuiltIn /\ k[3] = 1
                THEN [status |-> "published", by |-> Core]
                ELSE [status |-> "absent", by |-> None]]
  /\ owners = [c \in Codes |-> IF \E t \in DOMAIN CodeOf : CodeOf[t] = c
                                 THEN CHOOSE t \in DOMAIN CodeOf : CodeOf[t] = c ELSE None]
  /\ graph = [c \in Codes |-> {t \in DOMAIN CodeOf : CodeOf[t] = c}]
  /\ install = [b \in Bundles |-> NewInstall]
  /\ stops = 0

------------------------------------------------------------------------------
(* What speaks against an install.                                          *)
PublishedRow(kind, t) ==
  LET up == {v \in Versions : row[<<kind, t, v>>].status = "published"}
  IN  IF up = {} THEN None ELSE row[<<kind, t, Max(up)>>].by
EntityTypes(b) == {t \in Types : \E v \in Versions : <<"entity", t, v>> \in Range(Items[b])}

(* Faulty variant: the owner of a type is not looked at.                   *)
AnyOwner(b) == FALSE

(* Load.                                                                    *)
KeyIsReserved(b) == Module[b] \in ReservedModules
(* checkConflicts: the version exists with another content.                 *)
ContentDiffers(b) ==
  \E k \in Range(Items[b]) : row[k].status # "absent" /\ row[k].by # b
(* The definition in force of an entity type is of another module.          *)
OwnedByAnother(b) ==
  \E t \in EntityTypes(b) :
     PublishedRow("entity", t) # None /\ ModuleOf(PublishedRow("entity", t), t) # Module[b]
(* The StatusType of a code is another entity's.                            *)
CodeOwnedByAnother(b) ==
  \E t \in DOMAIN Graphs[b] : owners[Graphs[b][t]] \notin {None, t}

Running(b) == install[b].pc \notin {"idle", "refused", "installed", "incomplete"}

Start(b) ==
  /\ install[b].pc = "idle"
  /\ InstallAlone => \A q \in Bundles : ~Running(q)
  /\ LET refused == KeyIsReserved(b) \/ ContentDiffers(b) \/ OwnedByAnother(b)
                    \/ CodeOwnedByAnother(b)
     IN  install' = [install EXCEPT ![b].pc = IF refused THEN "refused" ELSE "publish"]
  /\ UNCHANGED <<row, owners, graph, stops>>

------------------------------------------------------------------------------
(* moduleseed.PublishAll of the entities and of the forms.  "started" stands *)
(* for draft and approved.                                                  *)
At(b) == Items[b][install[b].pos]
Goto(b, pc, pos) == install' = [install EXCEPT ![b].pc = pc, ![b].pos = pos]
Past(b) == IF install[b].pos = Len(Items[b]) THEN Goto(b, "check", 1)
                                             ELSE Goto(b, "publish", install[b].pos + 1)

CreateDraft(b) ==
  /\ install[b].pc = "publish" /\ row[At(b)].status = "absent"
  /\ row' = [row EXCEPT ![At(b)] = [status |-> "started", by |-> b]]
  /\ UNCHANGED <<owners, graph, install, stops>>

PublishDraft(b) ==
  /\ install[b].pc = "publish" /\ row[At(b)].status = "started"
  /\ row' = [row EXCEPT ![At(b)].status = "published"]
  /\ Past(b)
  /\ UNCHANGED <<owners, graph, stops>>

LeaveAlone(b) ==
  /\ install[b].pc = "publish" /\ row[At(b)].status \in {"published", "rolled_back"}
  /\ Past(b)
  /\ UNCHANGED <<row, owners, graph, stops>>

BlockedItems(b) == \E k \in Range(Items[b]) : row[k].status = "rolled_back"

CheckBlocked(b) ==
  /\ install[b].pc = "check"
  /\ install' = [install EXCEPT ![b].pc = "seed", ![b].blocked = BlockedItems(b)]
  /\ UNCHANGED <<row, owners, graph, stops>>

(* statusgraph.Seed finds the StatusType by its code alone.                 *)
Seed(b, t) ==
  /\ install[b].pc = "seed" /\ t \in DOMAIN Graphs[b] /\ t \notin graph[Graphs[b][t]]
  /\ owners' = [owners EXCEPT ![Graphs[b][t]] = IF @ = None THEN t ELSE @]
  /\ graph' = [graph EXCEPT ![Graphs[b][t]] = @ \union {t}]
  /\ UNCHANGED <<row, install, stops>>

(* install-module ends with an error when something was left behind.        *)
Finish(b) ==
  /\ install[b].pc = "seed"
  /\ \A t \in DOMAIN Graphs[b] : t \in graph[Graphs[b][t]]
  /\ install' = [install EXCEPT ![b].pc =
                   IF install[b].blocked THEN "incomplete" ELSE "installed"]
  /\ UNCHANGED <<row, owners, graph, stops>>

(* The command dies, or meets an error and ends; it will be run again.      *)
Stop(b) ==
  /\ Running(b) /\ stops < MaxStops
  /\ stops' = stops + 1
  /\ install' = [install EXCEPT ![b] = NewInstall]
  /\ UNCHANGED <<row, owners, graph>>

Again(b) ==
  /\ install[b].pc \in {"refused", "incomplete"}
  /\ install' = [install EXCEPT ![b] = NewInstall]
  /\ UNCHANGED <<row, owners, graph, stops>>

Rollback(k) ==
  /\ row[k].status = "published"
  /\ row' = [row EXCEPT ![k].status = "rolled_back"]
  /\ UNCHANGED <<owners, graph, install, stops>>

InstallStep(b) ==
  \/ Start(b) \/ CreateDraft(b) \/ PublishDraft(b) \/ LeaveAlone(b)
  \/ CheckBlocked(b) \/ (\E t \in Types : Seed(b, t)) \/ Finish(b) \/ Stop(b) \/ Again(b)

Next ==
  \/ \E b \in Bundles : InstallStep(b)
  \/ \E k \in Kinds \X Types \X Versions : Rollback(k)

Spec == Init /\ [][Next]_vars

------------------------------------------------------------------------------
TypeOK ==
  /\ \A k \in DOMAIN row : /\ row[k].status \in Statuses
                           /\ row[k].by \in Bundles \union {Core, None}
  /\ \A c \in Codes : owners[c] \in Types \union {None} /\ graph[c] \subseteq Types
  /\ stops \in 0..MaxStops

(* Install refuses a hijack: the versions of an entity type that are in     *)
(* force or could come to be by a rollback are all of one author, whatever  *)
(* installs died half way and were run again in between.                    *)
OneOwner ==
  \A t \in Types, v, w \in Versions :
     (row[<<"entity", t, v>>].status = "published" /\ row[<<"entity", t, w>>].status = "published")
       => AuthorOf(row[<<"entity", t, v>>].by) = AuthorOf(row[<<"entity", t, w>>].by)

(* No statuses and edges of one entity come into the graph of another.      *)
GraphsUnshared == \A c \in Codes : Cardinality(graph[c]) <= 1

(* install-module reports success only if every definition of this bundle,  *)
(* with its content, has come into force.                                   *)
InstalledIsItsOwn ==
  \A b \in Bundles : install[b].pc = "installed" =>
    \A k \in Range(Items[b]) : row[k].by = b /\ row[k].status \in {"published", "rolled_back"}

=============================================================================
