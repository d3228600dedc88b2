----------------------------- MODULE ImportUpsert -----------------------------
(* The import of a relation of an external SQL source by a key column:       *)
(* internal/api/extsqlimport.go over sqlsource.CommitRowsUpserting.  Every   *)
(* imported record has an ExternalIdentity row, by which the next import     *)
(* updates it.  The record and its identity are two transactions; imports,   *)
(* the legacy system and the users of the tenant go on at the same time.     *)
(*                                                                           *)
(* One source and one entity type into which several relations are mapped    *)
(* ($Customer and $Vendor into Party).  A record has a field of each sort:   *)
(* "name" is mapped from a column, "kind" is a constant of the template, and *)
(* "notes" is neither.  Who may write is in Access, unique keys are in       *)
(* RecordStore.                                                              *)
EXTENDS Integers, FiniteSets, Sequences

CONSTANTS
  Relations, Keys,
  Sources,        \* what the source may hold: relation -> rows [key, name]
  NoKey,          \* an empty key cell
  Names, Blank,   \* the mapped column may hold Names; Blank fails validation
  Imports,
  MaxRecords, MaxRuns, MaxEdits, MaxCrashes

LegacyRow == [key : Keys, name : Names \cup {Blank}]

ASSUME SourcesAssumption == \A s \in Sources : s \in [Relations -> Seq(LegacyRow)]

VARIABLES
  legacy,         \* relation -> its rows, [key, name]
  record,         \* the imported records, by number: [from, version, data]
  identity,       \* ExternalIdentity rows, [relation, key, record]
  import,         \* import -> what it is doing
  told,           \* records reported as "created but its identity row failed"
  cut,            \* records whose import crashed before their identity
  kept,           \* record -> field -> what a user put there since, or None
  runs, edits, crashes

vars == <<legacy, record, identity, import, told, cut, kept, runs, edits,
          crashes>>

None == "-"
FieldNames == {"name", "kind", "notes"}
Constant == "stock"          \* nav2009Template pins Item's item_type
Idle == [at |-> "idle", relation |-> None, rows |-> <<>>, known |-> {},
         seen |-> {}, next |-> 1, target |-> 0, read |-> [version |-> 0]]

Init ==
  /\ legacy \in Sources
  /\ record = <<>> /\ identity = {} /\ kept = <<>>
  /\ import = [i \in Imports |-> Idle]
  /\ told = {} /\ cut = {} /\ runs = 0 /\ edits = 0 /\ crashes = 0

------------------------------------------------------------------------------
(* FetchRows and ApplyConstants: what the import works on from here.         *)
Fetch(i) ==
  /\ import[i].at = "idle" /\ runs < MaxRuns /\ runs' = runs + 1
  /\ \E r \in DOMAIN legacy :
       import' = [import EXCEPT ![i] = [Idle EXCEPT !.at = "load",
                    !.relation = r, !.rows = legacy[r]]]
  /\ UNCHANGED <<legacy, record, identity, told, cut, kept, edits, crashes>>

OfRelation(i) == {d \in identity : d.relation = import[i].relation}

LoadIdentities(i) ==
  /\ import[i].at = "load"
  /\ import' = [import EXCEPT ![i] = [@ EXCEPT !.at = "row", !.known = OfRelation(i)]]
  /\ UNCHANGED <<legacy, record, identity, told, cut, kept, runs, edits,
                 crashes>>

Row(i) == import[i].rows[import[i].next]
AtRow(i) == import[i].at = "row" /\ import[i].next <= Len(import[i].rows)
Targets(i) == {d.record : d \in {k \in import[i].known : k.key = Row(i).key}}

(* PreviewRows, MarkMissingKeys and the keys earlier rows have used.         *)
Invalid(i) == Row(i).name = Blank \/ Row(i).key = NoKey
Refused(i) == Invalid(i) \/ Row(i).key \in import[i].seen

(* The row after this one, with s done to the import.                        *)
Advance(i, s) ==
  import' = [import EXCEPT ![i] = [s EXCEPT !.at = "row", !.target = 0,
               !.next = @ + 1, !.read = [version |-> 0],
               !.seen = IF Invalid(i) THEN @ ELSE @ \cup {Row(i).key}]]

RefuseRow(i) ==
  /\ AtRow(i)
  /\ Refused(i) \/ Cardinality(Targets(i)) > 1
  /\ Advance(i, import[i])
  /\ UNCHANGED <<legacy, record, identity, told, cut, kept, runs, edits,
                 crashes>>

(* buildRowData with the constants.                                          *)
RowData(i) == [name |-> Row(i).name, kind |-> Constant, notes |-> None]

CreateRecord(i) ==
  /\ AtRow(i) /\ ~Refused(i) /\ Targets(i) = {} /\ Len(record) < MaxRecords
  /\ record' = Append(record, [from |-> <<import[i].relation, Row(i).key>>,
                               version |-> 1,
                               data |-> RowData(i)])
  /\ kept' = Append(kept, [f \in FieldNames |-> None])
  /\ import' = [import EXCEPT ![i] =
                   [@ EXCEPT !.at = "identity", !.target = Len(record')]]
  /\ UNCHANGED <<legacy, identity, told, cut, runs, edits, crashes>>

(* Faulty variant: ExternalIdentity without its Unique.                      *)
NeverTaken(i) == FALSE
IdentityTaken(i) ==
  \E d \in identity : d.relation = import[i].relation /\ d.key = Row(i).key

(* The write may fail of itself too: the deadline of the request.            *)
CreateIdentity(i) ==
  LET d == [relation |-> import[i].relation, key |-> Row(i).key,
            record |-> import[i].target] IN
    /\ import[i].at = "identity" /\ ~IdentityTaken(i)
    /\ identity' = identity \cup {d}
    /\ Advance(i, [import[i] EXCEPT !.known = @ \cup {d}])
    /\ UNCHANGED <<legacy, record, told, cut, kept, runs, edits, crashes>>

IdentityFails(i) ==
  /\ import[i].at = "identity"
  /\ \/ IdentityTaken(i) /\ UNCHANGED crashes
     \/ crashes < MaxCrashes /\ crashes' = crashes + 1
  /\ told' = told \cup {import[i].target}
  /\ Advance(i, import[i])
  /\ UNCHANGED <<legacy, record, identity, cut, kept, runs, edits>>

ReadTarget(i) ==
  /\ AtRow(i) /\ ~Refused(i) /\ Cardinality(Targets(i)) = 1
  /\ LET t == CHOOSE t \in Targets(i) : TRUE IN
       import' = [import EXCEPT ![i] =
                    [@ EXCEPT !.at = "merge", !.target = t, !.read = record[t]]]
  /\ UNCHANGED <<legacy, record, identity, told, cut, kept, runs, edits,
                 crashes>>

Merge(i) == [RowData(i) EXCEPT !.notes = import[i].read.data.notes]

SameVersion(i) == record[import[i].target].version = import[i].read.version

Updated(r, data) == [from |-> r.from, version |-> r.version + 1, data |-> data]

UpdateRecord(i) ==
  /\ import[i].at = "merge" /\ SameVersion(i)
  /\ record' = [record EXCEPT ![import[i].target] = Updated(@, Merge(i))]
  /\ Advance(i, import[i])
  /\ UNCHANGED <<legacy, identity, told, cut, kept, runs, edits, crashes>>

UpdateConflicts(i) ==
  /\ import[i].at = "merge" /\ ~SameVersion(i)
  /\ Advance(i, import[i])
  /\ UNCHANGED <<legacy, record, identity, told, cut, kept, runs, edits,
                 crashes>>

Report(i) ==
  /\ import[i].at = "row" /\ import[i].next > Len(import[i].rows)
  /\ import' = [import EXCEPT ![i] = Idle]
  /\ UNCHANGED <<legacy, record, identity, told, cut, kept, runs, edits,
                 crashes>>

(* The process dies, or the deadline passes between two rows.                *)
Crash(i) ==
  /\ import[i].at # "idle"
  /\ crashes < MaxCrashes /\ crashes' = crashes + 1
  /\ cut' = IF import[i].at # "identity" THEN cut
            ELSE cut \cup {import[i].target}
  /\ import' = [import EXCEPT ![i] = Idle]
  /\ UNCHANGED <<legacy, record, identity, told, kept, runs, edits>>

------------------------------------------------------------------------------
(* A user edits the record, the legacy system renames its row.               *)
UserEdits(n) ==
  /\ edits < MaxEdits /\ edits' = edits + 1
  /\ \E f \in FieldNames \ {"name"} :
       /\ record' = [record EXCEPT ![n] = Updated(@, [@.data EXCEPT ![f] = "user"])]
       /\ kept' = [kept EXCEPT ![n] = [@ EXCEPT ![f] = "user"]]
  /\ UNCHANGED <<legacy, identity, import, told, cut, runs, crashes>>

Renamed(rows, n, v) == [rows EXCEPT ![n] = [rows[n] EXCEPT !.name = v]]

LegacyChanges(r, n) ==
  /\ edits < MaxEdits /\ edits' = edits + 1
  /\ \E v \in Names :
       /\ v # legacy[r][n].name
       /\ legacy' = [legacy EXCEPT ![r] = Renamed(@, n, v)]
  /\ UNCHANGED <<record, identity, import, told, cut, kept, runs, crashes>>

Step(i) ==
  \/ Fetch(i) \/ LoadIdentities(i) \/ RefuseRow(i) \/ CreateRecord(i)
  \/ CreateIdentity(i) \/ IdentityFails(i) \/ ReadTarget(i) \/ UpdateRecord(i)
  \/ UpdateConflicts(i) \/ Report(i) \/ Crash(i)

Next ==
  \/ \E i \in Imports : Step(i)
  \/ \E n \in DOMAIN record : UserEdits(n)
  \/ \E r \in DOMAIN legacy : \E n \in DOMAIN legacy[r] : LegacyChanges(r, n)

Spec == Init /\ [][Next]_vars

------------------------------------------------------------------------------
Data == [name : Names \cup {Blank}, kind : {Constant, "user"}, notes : {None, "user"}]
Record == [from : Relations \X Keys, version : Nat, data : Data]
ExternalIdentity == [relation : Relations, key : Keys, record : Nat]
ImportState ==
  [at : {"idle", "load", "row", "identity", "merge"}, relation : Relations \cup {None},
   rows : Seq(LegacyRow), known : SUBSET ExternalIdentity, seen : SUBSET Keys, next : Nat \ {0},
   target : Nat, read : Record \cup {[version |-> 0]}]

(* Every variable has its type, and what is reported was made.               *)
TypeOK ==
  /\ legacy \in [Relations -> Seq(LegacyRow)]
  /\ record \in Seq(Record)
  /\ kept \in Seq([FieldNames -> {None, "user"}]) /\ Len(kept) = Len(record)
  /\ identity \in SUBSET ExternalIdentity
  /\ import \in [Imports -> ImportState]
  /\ told \cup cut \subseteq DOMAIN record

(* An import writes only the records of its own relation and key: an         *)
(* identity leads to the record made for it, so no Vendor import overwrites  *)
(* a Customer of the same number (the package comment of upsert.go).         *)
OwnRecordsOnly ==
  /\ \A d \in identity : record[d.record].from = <<d.relation, d.key>>
  /\ \A i \in Imports : import[i].at = "merge" =>
       record[import[i].target].from = <<import[i].relation, Row(i).key>>

(* Of all records made for one legacy row, one has the identity; the others  *)
(* are those the import has reported, or a crash has cut off from theirs     *)
(* (CommitRowsUpserting, "Sequencing").                                      *)
DuplicatesAreKnown ==
  LET beingMade == {import[i].target : i \in {j \in Imports :
                                                import[j].at = "identity"}}
      quiet == (DOMAIN record) \ (told \cup cut \cup beingMade)
  IN \A m, n \in quiet : record[m].from = record[n].from => m = n

(* What a user put into a field the import does not map stays, whatever      *)
(* imports run (CommitRowsUpserting, "Updates MERGE").                       *)
UnmappedEditsStay ==
  \A n \in DOMAIN record : kept[n]["notes"] \in {None, record[n].data["notes"]}

(* CommitRowsUpserting, whatever other imports, edits and crashes come in    *)
(* between: an import writes its own records only, a duplicate is known, and *)
(* what it does not map stays.                                               *)
ImportsKeepRecords ==
  TypeOK /\ OwnRecordsOnly /\ DuplicatesAreKnown /\ UnmappedEditsStay

(* "fields a human set after the first import [...] survive a refresh", the  *)
(* constants of the template included, of which nav2009Template says that    *)
(* "a human adjusts service items after import".                             *)
AdjustmentsStay ==
  \A n \in DOMAIN record : kept[n]["kind"] \in {None, record[n].data["kind"]}
==============================================================================
