-------------------------- MODULE TenantDataProofs --------------------------
(* What a tenant stores, for any number of imports, tasks, editors, forms  *)
(* and clients: imports keep to their own records, tasks form trees,       *)
(* secrets stay with the vendor they were entered for, and the rows of     *)
(* files have their bytes.                                                 *)
EXTENDS TenantWork, FiniteSetTheorems, SequenceTheorems, TLAPS

-----------------------------------------------------------------------------
(* An import works on a relation, knows identities of it only, and has in  *)
(* hand a record made for the row it is at.                                *)
Known(i) ==
  /\ import[i].at # "idle" => import[i].relation \in Relations
  /\ import[i].known \subseteq identity
  /\ \A d \in import[i].known : d.relation = import[i].relation
InHand(i) ==
  import[i].at \in {"identity", "merge"} =>
    /\ import[i].next \in 1..Len(import[i].rows)
    /\ import[i].target \in DOMAIN record
    /\ record[import[i].target].from = <<import[i].relation, Row(i).key>>
(* What was read for a merge is what is stored, unless the version moved.  *)
Fresh(i) ==
  import[i].at = "merge" =>
    /\ import[i].read \in Record
    /\ import[i].read.version <= record[import[i].target].version
    /\ import[i].read.version = record[import[i].target].version
         => import[i].read.data = record[import[i].target].data
ImportOK(i) == Known(i) /\ InHand(i) /\ Fresh(i)

OwnIdentities ==
  \A d \in identity : d.record \in DOMAIN record /\ record[d.record].from = <<d.relation, d.key>>
OneIdentityEach ==
  \A d, e \in identity : d.relation = e.relation /\ d.key = e.key => d = e
(* A record without an identity is in hand, reported or cut off.           *)
Accounted(n) ==
  \/ n \in told \cup cut
  \/ \E i \in Imports : import[i].at = "identity" /\ import[i].target = n
  \/ \E d \in identity : d.record = n

ImportInv ==
  /\ TypeOK
  /\ \A i \in Imports : ImportOK(i)
  /\ OwnIdentities /\ OneIdentityEach
  /\ \A n \in DOMAIN record : Accounted(n)
  /\ UnmappedEditsStay

(* What every step leaves of the records and identities there are.         *)
Grows ==
  /\ identity \subseteq identity'
  /\ \A n \in DOMAIN record :
       /\ n \in DOMAIN record' /\ record'[n].from = record[n].from
       /\ record[n].version <= record'[n].version
       /\ record'[n].version = record[n].version => record'[n].data = record[n].data

-----------------------------------------------------------------------------
LEMMA InitImports == Init => ImportInv
<1> SUFFICES ASSUME Init PROVE ImportInv
  OBVIOUS
<1>1. legacy \in [Relations -> Seq(LegacyRow)]
  BY SourcesAssumption DEF Init
<1>2. Idle \in ImportState
  BY DEF Idle, ImportState, None
<1>3. TypeOK
  <2>1. record \in Seq(Record) /\ kept \in Seq([FieldNames -> {None, "user"}])
    BY DEF Init
  <2>2. import \in [Imports -> ImportState]
    BY <1>2 DEF Init
  <2> QED
    BY <1>1, <2>1, <2>2 DEF Init, TypeOK
<1>4. \A i \in Imports : ImportOK(i)
  BY DEF Init, ImportOK, Known, InHand, Fresh, Idle
<1>5. OwnIdentities /\ OneIdentityEach
  BY DEF Init, OwnIdentities, OneIdentityEach
<1>6. DOMAIN record = {}
  BY DEF Init
<1>7. (\A n \in DOMAIN record : Accounted(n)) /\ UnmappedEditsStay
  BY <1>6 DEF UnmappedEditsStay
<1> QED
  BY <1>3, <1>4, <1>5, <1>7 DEF ImportInv

LEMMA VersionsCount ==
  ASSUME TypeOK PROVE \A n \in DOMAIN record : record[n] \in Record /\ record[n].version \in Nat
<1> SUFFICES ASSUME NEW n \in DOMAIN record
             PROVE  record[n] \in Record /\ record[n].version \in Nat
  OBVIOUS
<1>1. record \in Seq(Record) /\ n \in 1..Len(record)
  BY DEF TypeOK
<1>2. record[n] \in Record
  BY <1>1, ElementOfSeq
<1> QED
  BY <1>2 DEF Record

(* An import that does not move keeps what it holds.                       *)
LEMMA OthersKeep ==
  ASSUME TypeOK, TypeOK', Grows, NEW j \in Imports, ImportOK(j), import'[j] = import[j]
  PROVE  ImportOK(j)'
<1> DEFINE t == import[j].target
<1>1. Known(j)'
  BY DEF ImportOK, Known, Grows
<1>2. Row(j)' = Row(j)
  BY DEF Row
<1>3. InHand(j)'
  BY <1>2 DEF ImportOK, InHand, Grows
<1>4. ASSUME import[j].at = "merge" PROVE Fresh(j)'
  <2>1. t \in DOMAIN record /\ import[j].read \in Record
    BY <1>4 DEF ImportOK, InHand, Fresh
  <2>2. record \in Seq(Record) /\ record[t] \in Record
    BY <2>1 DEF TypeOK
  <2>3. record[t].version \in Nat /\ import[j].read.version \in Nat
    BY <2>1, <2>2 DEF Record
  <2>5. t \in DOMAIN record' /\ record'[t].version \in Nat
    <3>1. t \in DOMAIN record' /\ record' \in Seq(Record)
      BY <2>1 DEF Grows, TypeOK
    <3>2. t \in 1..Len(record')
      BY <3>1
    <3>3. record'[t] \in Record
      BY <3>1, <3>2, ElementOfSeq
    <3> QED
      BY <3>1, <3>3 DEF Record
  <2>4. /\ import[j].read.version <= record[t].version
        /\ import[j].read.version = record[t].version => import[j].read.data = record[t].data
    BY <1>4 DEF ImportOK, Fresh
  <2> QED
    BY <2>1, <2>3, <2>4, <2>5 DEF Fresh, Grows
<1>5. CASE import[j].at # "merge"
  BY <1>5, <1>1, <1>3 DEF ImportOK, Fresh
<1> QED
  BY <1>1, <1>3, <1>4, <1>5 DEF ImportOK

LEMMA RowIsLegacyRow ==
  ASSUME TypeOK, NEW i \in Imports, import[i].next \in 1..Len(import[i].rows)
  PROVE  Row(i) \in LegacyRow
<1>1. import[i].rows \in Seq(LegacyRow)
  BY DEF TypeOK, ImportState
<1> QED
  BY <1>1, ElementOfSeq DEF Row

LEMMA AtRowIsRow ==
  ASSUME TypeOK, NEW i \in Imports, AtRow(i)
  PROVE  import[i].next \in 1..Len(import[i].rows)
<1>1. import[i].next \in Nat \ {0} /\ import[i].rows \in Seq(LegacyRow)
  BY DEF TypeOK, ImportState
<1> QED
  BY <1>1, LenProperties DEF AtRow

(* An import that goes on to its next row keeps its relation and what it   *)
(* knows.                                                                  *)
LEMMA Advances ==
  ASSUME TypeOK, NEW i \in Imports, NEW s \in ImportState, Row(i) \in LegacyRow, Advance(i, s)
  PROVE  \E t \in ImportState :
            /\ import' = [import EXCEPT ![i] = t]
            /\ t.at = "row" /\ t.relation = s.relation /\ t.known = s.known
<1> DEFINE t == [s EXCEPT !.at = "row", !.target = 0, !.next = @ + 1,
                          !.read = [version |-> 0],
                          !.seen = IF Invalid(i) THEN @ ELSE @ \cup {Row(i).key}]
<1>1. t \in ImportState
  <2>1. Row(i).key \in Keys
    BY DEF LegacyRow
  <2>2. t.seen \in SUBSET Keys
    BY <2>1 DEF ImportState
  <2>3. s.next \in Nat \ {0} /\ s.next + 1 \in Nat \ {0}
    BY DEF ImportState
  <2> QED
    BY <2>2, <2>3 DEF ImportState
<1>2. t.at = "row" /\ t.relation = s.relation /\ t.known = s.known
  BY DEF ImportState
<1>3. import' = [import EXCEPT ![i] = t]
  BY DEF Advance
<1> QED
  BY <1>1, <1>2, <1>3

(* A step of an import that writes nothing, except that it accounts for    *)
(* the record it had in hand.                                              *)
LEMMA OnlyTheImport ==
  ASSUME ImportInv, NEW i \in Imports, NEW s \in ImportState,
         import' = [import EXCEPT ![i] = s], UNCHANGED <<legacy, record, identity, kept>>,
         told \subseteq told', cut \subseteq cut', told' \cup cut' \subseteq DOMAIN record,
         import[i].at = "identity" => import[i].target \in told' \cup cut',
         ImportOK(i)'
  PROVE  ImportInv'
<1>1. TypeOK'
  BY DEF ImportInv, TypeOK
<1>2. Grows
  <2>1. \A n \in DOMAIN record : record[n].version \in Nat
    BY VersionsCount DEF ImportInv
  <2> QED
    BY <2>1 DEF Grows
<1>3. \A j \in Imports \ {i} : import'[j] = import[j]
  BY DEF ImportInv, TypeOK
<1>4. \A j \in Imports : ImportOK(j)'
  BY <1>1, <1>2, <1>3, OthersKeep DEF ImportInv
<1>5. OwnIdentities' /\ OneIdentityEach' /\ UnmappedEditsStay'
  BY DEF ImportInv, OwnIdentities, OneIdentityEach, UnmappedEditsStay
<1>6. ASSUME NEW n \in DOMAIN record' PROVE Accounted(n)'
  <2>1. Accounted(n)
    BY DEF ImportInv
  <2>2. CASE n \in told \cup cut \/ \E d \in identity : d.record = n
    BY <2>2 DEF Accounted
  <2>3. CASE \E j \in Imports : import[j].at = "identity" /\ import[j].target = n
    BY <1>3, <2>3 DEF Accounted
  <2> QED
    BY <2>1, <2>2, <2>3 DEF Accounted
<1> QED
  BY <1>1, <1>4, <1>5, <1>6 DEF ImportInv

-----------------------------------------------------------------------------
LEMMA FetchKeeps == ASSUME ImportInv, NEW i \in Imports, Fetch(i) PROVE ImportInv'
<1>1. PICK r \in DOMAIN legacy :
        import' = [import EXCEPT ![i] = [Idle EXCEPT !.at = "load", !.relation = r,
                                                     !.rows = legacy[r]]]
  BY DEF Fetch
<1> DEFINE s == [Idle EXCEPT !.at = "load", !.relation = r, !.rows = legacy[r]]
<1>2. r \in Relations /\ legacy[r] \in Seq(LegacyRow)
  BY DEF ImportInv, TypeOK
<1>3. s \in ImportState
  <2>1. Idle \in ImportState
    BY DEF Idle, ImportState, None
  <2> QED
    BY <1>2, <2>1 DEF ImportState
<1>4. import'[i] = s
  BY <1>1 DEF ImportInv, TypeOK
<1>5. ImportOK(i)'
  BY <1>2, <1>4 DEF ImportOK, Known, InHand, Fresh, Idle
<1>6. told \cup cut \subseteq DOMAIN record
  BY DEF ImportInv, TypeOK
<1> QED
  BY <1>1, <1>3, <1>5, <1>6, OnlyTheImport DEF Fetch

LEMMA LoadKeeps == ASSUME ImportInv, NEW i \in Imports, LoadIdentities(i) PROVE ImportInv'
<1> DEFINE s == [import[i] EXCEPT !.at = "row", !.known = OfRelation(i)]
<1>1. import' = [import EXCEPT ![i] = s]
  BY DEF LoadIdentities, ImportInv, TypeOK
<1>2. s \in ImportState
  BY DEF ImportInv, TypeOK, ImportState, OfRelation
<1>3. import'[i] = s /\ s.at = "row" /\ s.known = OfRelation(i) /\ s.relation = import[i].relation
  BY <1>1 DEF ImportInv, TypeOK, ImportState
<1>4. import[i].relation \in Relations
  BY DEF ImportInv, ImportOK, Known, LoadIdentities
<1>5. ImportOK(i)'
  BY <1>3, <1>4 DEF ImportOK, Known, InHand, Fresh, OfRelation, LoadIdentities
<1>6. told \cup cut \subseteq DOMAIN record
  BY DEF ImportInv, TypeOK
<1> QED
  BY <1>1, <1>2, <1>5, <1>6, OnlyTheImport DEF LoadIdentities

(* RefuseRow and UpdateConflicts.                                          *)
LEMMA SkipKeeps ==
  ASSUME ImportInv, NEW i \in Imports, import[i].at \in {"row", "merge"},
         import[i].next \in 1..Len(import[i].rows), Advance(i, import[i]),
         UNCHANGED <<legacy, record, identity, told, cut, kept>>
  PROVE  ImportInv'
<1>1. import[i] \in ImportState /\ Row(i) \in LegacyRow /\ told \cup cut \subseteq DOMAIN record
  BY RowIsLegacyRow DEF ImportInv, TypeOK
<1>2. PICK t \in ImportState :
        /\ import' = [import EXCEPT ![i] = t]
        /\ t.at = "row" /\ t.relation = import[i].relation /\ t.known = import[i].known
  BY <1>1, Advances DEF ImportInv
<1>3. import'[i] = t
  BY <1>2 DEF ImportInv, TypeOK
<1>4. ImportOK(i)'
  BY <1>2, <1>3 DEF ImportInv, ImportOK, Known, InHand, Fresh
<1> QED
  BY <1>1, <1>2, <1>4, OnlyTheImport

(* Report and Crash.                                                       *)
LEMMA EndKeeps ==
  ASSUME ImportInv, NEW i \in Imports, import' = [import EXCEPT ![i] = Idle],
         UNCHANGED <<legacy, record, identity, told, kept>>, cut \subseteq cut',
         cut' \subseteq cut \cup {import[i].target},
         import[i].at = "identity" => import[i].target \in cut',
         import[i].at # "identity" => cut' = cut
  PROVE  ImportInv'
<1>1. Idle \in ImportState
  BY DEF Idle, ImportState
<1>2. import'[i] = Idle
  BY DEF ImportInv, TypeOK
<1>3. ImportOK(i)'
  BY <1>2 DEF ImportOK, Known, InHand, Fresh, Idle
<1>4. told' \cup cut' \subseteq DOMAIN record
  BY DEF ImportInv, TypeOK, ImportOK, InHand
<1> QED
  BY <1>1, <1>3, <1>4, OnlyTheImport

LEMMA IdentityFailsKeeps ==
  ASSUME ImportInv, NEW i \in Imports, IdentityFails(i) PROVE ImportInv'
<1>1. import[i].at = "identity" /\ Advance(i, import[i]) /\ told' = told \cup {import[i].target}
  BY DEF IdentityFails
<1>2. import[i].next \in 1..Len(import[i].rows) /\ import[i].target \in DOMAIN record
  BY <1>1 DEF ImportInv, ImportOK, InHand
<1>3. import[i] \in ImportState /\ Row(i) \in LegacyRow /\ told' \cup cut \subseteq DOMAIN record
  BY <1>1, <1>2, RowIsLegacyRow DEF ImportInv, TypeOK
<1>4. PICK t \in ImportState :
        /\ import' = [import EXCEPT ![i] = t]
        /\ t.at = "row" /\ t.relation = import[i].relation /\ t.known = import[i].known
  BY <1>1, <1>3, Advances DEF ImportInv
<1>5. import'[i] = t
  BY <1>4 DEF ImportInv, TypeOK
<1>6. ImportOK(i)'
  BY <1>1, <1>4, <1>5 DEF ImportInv, ImportOK, Known, InHand, Fresh, IdentityFails
<1> QED
  BY <1>1, <1>3, <1>4, <1>6, OnlyTheImport DEF IdentityFails

LEMMA ReadKeeps == ASSUME ImportInv, NEW i \in Imports, ReadTarget(i) PROVE ImportInv'
<1> DEFINE t == CHOOSE x \in Targets(i) : TRUE
           s == [import[i] EXCEPT !.at = "merge", !.target = t, !.read = record[t]]
<1>1. t \in Targets(i)
  <2>1. ASSUME Targets(i) = {} PROVE FALSE
    BY <2>1, FS_EmptySet DEF ReadTarget
  <2> QED
    BY <2>1
<1>2. PICK d \in import[i].known : d.key = Row(i).key /\ d.record = t
  BY <1>1 DEF Targets
<1>3. /\ t \in DOMAIN record
      /\ record[t].from = <<import[i].relation, Row(i).key>>
  BY <1>2 DEF ImportInv, ImportOK, Known, OwnIdentities
<1>4. record[t] \in Record /\ t \in Nat
  BY <1>3, ElementOfSeq DEF ImportInv, TypeOK
<1>5. import' = [import EXCEPT ![i] = s]
  BY DEF ReadTarget, ImportInv, TypeOK
<1>6. s \in ImportState
  BY <1>4 DEF ImportInv, TypeOK, ImportState
<1>7. import'[i] = s
  BY <1>5 DEF ImportInv, TypeOK
<1>8. /\ s.at = "merge" /\ s.target = t /\ s.read = record[t] /\ s.rows = import[i].rows
      /\ s.next = import[i].next /\ s.known = import[i].known /\ s.relation = import[i].relation
  BY DEF ImportInv, TypeOK, ImportState
<1>9. ImportOK(i)'
  <2>1. Known(i)'
    BY <1>7, <1>8 DEF ImportInv, ImportOK, Known, ReadTarget, AtRow
  <2>2. Row(i)' = Row(i) /\ import[i].next \in 1..Len(import[i].rows)
    BY <1>7, <1>8, AtRowIsRow DEF Row, ReadTarget, ImportInv
  <2>3. InHand(i)'
    BY <1>3, <1>7, <1>8, <2>2 DEF InHand, ReadTarget
  <2>4. record[t].version \in Nat
    BY <1>4 DEF Record
  <2>5. /\ import'[i].read = record[t] /\ import'[i].target = t
        /\ record'[t] = record[t] /\ record[t].version <= record[t].version
    <3>1. record' = record
      BY DEF ReadTarget
    <3> HIDE DEF t, s
    <3> QED
      BY <1>7, <1>8, <2>4, <3>1
  <2>6. Fresh(i)'
    BY <1>4, <2>5 DEF Fresh
  <2> QED
    BY <2>1, <2>3, <2>6 DEF ImportOK
<1>10. told \cup cut \subseteq DOMAIN record
  BY DEF ImportInv, TypeOK
<1> QED
  BY <1>5, <1>6, <1>9, <1>10, OnlyTheImport DEF ReadTarget, AtRow

-----------------------------------------------------------------------------
(* CreateRecord and its identity.                                          *)
LEMMA CreateRecordKeeps == ASSUME ImportInv, NEW i \in Imports, CreateRecord(i) PROVE ImportInv'
<1> DEFINE new == [from |-> <<import[i].relation, Row(i).key>>, version |-> 1,
                   data |-> RowData(i)]
           none == [f \in FieldNames |-> None]
           n0 == Len(record) + 1
           s == [import[i] EXCEPT !.at = "identity", !.target = n0]
<1>1. import[i].next \in 1..Len(import[i].rows)
  BY AtRowIsRow DEF ImportInv, CreateRecord
<1>2. Row(i) \in LegacyRow /\ import[i].relation \in Relations
  BY <1>1, RowIsLegacyRow DEF ImportInv, ImportOK, Known, CreateRecord, AtRow
<1>3. new \in Record
  BY <1>2 DEF Record, Data, RowData, LegacyRow
<1>4. /\ record \in Seq(Record) /\ kept \in Seq([FieldNames -> {None, "user"}])
      /\ Len(kept) = Len(record)
  BY DEF ImportInv, TypeOK
<1>5. none \in [FieldNames -> {None, "user"}]
  OBVIOUS
<1>6. record' = Append(record, new) /\ kept' = Append(kept, none)
  BY DEF CreateRecord
<1>7. /\ record' \in Seq(Record) /\ Len(record') = n0 /\ record'[n0] = new
      /\ \A n \in 1..Len(record) : record'[n] = record[n]
  BY <1>3, <1>4, <1>6, AppendProperties
<1>8. /\ kept' \in Seq([FieldNames -> {None, "user"}]) /\ Len(kept') = n0 /\ kept'[n0] = none
      /\ \A n \in 1..Len(kept) : kept'[n] = kept[n]
  BY <1>4, <1>5, <1>6, AppendProperties
<1>9. DOMAIN record = 1..Len(record) /\ DOMAIN record' = 1..n0 /\ Len(record) \in Nat
  BY <1>4, <1>7, LenProperties
<1>10. import' = [import EXCEPT ![i] = s]
  BY <1>7 DEF CreateRecord, ImportInv, TypeOK
<1>11. s \in ImportState
  <2>1. n0 \in Nat /\ import[i] \in ImportState
    BY <1>9 DEF ImportInv, TypeOK
  <2> HIDE DEF n0
  <2> QED
    BY <2>1 DEF ImportState
<1>12. import'[i] = s /\ \A j \in Imports \ {i} : import'[j] = import[j]
  BY <1>10 DEF ImportInv, TypeOK
<1>13. /\ s.at = "identity" /\ s.target = n0 /\ s.rows = import[i].rows
       /\ s.next = import[i].next /\ s.known = import[i].known
       /\ s.relation = import[i].relation
  BY DEF ImportInv, TypeOK, ImportState
<1>14. UNCHANGED <<legacy, identity, told, cut>>
  BY DEF CreateRecord
<1>15. TypeOK'
  <2>1. import' \in [Imports -> ImportState]
    BY <1>10, <1>11 DEF ImportInv, TypeOK
  <2>2. told' \cup cut' \subseteq DOMAIN record'
    BY <1>9, <1>14 DEF ImportInv, TypeOK
  <2> QED
    BY <1>7, <1>8, <1>14, <2>1, <2>2 DEF ImportInv, TypeOK
<1>16. Grows
  <2>1. \A n \in DOMAIN record : record[n].version \in Nat
    BY VersionsCount DEF ImportInv
  <2> QED
    BY <1>7, <1>9, <1>14, <2>1 DEF Grows
<1>17. ImportOK(i)'
  <2>1. Known(i)'
    BY <1>2, <1>12, <1>13, <1>14 DEF ImportInv, ImportOK, Known
  <2>2. Row(i)' = Row(i)
    BY <1>12, <1>13 DEF Row
  <2>3. InHand(i)'
    BY <1>1, <1>7, <1>9, <1>12, <1>13, <2>2 DEF InHand
  <2>4. Fresh(i)'
    BY <1>12, <1>13 DEF Fresh
  <2> QED
    BY <2>1, <2>3, <2>4 DEF ImportOK
<1>18. \A j \in Imports : ImportOK(j)'
  BY <1>12, <1>15, <1>16, <1>17, OthersKeep DEF ImportInv
<1>19. OwnIdentities' /\ OneIdentityEach'
  BY <1>14, <1>16 DEF ImportInv, OwnIdentities, OneIdentityEach, Grows
<1>20. ASSUME NEW n \in DOMAIN record' PROVE Accounted(n)'
  <2>1. CASE n = n0
    BY <1>12, <1>13, <2>1 DEF Accounted
  <2>2. CASE n # n0
    <3>1. Accounted(n)
      BY <1>9, <1>20, <2>2 DEF ImportInv
    <3>2. \A j \in Imports : import[j].at = "identity" => j # i
      BY DEF CreateRecord, AtRow
    <3> QED
      BY <1>12, <1>14, <3>1, <3>2 DEF Accounted
  <2> QED
    BY <2>1, <2>2
<1>21. UnmappedEditsStay'
  <2> SUFFICES ASSUME NEW n \in DOMAIN record'
               PROVE  kept'[n]["notes"] \in {None, record'[n].data["notes"]}
    BY DEF UnmappedEditsStay
  <2>1. CASE n = n0
    BY <1>8, <2>1 DEF FieldNames
  <2>2. CASE n # n0
    BY <1>4, <1>7, <1>8, <1>9, <2>2 DEF ImportInv, UnmappedEditsStay
  <2> QED
    BY <2>1, <2>2
<1> QED
  BY <1>15, <1>18, <1>19, <1>20, <1>21 DEF ImportInv

LEMMA CreateIdentityKeeps ==
  ASSUME ImportInv, NEW i \in Imports, CreateIdentity(i) PROVE ImportInv'
<1> DEFINE d == [relation |-> import[i].relation, key |-> Row(i).key,
                 record |-> import[i].target]
           s == [import[i] EXCEPT !.known = @ \cup {d}]
<1>1. /\ import[i].at = "identity" /\ ~IdentityTaken(i) /\ identity' = identity \cup {d}
      /\ Advance(i, s) /\ UNCHANGED <<legacy, record, told, cut, kept>>
  <2>1. Advance(i, [import[i] EXCEPT !.known = @ \cup {d}])
    BY DEF CreateIdentity
  <2> QED
    BY <2>1 DEF CreateIdentity
<1>2. /\ import[i].next \in 1..Len(import[i].rows) /\ import[i].target \in DOMAIN record
      /\ record[import[i].target].from = <<import[i].relation, Row(i).key>>
  BY <1>1 DEF ImportInv, ImportOK, InHand
<1>3. Row(i) \in LegacyRow /\ import[i].relation \in Relations
  BY <1>1, <1>2, RowIsLegacyRow DEF ImportInv, ImportOK, Known
<1>4. import[i] \in ImportState
  BY DEF ImportInv, TypeOK
<1>5. d \in ExternalIdentity
  BY <1>3, <1>4 DEF ExternalIdentity, LegacyRow, ImportState
<1>6. s \in ImportState /\ s.relation = import[i].relation /\ s.known = import[i].known \cup {d}
  <2> HIDE DEF d
  <2> QED
    BY <1>4, <1>5 DEF ImportState
<1>7. PICK t \in ImportState :
        /\ import' = [import EXCEPT ![i] = t]
        /\ t.at = "row" /\ t.relation = import[i].relation
        /\ t.known = import[i].known \cup {d}
  <2> HIDE DEF s
  <2> QED
    BY <1>1, <1>3, <1>6, Advances DEF ImportInv
<1>8. import'[i] = t /\ \A j \in Imports \ {i} : import'[j] = import[j]
  BY <1>7 DEF ImportInv, TypeOK
<1>9. TypeOK'
  <2>1. import' \in [Imports -> ImportState]
    BY <1>7 DEF ImportInv, TypeOK
  <2>2. identity' \in SUBSET ExternalIdentity
    BY <1>1, <1>5 DEF ImportInv, TypeOK
  <2> QED
    BY <1>1, <2>1, <2>2 DEF ImportInv, TypeOK
<1>10. Grows
  <2>1. \A n \in DOMAIN record : record[n].version \in Nat
    BY VersionsCount DEF ImportInv
  <2> QED
    BY <1>1, <2>1 DEF Grows
<1>11. d.relation = import[i].relation /\ d.key = Row(i).key /\ d.record = import[i].target
  OBVIOUS
<1> HIDE DEF d
<1>12. ImportOK(i)'
  BY <1>1, <1>3, <1>7, <1>8, <1>11 DEF ImportInv, ImportOK, Known, InHand, Fresh
<1>13. \A j \in Imports : ImportOK(j)'
  BY <1>8, <1>9, <1>10, <1>12, OthersKeep DEF ImportInv
<1>14. OwnIdentities'
  BY <1>1, <1>2, <1>11 DEF ImportInv, OwnIdentities
<1>15. OneIdentityEach'
  BY <1>1, <1>11 DEF ImportInv, OneIdentityEach, IdentityTaken
<1>16. ASSUME NEW n \in DOMAIN record' PROVE Accounted(n)'
  <2>1. Accounted(n)
    BY <1>1 DEF ImportInv
  <2>2. CASE n \in told \cup cut \/ \E e \in identity : e.record = n
    BY <1>1, <2>2 DEF Accounted
  <2>3. CASE \E j \in Imports : import[j].at = "identity" /\ import[j].target = n
    BY <1>1, <1>8, <1>11, <2>3 DEF Accounted
  <2> QED
    BY <2>1, <2>2, <2>3 DEF Accounted
<1>17. UnmappedEditsStay'
  BY <1>1 DEF ImportInv, UnmappedEditsStay
<1> QED
  BY <1>9, <1>13, <1>14, <1>15, <1>16, <1>17 DEF ImportInv

-----------------------------------------------------------------------------
(* A write of record n, as its next version: UpdateRecord and UserEdits.   *)
LEMMA WriteGrows ==
  ASSUME TypeOK, NEW n \in DOMAIN record, NEW data \in Data, UNCHANGED identity,
         record' = [record EXCEPT ![n] = Updated(@, data)]
  PROVE  /\ Grows /\ record' \in Seq(Record) /\ Len(record') = Len(record)
         /\ DOMAIN record' = DOMAIN record /\ record'[n].data = data
         /\ \A m \in DOMAIN record : m # n => record'[m] = record[m]
<1> DEFINE r == Updated(record[n], data)
<1>1. record \in Seq(Record) /\ n \in 1..Len(record) /\ record[n] \in Record
  BY VersionsCount DEF TypeOK
<1>2. /\ r \in Record /\ r.from = record[n].from /\ r.version = record[n].version + 1
      /\ r.data = data /\ record[n].version \in Nat
  <2>1. record[n].from \in Relations \X Keys /\ record[n].version \in Nat
    BY <1>1 DEF Record
  <2> QED
    BY <2>1 DEF Record, Updated
<1>3. record' = [record EXCEPT ![n] = r]
  OBVIOUS
<1> HIDE DEF r
<1>4. /\ record' \in Seq(Record) /\ Len(record') = Len(record) /\ record'[n] = r
      /\ \A m \in 1..Len(record) : m # n => record'[m] = record[m]
  BY <1>1, <1>2, <1>3, ExceptSeq
<1>5. DOMAIN record = 1..Len(record) /\ DOMAIN record' = 1..Len(record')
  BY <1>1, <1>4, LenProperties
<1>6. Grows
  <2> SUFFICES ASSUME NEW m \in DOMAIN record
               PROVE  /\ m \in DOMAIN record' /\ record'[m].from = record[m].from
                      /\ record[m].version <= record'[m].version
                      /\ record'[m].version = record[m].version
                           => record'[m].data = record[m].data
    BY DEF Grows
  <2>1. CASE m = n
    BY <1>2, <1>4, <1>5, <2>1
  <2>2. CASE m # n
    <3>1. record'[m] = record[m] /\ record[m].version \in Nat
      BY <1>4, <1>5, <2>2, VersionsCount
    <3> QED
      BY <1>4, <1>5, <3>1
  <2> QED
    BY <2>1, <2>2
<1> QED
  BY <1>2, <1>4, <1>5, <1>6

LEMMA UpdateRecordKeeps ==
  ASSUME ImportInv, NEW i \in Imports, UpdateRecord(i) PROVE ImportInv'
<1> DEFINE n == import[i].target
           data == Merge(i)
<1>1. /\ import[i].at = "merge" /\ SameVersion(i) /\ Advance(i, import[i])
      /\ UNCHANGED <<legacy, identity, told, cut, kept>>
      /\ record' = [record EXCEPT ![n] = Updated(@, data)]
  BY DEF UpdateRecord
<1>2. import[i].next \in 1..Len(import[i].rows) /\ n \in DOMAIN record
  BY <1>1 DEF ImportInv, ImportOK, InHand
<1>3. /\ import[i] \in ImportState /\ Row(i) \in LegacyRow
      /\ told \cup cut \subseteq DOMAIN record
  BY <1>2, RowIsLegacyRow DEF ImportInv, TypeOK
<1>4. import[i].read \in Record /\ import[i].read.data = record[n].data
  BY <1>1 DEF ImportInv, ImportOK, Fresh, SameVersion
<1>5. data \in Data /\ data.notes = record[n].data.notes
  <2>1. import[i].read.data \in Data
    BY <1>4 DEF Record
  <2> QED
    BY <1>3, <1>4, <2>1 DEF Merge, RowData, Data, LegacyRow
<1> HIDE DEF data
<1>6. /\ Grows /\ record' \in Seq(Record) /\ Len(record') = Len(record)
      /\ DOMAIN record' = DOMAIN record /\ record'[n].data = data
      /\ \A m \in DOMAIN record : m # n => record'[m] = record[m]
  BY <1>1, <1>2, <1>5, WriteGrows DEF ImportInv
<1>7. PICK t \in ImportState :
        /\ import' = [import EXCEPT ![i] = t]
        /\ t.at = "row" /\ t.relation = import[i].relation /\ t.known = import[i].known
  BY <1>1, <1>3, Advances DEF ImportInv
<1>8. import'[i] = t /\ \A j \in Imports \ {i} : import'[j] = import[j]
  BY <1>7 DEF ImportInv, TypeOK
<1>9. TypeOK'
  <2>1. import' \in [Imports -> ImportState]
    BY <1>7 DEF ImportInv, TypeOK
  <2> QED
    BY <1>1, <1>6, <2>1 DEF ImportInv, TypeOK
<1>10. ImportOK(i)'
  BY <1>1, <1>7, <1>8 DEF ImportInv, ImportOK, Known, InHand, Fresh
<1>11. \A j \in Imports : ImportOK(j)'
  BY <1>6, <1>8, <1>9, <1>10, OthersKeep DEF ImportInv
<1>12. OwnIdentities' /\ OneIdentityEach'
  BY <1>1, <1>6 DEF ImportInv, OwnIdentities, OneIdentityEach, Grows
<1>13. ASSUME NEW m \in DOMAIN record' PROVE Accounted(m)'
  <2>1. Accounted(m)
    BY <1>6 DEF ImportInv
  <2> QED
    BY <1>1, <1>8, <2>1 DEF Accounted
<1>14. UnmappedEditsStay'
  <2> SUFFICES ASSUME NEW m \in DOMAIN record'
               PROVE  kept[m]["notes"] \in {None, record'[m].data["notes"]}
    BY <1>1 DEF UnmappedEditsStay
  <2>1. m \in DOMAIN record /\ kept[m]["notes"] \in {None, record[m].data["notes"]}
    BY <1>6 DEF ImportInv, UnmappedEditsStay
  <2>2. record'[m].data["notes"] = record[m].data["notes"]
    BY <1>5, <1>6, <2>1
  <2> QED
    BY <2>1, <2>2
<1> QED
  BY <1>9, <1>11, <1>12, <1>13, <1>14 DEF ImportInv

LEMMA UserEditsKeeps ==
  ASSUME ImportInv, NEW n \in DOMAIN record, UserEdits(n) PROVE ImportInv'
<1>1. PICK f \in FieldNames \ {"name"} :
        /\ record' = [record EXCEPT ![n] = Updated(@, [@.data EXCEPT ![f] = "user"])]
        /\ kept' = [kept EXCEPT ![n] = [@ EXCEPT ![f] = "user"]]
  BY DEF UserEdits
<1> DEFINE data == [record[n].data EXCEPT ![f] = "user"]
           k == [kept[n] EXCEPT ![f] = "user"]
<1>2. UNCHANGED <<legacy, identity, import, told, cut>>
  BY DEF UserEdits
<1>3. /\ record \in Seq(Record) /\ kept \in Seq([FieldNames -> {None, "user"}])
      /\ n \in 1..Len(kept) /\ DOMAIN record = DOMAIN kept /\ record[n] \in Record
      /\ DOMAIN kept = 1..Len(kept)
  BY VersionsCount DEF ImportInv, TypeOK
<1>4. f \in {"kind", "notes"} /\ record[n].data \in Data
  BY <1>3 DEF FieldNames, Record
<1>5. data \in Data /\ (f = "notes" => data["notes"] = "user")
      /\ (f # "notes" => data["notes"] = record[n].data["notes"])
  BY <1>4 DEF Data
<1>6. record' = [record EXCEPT ![n] = Updated(@, data)]
  BY <1>1
<1>7. kept[n] \in [FieldNames -> {None, "user"}]
  BY <1>3, ElementOfSeq
<1>8. /\ k \in [FieldNames -> {None, "user"}] /\ (f = "notes" => k["notes"] = "user")
      /\ (f # "notes" => k["notes"] = kept[n]["notes"]) /\ kept' = [kept EXCEPT ![n] = k]
  BY <1>1, <1>7 DEF FieldNames
<1> HIDE DEF data, k
<1>9. /\ Grows /\ record' \in Seq(Record) /\ Len(record') = Len(record)
      /\ DOMAIN record' = DOMAIN record /\ record'[n].data = data
      /\ \A m \in DOMAIN record : m # n => record'[m] = record[m]
  BY <1>2, <1>5, <1>6, WriteGrows DEF ImportInv
<1>10. /\ kept' \in Seq([FieldNames -> {None, "user"}]) /\ Len(kept') = Len(kept)
       /\ kept'[n] = k /\ \A m \in 1..Len(kept) : m # n => kept'[m] = kept[m]
  BY <1>3, <1>8, ExceptSeq
<1>11. TypeOK'
  BY <1>2, <1>9, <1>10 DEF ImportInv, TypeOK
<1>12. \A j \in Imports : ImportOK(j)'
  BY <1>2, <1>9, <1>11, OthersKeep DEF ImportInv
<1>13. OwnIdentities' /\ OneIdentityEach'
  BY <1>2, <1>9 DEF ImportInv, OwnIdentities, OneIdentityEach, Grows
<1>14. \A m \in DOMAIN record' : Accounted(m)'
  BY <1>2, <1>9 DEF ImportInv, Accounted
<1>15. UnmappedEditsStay'
  <2> SUFFICES ASSUME NEW m \in DOMAIN record'
               PROVE  kept'[m]["notes"] \in {None, record'[m].data["notes"]}
    BY DEF UnmappedEditsStay
  <2>1. m \in 1..Len(kept) /\ kept[m]["notes"] \in {None, record[m].data["notes"]}
    BY <1>3, <1>9 DEF ImportInv, UnmappedEditsStay
  <2>2. CASE m = n
    BY <1>5, <1>8, <1>9, <1>10, <2>1, <2>2
  <2>3. CASE m # n
    BY <1>3, <1>9, <1>10, <2>1, <2>3
  <2> QED
    BY <2>2, <2>3
<1> QED
  BY <1>11, <1>12, <1>13, <1>14, <1>15 DEF ImportInv

(* A step that leaves the records, the identities and the imports alone.   *)
LEMMA LegacyKeeps ==
  ASSUME ImportInv, legacy' \in [Relations -> Seq(LegacyRow)],
         UNCHANGED <<record, identity, import, told, cut, kept>>
  PROVE  ImportInv'
<1>1. TypeOK'
  BY DEF ImportInv, TypeOK
<1>2. Grows
  <2>1. \A n \in DOMAIN record : record[n].version \in Nat
    BY VersionsCount DEF ImportInv
  <2> QED
    BY <2>1 DEF Grows
<1>3. \A j \in Imports : ImportOK(j)'
  BY <1>1, <1>2, OthersKeep DEF ImportInv
<1> QED
  BY <1>1, <1>3 DEF ImportInv, OwnIdentities, OneIdentityEach, Accounted, UnmappedEditsStay

LEMMA LegacyChangesKeeps ==
  ASSUME ImportInv, NEW r \in DOMAIN legacy, NEW n \in DOMAIN legacy[r], LegacyChanges(r, n)
  PROVE  ImportInv'
<1>1. PICK v \in Names : legacy' = [legacy EXCEPT ![r] = Renamed(@, n, v)]
  BY DEF LegacyChanges
<1> DEFINE row == [legacy[r][n] EXCEPT !.name = v]
           rows == Renamed(legacy[r], n, v)
<1>2. /\ legacy \in [Relations -> Seq(LegacyRow)] /\ r \in Relations
      /\ legacy[r] \in Seq(LegacyRow)
  BY DEF ImportInv, TypeOK
<1>3. n \in 1..Len(legacy[r]) /\ legacy[r][n] \in LegacyRow
  BY <1>2, ElementOfSeq, LenProperties
<1>4. row \in LegacyRow
  BY <1>3 DEF LegacyRow
<1>7. rows = [legacy[r] EXCEPT ![n] = row] /\ legacy' = [legacy EXCEPT ![r] = rows]
  BY <1>1 DEF Renamed
<1> HIDE DEF row
<1>5. rows \in Seq(LegacyRow)
  BY <1>2, <1>3, <1>4, <1>7, ExceptSeq
<1> HIDE DEF rows
<1>6. legacy' \in [Relations -> Seq(LegacyRow)]
  BY <1>2, <1>5, <1>7
<1> QED
  BY <1>6, LegacyKeeps DEF LegacyChanges

-----------------------------------------------------------------------------
LEMMA StepKeeps == ASSUME ImportInv, NEW i \in Imports, Step(i) PROVE ImportInv'
<1>1. CASE Fetch(i)
  BY <1>1, FetchKeeps
<1>2. CASE LoadIdentities(i)
  BY <1>2, LoadKeeps
<1>3. CASE RefuseRow(i)
  <2>1. import[i].at = "row" /\ import[i].next \in 1..Len(import[i].rows)
    BY <1>3, AtRowIsRow DEF RefuseRow, AtRow, ImportInv
  <2> QED
    BY <1>3, <2>1, SkipKeeps DEF RefuseRow
<1>4. CASE CreateRecord(i)
  BY <1>4, CreateRecordKeeps
<1>5. CASE CreateIdentity(i)
  BY <1>5, CreateIdentityKeeps
<1>6. CASE IdentityFails(i)
  BY <1>6, IdentityFailsKeeps
<1>7. CASE ReadTarget(i)
  BY <1>7, ReadKeeps
<1>8. CASE UpdateRecord(i)
  BY <1>8, UpdateRecordKeeps
<1>9. CASE UpdateConflicts(i)
  <2>1. import[i].at = "merge" /\ import[i].next \in 1..Len(import[i].rows)
    BY <1>9 DEF UpdateConflicts, ImportInv, ImportOK, InHand
  <2> QED
    BY <1>9, <2>1, SkipKeeps DEF UpdateConflicts
<1>10. CASE Report(i)
  BY <1>10, EndKeeps DEF Report
<1>11. CASE Crash(i)
  BY <1>11, EndKeeps DEF Crash
<1> QED
  BY <1>1, <1>2, <1>3, <1>4, <1>5, <1>6, <1>7, <1>8, <1>9, <1>10, <1>11 DEF Step

(* No step of an import, a user or the legacy system breaks the invariant. *)
THEOREM ImportInvariant == Spec => []ImportInv
<1>1. Init => ImportInv
  BY InitImports
<1>2. ImportInv /\ [Next]_vars => ImportInv'
  <2> SUFFICES ASSUME ImportInv, [Next]_vars PROVE ImportInv'
    OBVIOUS
  <2>1. CASE \E i \in Imports : Step(i)
    BY <2>1, StepKeeps
  <2>2. CASE \E n \in DOMAIN record : UserEdits(n)
    BY <2>2, UserEditsKeeps
  <2>3. CASE \E r \in DOMAIN legacy : \E n \in DOMAIN legacy[r] : LegacyChanges(r, n)
    BY <2>3, LegacyChangesKeeps
  <2>4. CASE UNCHANGED vars
    <3>1. legacy' \in [Relations -> Seq(LegacyRow)]
      BY <2>4 DEF ImportInv, TypeOK, vars
    <3> QED
      BY <2>4, <3>1, LegacyKeeps DEF vars
  <2> QED
    BY <2>1, <2>2, <2>3, <2>4 DEF Next
<1> QED
  BY <1>1, <1>2, PTL DEF Spec

LEMMA InvMeansKept == ASSUME ImportInv PROVE ImportsKeepRecords
<1>1. OwnRecordsOnly
  BY DEF ImportInv, OwnRecordsOnly, OwnIdentities, ImportOK, InHand
<1>2. DuplicatesAreKnown
  <2> DEFINE beingMade == {import[i].target : i \in {j \in Imports :
                                                       import[j].at = "identity"}}
             quiet == (DOMAIN record) \ (told \cup cut \cup beingMade)
  <2>1. ASSUME NEW n \in quiet
        PROVE  \E d \in identity : d.record = n /\ record[n].from = <<d.relation, d.key>>
    <3>1. Accounted(n) /\ n \notin told \cup cut
      BY DEF ImportInv
    <3>2. \A i \in Imports : ~(import[i].at = "identity" /\ import[i].target = n)
      OBVIOUS
    <3> QED
      BY <3>1, <3>2 DEF ImportInv, Accounted, OwnIdentities
  <2>2. ASSUME NEW m \in quiet, NEW n \in quiet, record[m].from = record[n].from
        PROVE  m = n
    BY <2>1, <2>2 DEF ImportInv, OneIdentityEach
  <2> QED
    BY <2>2 DEF DuplicatesAreKnown
<1> QED
  BY <1>1, <1>2 DEF ImportInv, ImportsKeepRecords

(* Whatever relations are imported, however often and side by side, and    *)
(* wherever users, the legacy system and crashes come in between: an       *)
(* import writes only records made for its own rows, every duplicate is    *)
(* reported or cut off by a crash, and what it does not map stays          *)
(* (CommitRowsUpserting).                                                  *)
THEOREM RecordsAreKept == Spec => []ImportsKeepRecords
<1>1. ImportInv => ImportsKeepRecords
  BY InvMeansKept
<1> QED
  BY <1>1, ImportInvariant, PTL

-----------------------------------------------------------------------------
(* The task hierarchy.                                                     *)

TaskRow == [state : {"live", "deleted"}, project : Projects,
            parent : Tasks \union {NoTask}, assignee : Parties \union {NoParty}]
Exist == Hierarchy!GetTxIncludingDeleted
(* No ancestor of a record that would be the parent is the record itself:  *)
(* some set that has the parent, and the parents of its own, is without it. *)
Apart(id, parent) ==
  parent = NoTask
    \/ \E S \in SUBSET Tasks : parent \in S /\ Hierarchy!HasParents(S) /\ id \notin S
TasksType ==
  /\ task \in [Tasks -> TaskRow \union {Hierarchy!Absent}]
  /\ edit \in [Editors -> [pc : {"write"}, id : Tasks, row : Hierarchy!Values]
                            \union {Hierarchy!Idle}]
  /\ employee \subseteq Parties
(* Whoever writes is the only one, and what it checked still holds.        *)
EditHolds(e) ==
  edit[e] # Hierarchy!Idle =>
    /\ \A f \in Editors : edit[f] # Hierarchy!Idle => f = e
    /\ Hierarchy!Known(edit[e].row.parent)
    /\ Apart(edit[e].id, edit[e].row.parent)
ParentHolds(t) == Hierarchy!Known(task[t].parent) /\ Apart(t, task[t].parent)
TasksInv ==
  /\ TasksType
  /\ \A t \in Exist : ParentHolds(t)
  /\ \A e \in Editors : EditHolds(e)

LEMMA TaskExists ==
  ASSUME TasksType, NEW t \in Tasks
  PROVE  /\ t \in Exist => task[t] \in TaskRow /\ task[t] # Hierarchy!Absent
         /\ t \notin Exist => task[t] = Hierarchy!Absent
<1>1. \A r \in TaskRow : r.state # "absent" /\ r # Hierarchy!Absent
  BY DEF TaskRow, Hierarchy!Absent
<1>2. Hierarchy!Absent.state = "absent"
  BY DEF Hierarchy!Absent
<1> QED
  BY <1>1, <1>2 DEF TasksType, Exist, Hierarchy!GetTxIncludingDeleted

(* The walk of checkSelfReferenceCycle finds no cycle exactly then.        *)
LEMMA ApartIsNoCycle ==
  ASSUME NEW id \in Tasks, NEW parent
  PROVE  Apart(id, parent) <=> ~Hierarchy!FormsCycle(id, parent)
  BY DEF Apart, Hierarchy!FormsCycle, Hierarchy!Chain

LEMMA TasksInit == ASSUME Hierarchy!Init PROVE TasksInv
<1>1. TasksType
  BY DEF Hierarchy!Init, TasksType
<1>2. Exist = {}
  BY DEF Hierarchy!Init, Exist, Hierarchy!GetTxIncludingDeleted, Hierarchy!Absent
<1> QED
  BY <1>1, <1>2 DEF Hierarchy!Init, TasksInv, EditHolds

(* A record with an id of its own and a known parent is nobody's ancestor. *)
LEMMA TasksCreate ==
  ASSUME TasksInv, NEW row \in Hierarchy!Values, Hierarchy!Create(row)
  PROVE  TasksInv'
<1>1. PICK id : id = CHOOSE t \in Tasks : task[t] = Hierarchy!Absent
  OBVIOUS
<1>2. /\ Exist # Tasks /\ Hierarchy!Known(row.parent) /\ task' = [task EXCEPT ![id] = row]
      /\ employee' = employee /\ edit' = edit
  BY <1>1, Zenon DEF Hierarchy!Create, Exist
<1>3. id \in Tasks /\ task[id] = Hierarchy!Absent
  <2>1. PICK t \in Tasks : t \notin Exist
    BY <1>2 DEF Exist, Hierarchy!GetTxIncludingDeleted
  <2>2. task[t] = Hierarchy!Absent
    BY <2>1, TaskExists DEF TasksInv
  <2> QED
    BY <1>1, <2>2, Zenon
<1>4. row \in TaskRow /\ row.parent \in Tasks \union {NoTask} /\ row.state # "absent"
  BY DEF Hierarchy!Values, TaskRow
<1>5. /\ task'[id] = row /\ \A t \in Tasks : t # id => task'[t] = task[t]
      /\ id \notin Exist
  <2>1. id \notin Exist
    BY <1>3 DEF Exist, Hierarchy!GetTxIncludingDeleted, Hierarchy!Absent
  <2> QED
    BY <1>2, <1>3, <2>1 DEF TasksInv, TasksType
<1>6. TasksType'
  BY <1>2, <1>3, <1>4 DEF TasksInv, TasksType
<1>7. Exist' = Exist \union {id}
  BY <1>3, <1>4, <1>5 DEF Exist, Hierarchy!GetTxIncludingDeleted
<1>8. /\ Exist \subseteq Tasks
      /\ \A t \in Exist : Hierarchy!Parent(t) = task[t].parent
                          /\ Hierarchy!Parent(t)' = task[t].parent
                          /\ task[t].parent \in Exist \union {NoTask}
  BY <1>5, <1>7 DEF TasksInv, ParentHolds, Exist, Hierarchy!GetTxIncludingDeleted, Hierarchy!Parent, Hierarchy!Known
<1>9. ASSUME NEW t \in Tasks, NEW p \in Exist \union {NoTask}, Apart(t, p)
      PROVE  Apart(t, p)'
  <2> SUFFICES ASSUME p # NoTask PROVE Apart(t, p)'
    BY DEF Apart
  <2>1. PICK S \in SUBSET Tasks : p \in S /\ Hierarchy!HasParents(S) /\ t \notin S
    BY <1>9 DEF Apart
  <2>2. PICK R : R = S \intersect Exist
    OBVIOUS
  <2>3. R \in SUBSET Tasks /\ p \in R /\ t \notin R
    BY <2>1, <2>2
  <2>4. Hierarchy!HasParents(R)'
    BY <1>8, <2>1, <2>2 DEF Hierarchy!HasParents
  <2> QED
    BY <2>3, <2>4 DEF Apart
<1>10. Apart(id, row.parent)'
  <2> SUFFICES ASSUME row.parent # NoTask PROVE Apart(id, row.parent)'
    BY DEF Apart
  <2>1. row.parent \in Exist
    BY <1>2 DEF Hierarchy!Known, Exist
  <2>2. PICK R : R = Exist
    OBVIOUS
  <2>3. Hierarchy!HasParents(R)'
    BY <1>8, <2>2 DEF Hierarchy!HasParents
  <2> QED
    BY <1>5, <1>8, <2>1, <2>2, <2>3 DEF Apart
<1>11. \A t \in Exist' : ParentHolds(t)'
  <2>1. ASSUME NEW t \in Exist PROVE ParentHolds(t)'
    <3>1. PICK p : p = task[t].parent
      OBVIOUS
    <3>2. p = task'[t].parent /\ p \in Exist \union {NoTask} /\ t \in Tasks
      BY <1>5, <1>8, <3>1
    <3>3. Apart(t, p)'
      BY <1>9, <3>1, <3>2 DEF TasksInv, ParentHolds
    <3> QED
      BY <1>7, <3>2, <3>3 DEF ParentHolds, Apart, Hierarchy!Known, Exist
  <2>2. ParentHolds(id)'
    BY <1>2, <1>5, <1>7, <1>10 DEF ParentHolds, Apart, Hierarchy!Known, Exist
  <2> QED
    BY <1>7, <2>1, <2>2
<1>12. \A e \in Editors : EditHolds(e)'
  <2> SUFFICES ASSUME NEW e \in Editors, edit[e] # Hierarchy!Idle
               PROVE  /\ \A f \in Editors : edit[f] # Hierarchy!Idle => f = e
                      /\ Hierarchy!Known(edit[e].row.parent)'
                      /\ Apart(edit[e].id, edit[e].row.parent)'
    BY <1>2 DEF EditHolds
  <2>1. PICK t, p : t = edit[e].id /\ p = edit[e].row.parent
    OBVIOUS
  <2>2. /\ t \in Tasks /\ p \in Exist \union {NoTask} /\ Apart(t, p)
        /\ \A f \in Editors : edit[f] # Hierarchy!Idle => f = e
    BY <2>1 DEF TasksInv, TasksType, EditHolds, Hierarchy!Known, Exist
  <2>3. Apart(t, p)'
    BY <1>9, <2>2
  <2>4. Hierarchy!Known(p)'
    BY <1>7, <2>2 DEF Hierarchy!Known, Exist
  <2> QED
    BY <1>2, <2>1, <2>2, <2>3, <2>4
<1> QED
  BY <1>6, <1>11, <1>12 DEF TasksInv

LEMMA TasksCheck ==
  ASSUME TasksInv, NEW e \in Editors, NEW id \in Tasks, NEW row \in Hierarchy!Values,
         Hierarchy!CheckUpdate(e, id, row)
  PROVE  TasksInv'
<1>1. PICK w : w = [pc |-> "write", id |-> id, row |-> row]
  OBVIOUS
<1>2. /\ \A f \in Editors : edit[f] = Hierarchy!Idle
      /\ Hierarchy!Known(row.parent) /\ Apart(id, row.parent)
      /\ edit' = [edit EXCEPT ![e] = w] /\ UNCHANGED <<task, employee>>
  BY <1>1, ApartIsNoCycle DEF Hierarchy!CheckUpdate, Hierarchy!LockSelfReferenceChainTx
<1>3. w \in [pc : {"write"}, id : Tasks, row : Hierarchy!Values] /\ w.id = id /\ w.row = row
  BY <1>1
<1>4. TasksType'
  BY <1>2, <1>3 DEF TasksInv, TasksType
<1>5. \A p : /\ Hierarchy!Known(p)' <=> Hierarchy!Known(p)
             /\ \A t : Apart(t, p)' <=> Apart(t, p)
  BY <1>2 DEF Hierarchy!Known, Hierarchy!GetTxIncludingDeleted, Apart, Hierarchy!HasParents,
              Hierarchy!Parent
<1>6. \A t \in Exist' : ParentHolds(t)'
  BY <1>2 DEF TasksInv, ParentHolds, Exist, Hierarchy!Known, Hierarchy!GetTxIncludingDeleted,
              Apart, Hierarchy!HasParents, Hierarchy!Parent
<1>7. \A f \in Editors : EditHolds(f)'
  <2>1. edit'[e] = w /\ \A f \in Editors : f # e => edit'[f] = Hierarchy!Idle
    BY <1>2 DEF TasksInv, TasksType
  <2>2. PICK p : p = row.parent
    OBVIOUS
  <2>3. /\ Hierarchy!Known(p)' /\ Apart(id, p)'
        /\ edit'[e].id = id /\ edit'[e].row.parent = p
    BY <1>2, <1>3, <1>5, <2>1, <2>2
  <2> QED
    BY <2>1, <2>3 DEF EditHolds, Apart, Hierarchy!Known
<1> QED
  BY <1>4, <1>6, <1>7 DEF TasksInv

(* The row that moves gets the ancestors of its new parent, and it is not  *)
(* among them: sets without a cycle are joined or cut with that one.       *)
LEMMA TasksCommit ==
  ASSUME TasksInv, NEW e \in Editors, Hierarchy!CommitUpdate(e)
  PROVE  TasksInv'
<1>1. PICK id, row, q : id = edit[e].id /\ row = edit[e].row /\ q = row.parent
  OBVIOUS
<1>2. /\ edit[e] # Hierarchy!Idle /\ id \in Hierarchy!Live /\ task' = [task EXCEPT ![id] = row]
      /\ edit' = [edit EXCEPT ![e] = Hierarchy!Idle] /\ employee' = employee
  BY <1>1 DEF Hierarchy!CommitUpdate
<1>3. /\ id \in Exist /\ id \in Tasks /\ row \in TaskRow /\ row.state = "live"
      /\ q \in Exist \union {NoTask} /\ Apart(id, q)
      /\ \A f \in Editors : edit[f] # Hierarchy!Idle => f = e
  <2>1. id \in Tasks /\ row \in Hierarchy!Values
    BY <1>1, <1>2 DEF TasksInv, TasksType
  <2>2. id \in Exist
    BY <1>2 DEF Hierarchy!Live, Exist, Hierarchy!GetTxIncludingDeleted
  <2> QED
    BY <1>1, <1>2, <2>1, <2>2 DEF TasksInv, EditHolds, Hierarchy!Known, Exist, Hierarchy!Values, TaskRow
<1>4. /\ task'[id] = row /\ \A t \in Tasks : t # id => task'[t] = task[t]
  BY <1>2, <1>3 DEF TasksInv, TasksType
<1>5. TasksType'
  BY <1>2, <1>3 DEF TasksInv, TasksType
<1>6. Exist' = Exist /\ Exist \subseteq Tasks
  BY <1>3, <1>4 DEF Exist, Hierarchy!GetTxIncludingDeleted
<1>7. /\ \A t \in Tasks : t # id => Hierarchy!Parent(t)' = Hierarchy!Parent(t)
      /\ Hierarchy!Parent(id)' = q
  BY <1>1, <1>3, <1>4, <1>6 DEF Hierarchy!Parent, Exist
<1>8. \A t \in Exist : Hierarchy!Parent(t) = task[t].parent
  BY DEF Hierarchy!Parent, Exist
<1>9. \A f \in Editors : EditHolds(f)'
  BY <1>2, <1>3 DEF TasksInv, TasksType, EditHolds
<1>10. ASSUME NEW t \in Exist PROVE ParentHolds(t)'
  <2>1. PICK p : p = Hierarchy!Parent(t)'
    OBVIOUS
  <2>2. p = task'[t].parent /\ p \in Exist \union {NoTask}
    <3>1. t = id \/ task'[t].parent = task[t].parent
      BY <1>4, <1>6
    <3>2. task[t].parent \in Exist \union {NoTask}
      BY DEF TasksInv, ParentHolds, Hierarchy!Known, Exist
    <3> QED
      BY <1>1, <1>3, <1>4, <1>6, <1>7, <1>8, <2>1, <3>1, <3>2
  <2>3. Apart(t, p)'
    <3> SUFFICES ASSUME p # NoTask
                 PROVE  \E S \in SUBSET Tasks : p \in S /\ Hierarchy!HasParents(S)' /\ t \notin S
      BY DEF Apart
    <3>1. q = NoTask \/ \E S \in SUBSET Tasks : q \in S /\ Hierarchy!HasParents(S) /\ id \notin S
      BY <1>3 DEF Apart
    <3>2. CASE t = id
      <4>1. PICK S \in SUBSET Tasks : q \in S /\ Hierarchy!HasParents(S) /\ id \notin S
        BY <1>7, <2>1, <3>1, <3>2
      <4>2. Hierarchy!HasParents(S)'
        BY <1>7, <4>1 DEF Hierarchy!HasParents
      <4> QED
        BY <1>7, <2>1, <3>2, <4>1, <4>2
    <3>3. CASE t # id
      <4>1. Apart(t, p) /\ p = task[t].parent
        BY <1>6, <1>7, <1>8, <2>1, <3>3 DEF TasksInv, ParentHolds
      <4>2. PICK S \in SUBSET Tasks : p \in S /\ Hierarchy!HasParents(S) /\ t \notin S
        BY <4>1 DEF Apart
      <4>3. CASE q = NoTask
        <5>1. Hierarchy!HasParents(S)'
          BY <1>7, <4>2, <4>3 DEF Hierarchy!HasParents
        <5> QED
          BY <4>2, <5>1
      <4>4. CASE q # NoTask
        <5>1. PICK Q \in SUBSET Tasks : q \in Q /\ Hierarchy!HasParents(Q) /\ id \notin Q
          BY <3>1, <4>4
        <5>2. CASE t \in Q
          <6>1. p \in Q
            BY <1>7, <2>1, <3>3, <3>1, <5>1, <5>2 DEF Hierarchy!HasParents
          <6>2. PICK R : R = S \intersect Q
            OBVIOUS
          <6>3. Hierarchy!HasParents(R)'
            BY <1>7, <4>2, <5>1, <6>2 DEF Hierarchy!HasParents
          <6> QED
            BY <4>2, <6>1, <6>2, <6>3
        <5>3. CASE t \notin Q
          <6>1. PICK R : R = S \union Q
            OBVIOUS
          <6>2. Hierarchy!HasParents(R)'
            BY <1>7, <4>2, <5>1, <6>1 DEF Hierarchy!HasParents
          <6> QED
            BY <4>2, <5>3, <6>1, <6>2
        <5> QED
          BY <5>2, <5>3
      <4> QED
        BY <4>3, <4>4
    <3> QED
      BY <3>2, <3>3
  <2> QED
    BY <1>6, <2>2, <2>3 DEF ParentHolds, Apart, Hierarchy!Known, Exist
<1> QED
  BY <1>5, <1>6, <1>9, <1>10 DEF TasksInv

(* What moves no task leaves every chain as it was.                        *)
LEMMA TasksRest ==
  ASSUME TasksInv, TasksType', Exist' = Exist,
         \A t \in Exist : task'[t].parent = task[t].parent,
         \A e \in Editors : edit'[e] = edit[e] \/ edit'[e] = Hierarchy!Idle
  PROVE  TasksInv'
<1>1. \A t \in Tasks : Hierarchy!Parent(t)' = Hierarchy!Parent(t)
  BY DEF Hierarchy!Parent, Exist
<1>2. \A S \in SUBSET Tasks : Hierarchy!HasParents(S)' <=> Hierarchy!HasParents(S)
  BY <1>1 DEF Hierarchy!HasParents
<1>3. \A t, p : Apart(t, p) => Apart(t, p)'
  BY <1>2 DEF Apart
<1>4. \A p : Hierarchy!Known(p) => Hierarchy!Known(p)'
  BY DEF Hierarchy!Known, Exist
<1>5. ASSUME NEW t \in Exist PROVE ParentHolds(t)'
  <2>1. PICK p : p = task[t].parent
    OBVIOUS
  <2>2. Hierarchy!Known(p)' /\ Apart(t, p)' /\ p = task'[t].parent
    BY <1>3, <1>4, <2>1 DEF TasksInv, ParentHolds
  <2> QED
    BY <2>2 DEF ParentHolds, Hierarchy!Known, Apart
<1>6. ASSUME NEW e \in Editors, edit'[e] # Hierarchy!Idle PROVE EditHolds(e)'
  <2>1. PICK t, p : t = edit[e].id /\ p = edit[e].row.parent
    OBVIOUS
  <2>2. /\ edit'[e] = edit[e] /\ Hierarchy!Known(p)' /\ Apart(t, p)'
        /\ \A f \in Editors : edit'[f] # Hierarchy!Idle => f = e
    BY <1>3, <1>4, <1>6, <2>1 DEF TasksInv, EditHolds
  <2> QED
    BY <2>1, <2>2 DEF EditHolds, Hierarchy!Known, Apart
<1>7. \A e \in Editors : EditHolds(e)'
  BY <1>6 DEF EditHolds
<1> QED
  BY <1>5, <1>7 DEF TasksInv

LEMMA TasksKept ==
  ASSUME TasksInv, Hierarchy!Next \/ UNCHANGED taskVars
  PROVE  TasksInv'
<1>1. ASSUME NEW e \in Editors, Hierarchy!RollbackUpdate(e) PROVE TasksInv'
  <2>1. edit' = [edit EXCEPT ![e] = Hierarchy!Idle] /\ task' = task /\ employee' = employee
    BY <1>1 DEF Hierarchy!RollbackUpdate
  <2>2. TasksType'
    BY <2>1 DEF TasksInv, TasksType
  <2>3. Exist' = Exist
    BY <2>1 DEF Exist, Hierarchy!GetTxIncludingDeleted
  <2>4. \A f \in Editors : edit'[f] = edit[f] \/ edit'[f] = Hierarchy!Idle
    BY <2>1 DEF TasksInv, TasksType
  <2> QED
    BY <2>1, <2>2, <2>3, <2>4, TasksRest
<1>2. ASSUME NEW id \in Tasks, Hierarchy!Delete(id) PROVE TasksInv'
  <2>1. PICK r, d : r = task[id] /\ d = [r EXCEPT !.state = "deleted"]
    OBVIOUS
  <2>2. /\ r.state = "live" /\ task' = [task EXCEPT ![id] = d]
        /\ employee' = employee /\ edit' = edit
    BY <1>2, <2>1 DEF Hierarchy!Delete
  <2>3. id \in Exist /\ r \in TaskRow
    BY <2>1, <2>2, TaskExists
       DEF TasksInv, Exist, Hierarchy!GetTxIncludingDeleted
  <2>4. d \in TaskRow /\ d.parent = r.parent /\ d.state = "deleted"
    BY <2>1, <2>3 DEF TaskRow
  <2>5. task'[id] = d /\ \A t \in Tasks : t # id => task'[t] = task[t]
    BY <2>2 DEF TasksInv, TasksType
  <2>6. TasksType'
    BY <2>2, <2>4 DEF TasksInv, TasksType
  <2>7. Exist' = Exist /\ Exist \subseteq Tasks
    BY <2>3, <2>4, <2>5 DEF Exist, Hierarchy!GetTxIncludingDeleted
  <2> QED
    BY <2>1, <2>2, <2>4, <2>5, <2>6, <2>7, TasksRest
<1>3. ASSUME (\E party \in Parties : Hierarchy!ChangeRole(party)) \/ UNCHANGED taskVars
      PROVE  TasksInv'
  <2>1. task' = task /\ edit' = edit /\ employee' \subseteq Parties
    BY <1>3 DEF Hierarchy!ChangeRole, taskVars, TasksInv, TasksType
  <2>2. TasksType' /\ Exist' = Exist
    BY <2>1 DEF TasksInv, TasksType, Exist, Hierarchy!GetTxIncludingDeleted
  <2> QED
    BY <2>1, <2>2, TasksRest
<1> QED
  BY <1>1, <1>2, <1>3, TasksCreate, TasksCheck, TasksCommit DEF Hierarchy!Next

LEMMA TasksImply ==
  ASSUME TasksInv
  PROVE  Hierarchy!TypeOK /\ Hierarchy!NoCycle /\ Hierarchy!PickerAgrees
<1>1. Hierarchy!TypeOK
  BY DEF TasksInv, TasksType, TaskRow, Hierarchy!TypeOK
<1>2. Hierarchy!NoCycle
  <2>1. Exist \subseteq Tasks
    BY DEF Exist, Hierarchy!GetTxIncludingDeleted
  <2> QED
    BY <2>1, ApartIsNoCycle DEF TasksInv, ParentHolds, Hierarchy!NoCycle, Exist
<1>3. Hierarchy!PickerAgrees
  BY DEF Hierarchy!PickerAgrees, Hierarchy!OfferedParents, Hierarchy!ParentFits,
         Hierarchy!OfferedAssignees, Hierarchy!AssigneeFits
<1> QED
  BY <1>1, <1>2, <1>3

LEMMA TasksWorkStep ==
  ASSUME [WorkNext]_allVars, part = "tasks"
  PROVE  part' = part /\ (Hierarchy!Next \/ UNCHANGED taskVars)
<1>1. CASE WorkNext
  BY <1>1 DEF WorkNext, ImportStep, SignInStep, AccessStep, MemberStep, TaskStep, BookStep,
              PurchaseStep, AssetStep, SettingsStep, FileStep, OthersRest
<1>2. CASE UNCHANGED allVars
  BY <1>2 DEF allVars
<1> QED
  BY <1>1, <1>2

(* The cycle guard of crud.Engine under the lock of the entity type        *)
(* (LockSelfReferenceChainTx): no task becomes its own ancestor, deleted   *)
(* rows included, whoever edits, creates and deletes meanwhile; and what a *)
(* picker offers is accepted.                                              *)
THEOREM TenantTasksFormTrees == WorkSpec => []TasksFormTrees
<1> DEFINE I == part = "tasks" => TasksInv
<1>1. WorkInit => I
  BY TasksInit DEF WorkInit
<1>2. I /\ [WorkNext]_allVars => I'
  <2> SUFFICES ASSUME I, [WorkNext]_allVars, part = "tasks"
               PROVE  TasksInv' /\ part' = part
    BY DEF WorkNext, ImportStep, SignInStep, AccessStep, MemberStep, TaskStep, BookStep,
           PurchaseStep, AssetStep, SettingsStep, FileStep, OthersRest, allVars
  <2> QED
    BY TasksWorkStep, TasksKept
<1>3. I => TasksFormTrees
  BY TasksImply DEF TasksFormTrees
<1> QED
  BY <1>1, <1>2, <1>3, PTL DEF WorkSpec

-----------------------------------------------------------------------------
(* Attachments: the bytes on a disk and the row in the database.           *)

RowStates == {"none", "live", "deleted"}
FileReq == [pc : {"idle", "put", "create", "cleanup", "open"},
            kind : {"upload", "report", "download"}, key : 0..MaxUploads,
            answer : {"none", "error", "note", "attached", "plain", "bytes", "missing"}]
FilesType ==
  /\ configured \in BOOLEAN
  /\ target \in [Records \union Reports -> RowStates]
  /\ attached \in [Attachments!UploadKeys -> RowStates]
  /\ fileReq \in [Clients -> FileReq]
  /\ keys \in 0..MaxUploads /\ mishaps \in 0..MaxUploadFaults
  /\ blob \subseteq 1..keys /\ stranded \subseteq 1..keys /\ unclear \subseteq 1..keys
(* An upload, or the recording of a report, that has its key.              *)
Keyed(c) == fileReq[c].kind # "download" /\ fileReq[c].key # 0
KeysApart ==
  \A c, d \in Clients :
     c # d /\ Keyed(c) /\ Keyed(d) => fileReq[c].key # fileReq[d].key
(* Deleted rows included: a download may have found the row before.        *)
RowsBacked ==
  \A k \in Attachments!UploadKeys :
     attached[k] # "none" => k <= keys /\ k \in blob \union unclear
(* What a request knows of its key, at each of its steps.                  *)
ReqHolds(c) ==
  LET q == fileReq[c] IN
  /\ q.key <= keys
  /\ q.pc \in {"put", "create", "cleanup"} =>
       q.kind # "download" /\ q.key # 0 /\ q.answer = "none"
  /\ q.pc = "put" => attached[q.key] = "none" /\ q.key \notin blob
  /\ q.pc = "create" => attached[q.key] = "none" /\ q.key \in blob
  /\ q.pc = "cleanup" => attached[q.key] = "none" \/ q.key \in unclear
  /\ q.pc = "open" => q.kind = "download" /\ q.key # 0 /\ attached[q.key] # "none"
  /\ q.answer = "missing" => q.key \in unclear
  /\ q.pc = "idle" /\ q.kind = "report" =>
       /\ q.answer \in {"attached", "note", "plain"}
       /\ q.answer = "attached" => q.key # 0 /\ attached[q.key] # "none"
       /\ q.answer = "note" =>
            q.key = 0 \/ q.key \in unclear \/ attached[q.key] = "none"
       /\ q.answer = "plain" => q.key = 0
FilesInv ==
  /\ FilesType /\ KeysApart /\ RowsBacked /\ Attachments!OrphansAreExplained
  /\ \A c \in Clients : ReqHolds(c)

LEMMA FilesInit ==
  ASSUME Attachments!Init
  PROVE  FilesInv
<1>1. FilesType
  BY UploadsAssumption
     DEF Attachments!Init, FilesType, FileReq, RowStates, Attachments!Idle, Attachments!Asked
<1>2. ASSUME NEW c \in Clients
      PROVE  ReqHolds(c) /\ ~Keyed(c)
  BY <1>2 DEF Attachments!Init, ReqHolds, Keyed, Attachments!Idle, Attachments!Asked
<1>3. RowsBacked /\ Attachments!OrphansAreExplained
  BY DEF Attachments!Init, RowsBacked, Attachments!OrphansAreExplained
<1> QED
  BY <1>1, <1>2, <1>3 DEF FilesInv, KeysApart

(* An upload, or a report with a recording, takes a key nobody had.        *)
LEMMA FilesNewKey ==
  ASSUME FilesInv, NEW c \in Clients, NEW kind \in {"upload", "report"},
         fileReq[c].pc = "idle", Attachments!NewKey(c, kind),
         target' \in [Records \union Reports -> RowStates],
         UNCHANGED <<configured, blob, attached, stranded, unclear, mishaps>>
  PROVE  FilesInv'
<1> DEFINE q == Attachments!Asked("put", kind, keys + 1)
<1>1. /\ keys < MaxUploads /\ keys' = keys + 1
      /\ fileReq' = [fileReq EXCEPT ![c] = q]
  BY DEF Attachments!NewKey, Attachments!Set
<1>2. keys \in Nat /\ keys + 1 \in Attachments!UploadKeys /\ keys + 1 \in 0..MaxUploads
  BY <1>1, UploadsAssumption DEF FilesInv, FilesType, Attachments!UploadKeys
<1>3. q \in FileReq
  BY <1>2 DEF FileReq, Attachments!Asked
<1>4. FilesType'
  BY <1>1, <1>2, <1>3 DEF FilesInv, FilesType
<1>5. attached[keys + 1] = "none" /\ keys + 1 \notin blob
  BY <1>2 DEF FilesInv, FilesType, RowsBacked
<1>6. ReqHolds(c)'
  BY <1>1, <1>2, <1>5 DEF FilesInv, FilesType, ReqHolds, Attachments!Asked
<1>7. ASSUME NEW d \in Clients, d # c
      PROVE  ReqHolds(d)' /\ fileReq'[d] = fileReq[d] /\ fileReq[d].key \in 0..keys
  BY <1>1, <1>2, <1>7 DEF FilesInv, FilesType, FileReq, ReqHolds
<1>8. KeysApart'
  BY <1>1, <1>2, <1>7 DEF FilesInv, FilesType, KeysApart, Keyed, Attachments!Asked
<1>9. RowsBacked'
  BY <1>1, <1>2 DEF FilesInv, FilesType, RowsBacked, Attachments!UploadKeys
<1>10. Attachments!OrphansAreExplained'
  BY <1>1, <1>7 DEF FilesInv, FilesType, Attachments!OrphansAreExplained
<1> QED
  BY <1>4, <1>6, <1>7, <1>8, <1>9, <1>10 DEF FilesInv

(* A step of one client that changes its request only.                     *)
LEMMA FilesReqMoves ==
  ASSUME FilesInv, NEW c \in Clients, NEW q \in FileReq,
         fileReq' = [fileReq EXCEPT ![c] = q],
         UNCHANGED <<configured, blob, attached, keys, stranded, unclear>>,
         target' \in [Records \union Reports -> RowStates],
         mishaps' \in 0..MaxUploadFaults,
         q.kind = "download" \/ q.key = 0 \/ (Keyed(c) /\ q.key = fileReq[c].key),
         fileReq[c].pc \in {"create", "cleanup"} =>
           q.pc \in {"create", "cleanup"} /\ q.key = fileReq[c].key,
         ReqHolds(c)'
  PROVE  FilesInv'
<1>1. FilesType'
  BY DEF FilesInv, FilesType
<1>2. ASSUME NEW d \in Clients, d # c
      PROVE  ReqHolds(d)' /\ fileReq'[d] = fileReq[d]
  BY <1>2 DEF FilesInv, FilesType, ReqHolds
<1>3. KeysApart'
  BY <1>2 DEF FilesInv, FilesType, KeysApart, Keyed
<1>4. RowsBacked'
  BY DEF FilesInv, FilesType, RowsBacked
<1>5. Attachments!OrphansAreExplained'
  BY <1>2 DEF FilesInv, FilesType, Attachments!OrphansAreExplained
<1> QED
  BY <1>1, <1>2, <1>3, <1>4, <1>5 DEF FilesInv

(* issueReportSubmit without a recording, or without a store for it.       *)
LEMMA FilesPlainReport ==
  ASSUME FilesInv, NEW c \in Clients, NEW answer \in {"note", "plain"},
         fileReq[c].pc = "idle",
         fileReq' = [fileReq EXCEPT ![c] = [Attachments!Asked("idle", "report", 0) EXCEPT
                                              !.answer = answer]],
         target' \in [Records \union Reports -> RowStates],
         UNCHANGED <<configured, blob, attached, keys, stranded, unclear, mishaps>>
  PROVE  FilesInv'
<1> DEFINE q == [pc |-> "idle", kind |-> "report", key |-> 0, answer |-> answer]
<1>1. [Attachments!Asked("idle", "report", 0) EXCEPT !.answer = answer] = q
  BY DEF Attachments!Asked
<1>2. fileReq' = [fileReq EXCEPT ![c] = q]
  BY <1>1
<1>3. q \in FileReq
  BY UploadsAssumption DEF FileReq
<1>4. fileReq'[c] = q /\ keys' \in Nat /\ mishaps' \in 0..MaxUploadFaults
  BY <1>2 DEF FilesInv, FilesType
<1>5. ReqHolds(c)'
  BY <1>4 DEF ReqHolds
<1> QED
  BY <1>2, <1>3, <1>4, <1>5, FilesReqMoves

LEMMA FilesSubmit ==
  ASSUME FilesInv, NEW c \in Clients, NEW r \in Records \union Reports,
         NEW recording \in BOOLEAN, Attachments!Submit(c, r, recording)
  PROVE  FilesInv'
<1>1. /\ fileReq[c].pc = "idle" /\ target' = [target EXCEPT ![r] = "live"]
      /\ UNCHANGED <<configured, blob, attached, stranded, unclear, mishaps>>
  BY DEF Attachments!Submit
<1>2. target' \in [Records \union Reports -> RowStates]
  BY <1>1 DEF FilesInv, FilesType, RowStates
<1>3. CASE recording /\ configured
  <2>1. Attachments!NewKey(c, "report")
    BY <1>3 DEF Attachments!Submit
  <2> QED
    BY <1>1, <1>2, <2>1, FilesNewKey
<1>4. CASE ~(recording /\ configured)
  <2> DEFINE answer == IF recording THEN "note" ELSE "plain"
  <2>1. /\ fileReq' = [fileReq EXCEPT ![c] = [Attachments!Asked("idle", "report", 0) EXCEPT
                                                !.answer = answer]]
        /\ keys' = keys
    BY <1>4 DEF Attachments!Submit, Attachments!Set
  <2>2. answer \in {"note", "plain"}
    OBVIOUS
  <2> HIDE DEF answer
  <2> QED
    BY <1>1, <1>2, <2>1, <2>2, FilesPlainReport
<1> QED
  BY <1>3, <1>4

LEMMA FilesUpload ==
  ASSUME FilesInv, NEW c \in Clients, NEW r \in Records \union Reports,
         Attachments!Upload(c, r)
  PROVE  FilesInv'
<1>1. target' \in [Records \union Reports -> RowStates]
  BY DEF Attachments!Upload, FilesInv, FilesType
<1> QED
  BY <1>1, FilesNewKey DEF Attachments!Upload

(* What a client's request becomes, its steps being records of one kind.   *)
LEMMA FilesRequest ==
  ASSUME FilesInv, NEW c \in Clients,
         NEW p \in {"idle", "put", "create", "cleanup", "open"},
         NEW a \in {"none", "error", "note", "attached", "plain", "bytes", "missing"},
         fileReq' = [fileReq EXCEPT ![c] = [fileReq[c] EXCEPT !.pc = p, !.answer = a]]
  PROVE  /\ fileReq' \in [Clients -> FileReq]
         /\ fileReq'[c] = [fileReq[c] EXCEPT !.pc = p, !.answer = a]
         /\ fileReq'[c].pc = p /\ fileReq'[c].answer = a
         /\ fileReq'[c].kind = fileReq[c].kind /\ fileReq'[c].key = fileReq[c].key
         /\ \A d \in Clients : d # c => fileReq'[d] = fileReq[d]
         /\ [fileReq[c] EXCEPT !.pc = p, !.answer = a] \in FileReq
<1>1. PICK q \in FileReq : q = fileReq[c]
  BY DEF FilesInv, FilesType
<1>2. PICK n : n = [q EXCEPT !.pc = p, !.answer = a]
  OBVIOUS
<1>3. n = [pc |-> p, kind |-> q.kind, key |-> q.key, answer |-> a]
  BY <1>1, <1>2 DEF FileReq
<1>4. /\ n \in FileReq /\ n.pc = p /\ n.answer = a /\ n.kind = q.kind /\ n.key = q.key
  BY <1>1, <1>3 DEF FileReq
<1>5. fileReq' = [fileReq EXCEPT ![c] = n]
  BY <1>1, <1>2
<1>6. fileReq \in [Clients -> FileReq]
  BY DEF FilesInv, FilesType
<1> QED
  BY <1>1, <1>2, <1>4, <1>5, <1>6

(* FSStore.Put, of a key that nobody else has.                             *)
LEMMA FilesPut ==
  ASSUME FilesInv, NEW c \in Clients, Attachments!Put(c)
  PROVE  FilesInv'
<1>1. /\ fileReq[c].pc = "put"
      /\ UNCHANGED <<configured, target, attached, keys, stranded, unclear>>
  BY DEF Attachments!Put
<1>2. PICK k \in 1..keys : k = fileReq[c].key
  BY <1>1 DEF FilesInv, FilesType, ReqHolds, FileReq
<1>3. /\ Keyed(c) /\ attached[k] = "none" /\ k \notin blob /\ fileReq[c].answer = "none"
      /\ k \in Attachments!UploadKeys /\ fileReq[c].kind # "download"
  BY <1>1, <1>2, UploadsAssumption
     DEF FilesInv, FilesType, ReqHolds, FileReq, Keyed, Attachments!UploadKeys
<1>4. CASE /\ blob' = blob \union {fileReq[c].key} /\ Attachments!Goto(c, "create")
           /\ UNCHANGED mishaps
  <2>1. /\ fileReq' = [fileReq EXCEPT ![c] = [fileReq[c] EXCEPT !.pc = "create",
                                                               !.answer = "none"]]
    <3>1. PICK q \in FileReq : q = fileReq[c]
      BY DEF FilesInv, FilesType
    <3>2. [q EXCEPT !.pc = "create"] = [q EXCEPT !.pc = "create", !.answer = "none"]
      BY <1>3, <3>1 DEF FileReq
    <3> QED
      BY <1>4, <3>1, <3>2 DEF Attachments!Goto, Attachments!Set
  <2>2. /\ fileReq' \in [Clients -> FileReq] /\ fileReq'[c].pc = "create"
        /\ fileReq'[c].answer = "none" /\ fileReq'[c].kind = fileReq[c].kind
        /\ fileReq'[c].key = k
        /\ \A d \in Clients : d # c => fileReq'[d] = fileReq[d]
    BY <1>2, <2>1, FilesRequest
  <2>3. FilesType'
    BY <1>1, <1>2, <1>4, <2>2 DEF FilesInv, FilesType
  <2>4. ASSUME NEW d \in Clients
        PROVE  ReqHolds(d)'
    <3>1. CASE d = c
      BY <1>1, <1>2, <1>3, <1>4, <2>2, <3>1 DEF ReqHolds
    <3>2. CASE d # c
      <4>1. Keyed(d) => fileReq[d].key # k
        BY <1>2, <1>3, <3>2 DEF FilesInv, KeysApart
      <4> QED
        BY <1>1, <1>2, <1>3, <1>4, <2>2, <3>2, <4>1 DEF FilesInv, ReqHolds, Keyed
    <3> QED
      BY <3>1, <3>2
  <2>5. KeysApart'
    BY <1>2, <2>2 DEF FilesInv, KeysApart, Keyed
  <2>6. RowsBacked'
    BY <1>1, <1>4 DEF FilesInv, RowsBacked
  <2>7. Attachments!OrphansAreExplained'
    BY <1>1, <1>2, <1>4, <2>2 DEF FilesInv, Attachments!OrphansAreExplained
  <2> QED
    BY <2>3, <2>4, <2>5, <2>6, <2>7 DEF FilesInv
<1>5. CASE Attachments!Fault /\ Attachments!Refuse(c) /\ UNCHANGED blob
  <2> DEFINE answer == IF fileReq[c].kind = "report" THEN "note" ELSE "error"
  <2>1. answer \in {"note", "error"}
    OBVIOUS
  <2>2. fileReq' = [fileReq EXCEPT ![c] = [fileReq[c] EXCEPT !.pc = "idle",
                                                            !.answer = answer]]
    BY <1>5 DEF Attachments!Refuse, Attachments!Set
  <2>3. fileReq[c].kind = "report" => answer = "note"
    OBVIOUS
  <2> HIDE DEF answer
  <2>4. PICK n \in FileReq : n = [fileReq[c] EXCEPT !.pc = "idle", !.answer = answer]
    BY <2>1, <2>2, FilesRequest
  <2>5. /\ fileReq' = [fileReq EXCEPT ![c] = n] /\ n = fileReq'[c] /\ n.pc = "idle"
        /\ n.answer = answer /\ n.kind = fileReq[c].kind /\ n.key = k
    BY <1>2, <2>1, <2>2, <2>4, FilesRequest
  <2>6. mishaps' \in 0..MaxUploadFaults
    BY <1>5, UploadsAssumption DEF Attachments!Fault, FilesInv, FilesType
  <2>7. ReqHolds(c)'
    BY <1>1, <1>2, <1>3, <2>1, <2>3, <2>5 DEF ReqHolds
  <2>8. target' \in [Records \union Reports -> RowStates]
    BY <1>1 DEF FilesInv, FilesType
  <2> QED
    BY <1>1, <1>2, <1>3, <1>5, <2>4, <2>5, <2>6, <2>7, <2>8, FilesReqMoves
<1> QED
  BY <1>4, <1>5 DEF Attachments!Put

(* Rows and keys of bytes that other requests have or wait for.            *)
LEMMA FilesOthers ==
  ASSUME FilesInv, NEW c \in Clients, NEW d \in Clients, d # c, Keyed(c),
         fileReq'[d] = fileReq[d], keys' = keys,
         \A k \in 1..keys : k # fileReq[c].key =>
            attached'[k] = attached[k] /\ (k \in blob' <=> k \in blob),
         \A k \in 1..keys : attached[k] # "none" => attached'[k] # "none",
         unclear \subseteq unclear', blob' \subseteq 1..keys
  PROVE  ReqHolds(d)'
<1>1. Keyed(d) => fileReq[d].key # fileReq[c].key
  BY DEF FilesInv, KeysApart
<1>2. fileReq[d] \in FileReq /\ fileReq[d].key \in Nat /\ keys \in Nat /\ ReqHolds(d)
  BY DEF FilesInv, FilesType, FileReq
<1>3. fileReq[d].key # 0 => fileReq[d].key \in 1..keys
  BY <1>2 DEF ReqHolds
<1>4. fileReq[d].pc \in {"put", "create", "cleanup"} =>
        Keyed(d) /\ fileReq[d].key \in 1..keys
  BY <1>2, <1>3 DEF ReqHolds, Keyed
<1>5. (fileReq[d].pc = "idle" /\ fileReq[d].kind = "report" /\ fileReq[d].key # 0) =>
        Keyed(d) /\ fileReq[d].key \in 1..keys
  BY <1>2, <1>3 DEF ReqHolds, Keyed
<1> QED
  BY <1>1, <1>2, <1>3, <1>4, <1>5 DEF ReqHolds

(* crud.Create of the row: done, refused, or done with an error.           *)
LEMMA FilesCreateRow ==
  ASSUME FilesInv, NEW c \in Clients, Attachments!CreateRow(c)
  PROVE  FilesInv'
<1>1. /\ fileReq[c].pc = "create"
      /\ UNCHANGED <<configured, target, blob, keys, stranded>>
  BY DEF Attachments!CreateRow
<1>2. PICK k \in 1..keys : k = fileReq[c].key
  BY <1>1 DEF FilesInv, FilesType, ReqHolds, FileReq
<1>3. /\ Keyed(c) /\ attached[k] = "none" /\ k \in blob /\ fileReq[c].answer = "none"
      /\ k \in Attachments!UploadKeys /\ fileReq[c].kind # "download"
  BY <1>1, <1>2, UploadsAssumption
     DEF FilesInv, FilesType, ReqHolds, FileReq, Keyed, Attachments!UploadKeys
<1>4. PICK p \in {"idle", "cleanup"}, a \in {"attached", "none"} :
        /\ fileReq' = [fileReq EXCEPT ![c] = [fileReq[c] EXCEPT !.pc = p, !.answer = a]]
        /\ \/ /\ p = "idle" /\ a = "attached" /\ Attachments!Insert(k)
              /\ UNCHANGED <<unclear, mishaps>>
           \/ /\ p = "cleanup" /\ a = "none" /\ Attachments!Fault
              /\ UNCHANGED <<attached, unclear>>
           \/ /\ p = "cleanup" /\ a = "none" /\ Attachments!Fault /\ Attachments!Insert(k)
              /\ unclear' = unclear \union {k}
  <2>1. PICK q \in FileReq : q = fileReq[c]
    BY DEF FilesInv, FilesType
  <2>2. [q EXCEPT !.pc = "cleanup"] = [q EXCEPT !.pc = "cleanup", !.answer = "none"]
    BY <1>3, <2>1 DEF FileReq
  <2>3. CASE Attachments!Goto(c, "cleanup")
    <3>1. fileReq' = [fileReq EXCEPT ![c] = [fileReq[c] EXCEPT !.pc = "cleanup",
                                                              !.answer = "none"]]
      BY <2>1, <2>2, <2>3 DEF Attachments!Goto, Attachments!Set
    <3>2. \/ Attachments!Fault /\ UNCHANGED <<attached, unclear>>
          \/ Attachments!Fault /\ Attachments!Insert(k) /\ unclear' = unclear \union {k}
          \/ /\ Attachments!Insert(k) /\ UNCHANGED <<unclear, mishaps>>
             /\ Attachments!Set(c, [fileReq[c] EXCEPT !.pc = "idle", !.answer = "attached"])
      BY <1>2 DEF Attachments!CreateRow
    <3> QED
      BY <3>1, <3>2 DEF Attachments!Set
  <2>4. CASE /\ Attachments!Insert(k) /\ UNCHANGED <<unclear, mishaps>>
             /\ Attachments!Set(c, [fileReq[c] EXCEPT !.pc = "idle", !.answer = "attached"])
    BY <2>4 DEF Attachments!Set
  <2> QED
    BY <1>2, <2>3, <2>4 DEF Attachments!CreateRow
<1>5. /\ fileReq' \in [Clients -> FileReq] /\ fileReq'[c].pc = p
      /\ fileReq'[c].answer = a /\ fileReq'[c].kind = fileReq[c].kind
      /\ fileReq'[c].key = k
      /\ \A d \in Clients : d # c => fileReq'[d] = fileReq[d]
  BY <1>2, <1>4, FilesRequest
<1>6. mishaps' \in 0..MaxUploadFaults
  BY <1>4, UploadsAssumption DEF Attachments!Fault, FilesInv, FilesType
<1>7. /\ attached' \in [Attachments!UploadKeys -> RowStates]
      /\ attached' = attached \/ attached' = [attached EXCEPT ![k] = "live"]
      /\ p = "idle" => attached'[k] = "live"
      /\ p = "cleanup" => attached'[k] = "none" \/ k \in unclear'
      /\ unclear' \subseteq 1..keys /\ unclear \subseteq unclear'
  BY <1>2, <1>3, <1>4 DEF Attachments!Insert, FilesInv, FilesType, RowStates
<1>8. FilesType'
  BY <1>1, <1>5, <1>6, <1>7 DEF FilesInv, FilesType
<1>9. ReqHolds(c)'
  BY <1>1, <1>2, <1>3, <1>4, <1>5, <1>7 DEF ReqHolds, FilesInv, FilesType
<1>10. ASSUME NEW d \in Clients, d # c
       PROVE  ReqHolds(d)'
  <2>1. 1..keys \subseteq Attachments!UploadKeys
    BY UploadsAssumption DEF FilesInv, FilesType, Attachments!UploadKeys
  <2>2. \A j \in 1..keys : j # k => attached'[j] = attached[j]
    BY <1>7, <2>1 DEF FilesInv, FilesType
  <2>3. \A j \in 1..keys : attached[j] # "none" => attached'[j] # "none"
    BY <1>3, <2>2
  <2> QED
    BY <1>1, <1>2, <1>3, <1>5, <1>7, <1>10, <2>2, <2>3, FilesOthers DEF FilesInv, FilesType
<1>11. KeysApart'
  BY <1>2, <1>3, <1>5 DEF FilesInv, KeysApart, Keyed
<1>12. RowsBacked'
  BY <1>1, <1>2, <1>3, <1>7 DEF FilesInv, FilesType, RowsBacked
<1>13. Attachments!OrphansAreExplained'
  <2> SUFFICES ASSUME NEW j \in blob
               PROVE  \/ attached'[j] # "none" \/ j \in stranded
                      \/ \E d \in Clients : /\ fileReq'[d].key = j
                                           /\ fileReq'[d].pc \in {"create", "cleanup"}
    BY <1>1 DEF Attachments!OrphansAreExplained
  <2>1. CASE j = k
    BY <1>5, <1>7, <2>1
  <2>2. CASE j # k
    <3>1. j \in Attachments!UploadKeys
      BY UploadsAssumption DEF FilesInv, FilesType, Attachments!UploadKeys
    <3>2. attached[j] # "none" => attached'[j] # "none"
      BY <1>3, <1>7, <3>1 DEF FilesInv, FilesType
    <3> QED
      BY <1>2, <1>5, <2>2, <3>2 DEF FilesInv, Attachments!OrphansAreExplained
  <2> QED
    BY <2>1, <2>2
<1> QED
  BY <1>8, <1>9, <1>10, <1>11, <1>12, <1>13 DEF FilesInv

(* cleanupOrphanBlob, of the bytes of no row, or of one whose commit was   *)
(* reported as an error.                                                   *)
LEMMA FilesCleanup ==
  ASSUME FilesInv, NEW c \in Clients, Attachments!Cleanup(c)
  PROVE  FilesInv'
<1>1. /\ fileReq[c].pc = "cleanup" /\ Attachments!Refuse(c)
      /\ UNCHANGED <<configured, target, attached, keys, unclear>>
  BY DEF Attachments!Cleanup
<1>2. PICK k \in 1..keys : k = fileReq[c].key
  BY <1>1 DEF FilesInv, FilesType, ReqHolds, FileReq
<1>3. /\ Keyed(c) /\ fileReq[c].answer = "none" /\ k \in Attachments!UploadKeys
      /\ attached[k] = "none" \/ k \in unclear
  BY <1>1, <1>2, UploadsAssumption
     DEF FilesInv, FilesType, ReqHolds, FileReq, Keyed, Attachments!UploadKeys
<1> DEFINE answer == IF fileReq[c].kind = "report" THEN "note" ELSE "error"
<1>4. answer \in {"note", "error"} /\ (fileReq[c].kind = "report" => answer = "note")
  OBVIOUS
<1>5. fileReq' = [fileReq EXCEPT ![c] = [fileReq[c] EXCEPT !.pc = "idle", !.answer = answer]]
  BY <1>1 DEF Attachments!Refuse, Attachments!Set
<1> HIDE DEF answer
<1>6. /\ fileReq' \in [Clients -> FileReq] /\ fileReq'[c].pc = "idle"
      /\ fileReq'[c].answer = answer /\ fileReq'[c].kind = fileReq[c].kind
      /\ fileReq'[c].key = k
      /\ \A d \in Clients : d # c => fileReq'[d] = fileReq[d]
  BY <1>2, <1>4, <1>5, FilesRequest
<1>7. \/ blob' = blob \ {k} /\ UNCHANGED <<stranded, mishaps>>
      \/ Attachments!Fault /\ stranded' = stranded \union {k} /\ UNCHANGED blob
  BY <1>2 DEF Attachments!Cleanup, Attachments!RemoveBlob
<1>8. mishaps' \in 0..MaxUploadFaults
  BY <1>7, UploadsAssumption DEF Attachments!Fault, FilesInv, FilesType
<1>9. FilesType'
  BY <1>1, <1>2, <1>6, <1>7, <1>8 DEF FilesInv, FilesType
<1>10. ReqHolds(c)'
  BY <1>1, <1>2, <1>3, <1>4, <1>6 DEF ReqHolds, FilesInv, FilesType
<1>11. ASSUME NEW d \in Clients, d # c
       PROVE  ReqHolds(d)'
  BY <1>1, <1>2, <1>3, <1>6, <1>7, <1>11, FilesOthers DEF FilesInv, FilesType
<1>12. KeysApart'
  BY <1>2, <1>3, <1>6 DEF FilesInv, KeysApart, Keyed
<1>13. RowsBacked'
  BY <1>1, <1>3, <1>7 DEF FilesInv, RowsBacked
<1>14. Attachments!OrphansAreExplained'
  BY <1>1, <1>2, <1>6, <1>7 DEF FilesInv, Attachments!OrphansAreExplained
<1> QED
  BY <1>9, <1>10, <1>11, <1>12, <1>13, <1>14 DEF FilesInv

(* The process dies: requests end, and their keys are stranded.            *)
LEMMA FilesCrash ==
  ASSUME FilesInv, Attachments!Crash
  PROVE  FilesInv'
<1>1. /\ UNCHANGED <<configured, target, blob, attached, keys, unclear>>
      /\ fileReq' = [c \in Clients |-> IF fileReq[c].pc = "idle" THEN fileReq[c]
                                       ELSE Attachments!Idle]
      /\ stranded' = stranded \union {fileReq[c].key : c \in {d \in Clients : fileReq[d].pc # "idle"}}
      /\ Attachments!Fault
  BY DEF Attachments!Crash
<1>2. /\ Attachments!Idle \in FileReq /\ Attachments!Idle.key = 0
      /\ Attachments!Idle.pc = "idle" /\ Attachments!Idle.kind = "upload"
      /\ Attachments!Idle.answer = "none"
  BY UploadsAssumption DEF Attachments!Idle, Attachments!Asked, FileReq
<1> HIDE DEF Attachments!Idle
<1>3. ASSUME NEW c \in Clients
      PROVE  /\ fileReq[c].pc # "idle" => fileReq[c].key \in 1..keys
             /\ fileReq'[c] = fileReq[c] \/ fileReq'[c] = Attachments!Idle
             /\ ReqHolds(c)'
  <2>1. fileReq[c].pc # "idle" => fileReq[c].key \in 1..keys
    BY DEF FilesInv, FilesType, ReqHolds, FileReq
  <2>2. fileReq'[c] = fileReq[c] \/ fileReq'[c] = Attachments!Idle
    BY <1>1
  <2>3. ReqHolds(c)'
    BY <1>1, <1>2, <2>2 DEF FilesInv, FilesType, ReqHolds
  <2> QED
    BY <2>1, <2>2, <2>3
<1>4. mishaps' \in 0..MaxUploadFaults
  BY <1>1, UploadsAssumption DEF Attachments!Fault, FilesInv, FilesType
<1>5. stranded' \subseteq 1..keys
  BY <1>1, <1>3 DEF FilesInv, FilesType
<1>6. fileReq' \in [Clients -> FileReq]
  BY <1>1, <1>2 DEF FilesInv, FilesType
<1>7. FilesType'
  BY <1>1, <1>4, <1>5, <1>6 DEF FilesInv, FilesType
<1>8. KeysApart'
  BY <1>2, <1>3 DEF FilesInv, KeysApart, Keyed
<1>9. RowsBacked'
  BY <1>1 DEF FilesInv, RowsBacked
<1>10. Attachments!OrphansAreExplained'
  BY <1>1 DEF FilesInv, Attachments!OrphansAreExplained
<1> QED
  BY <1>3, <1>7, <1>8, <1>9, <1>10 DEF FilesInv

LEMMA FilesDelete ==
  ASSUME FilesInv,
         \/ \E r \in DOMAIN target : Attachments!DeleteTarget(r)
         \/ \E k \in Attachments!UploadKeys : Attachments!DeleteAttachment(k)
  PROVE  FilesInv'
<1>1. CASE \E r \in DOMAIN target : Attachments!DeleteTarget(r)
  <2>1. /\ target' \in [Records \union Reports -> RowStates]
        /\ UNCHANGED <<configured, blob, attached, fileReq, keys, stranded, unclear, mishaps>>
    BY <1>1 DEF Attachments!DeleteTarget, FilesInv, FilesType, RowStates
  <2> QED
    BY <2>1 DEF FilesInv, FilesType, KeysApart, Keyed, RowsBacked, ReqHolds,
                Attachments!OrphansAreExplained
<1>2. CASE \E k \in Attachments!UploadKeys : Attachments!DeleteAttachment(k)
  <2>1. PICK k \in Attachments!UploadKeys : Attachments!DeleteAttachment(k)
    BY <1>2
  <2>2. /\ attached[k] = "live" /\ attached' = [attached EXCEPT ![k] = "deleted"]
        /\ UNCHANGED <<configured, target, blob, fileReq, keys, stranded, unclear, mishaps>>
    BY <2>1 DEF Attachments!DeleteAttachment
  <2>3. /\ attached' \in [Attachments!UploadKeys -> RowStates]
        /\ \A j \in Attachments!UploadKeys : attached'[j] = "none" <=> attached[j] = "none"
    BY <2>2 DEF FilesInv, FilesType, RowStates
  <2>4. FilesType' /\ KeysApart' /\ RowsBacked'
    BY <2>2, <2>3 DEF FilesInv, FilesType, KeysApart, Keyed, RowsBacked
  <2>5. 1..keys \subseteq Attachments!UploadKeys
    BY UploadsAssumption DEF FilesInv, FilesType, Attachments!UploadKeys
  <2>6. Attachments!OrphansAreExplained'
    BY <2>2, <2>3, <2>5 DEF FilesInv, FilesType, Attachments!OrphansAreExplained
  <2>7. ASSUME NEW c \in Clients
        PROVE  ReqHolds(c)'
    <3>1. fileReq[c].key \in 0..keys /\ ReqHolds(c) /\ keys \in Nat
      BY DEF FilesInv, FilesType, ReqHolds, FileReq
    <3>2. fileReq[c].key # 0 => fileReq[c].key \in Attachments!UploadKeys
      BY <2>5, <3>1
    <3>3. fileReq[c].key # 0 =>
            (attached'[fileReq[c].key] = "none" <=> attached[fileReq[c].key] = "none")
      BY <2>3, <3>2
    <3> QED
      BY <2>2, <3>1, <3>3 DEF ReqHolds
  <2> QED
    BY <2>4, <2>6, <2>7 DEF FilesInv
<1> QED
  BY <1>1, <1>2

(* attachmentDownload: the row it found was made, and its bytes stay but   *)
(* for a commit that was reported as an error.                             *)
LEMMA FilesDownload ==
  ASSUME FilesInv, NEW c \in Clients,
         \/ \E k \in Attachments!UploadKeys : Attachments!FindRow(c, k)
         \/ Attachments!Open(c)
  PROVE  FilesInv'
<1>0. target \in [Records \union Reports -> RowStates] /\ mishaps \in 0..MaxUploadFaults
  BY DEF FilesInv, FilesType
<1>1. CASE \E k \in Attachments!UploadKeys : Attachments!FindRow(c, k)
  <2>1. PICK k \in Attachments!UploadKeys : Attachments!FindRow(c, k)
    BY <1>1
  <2> DEFINE q == Attachments!Asked("open", "download", k)
  <2>2. /\ fileReq[c].pc = "idle" /\ attached[k] = "live"
        /\ fileReq' = [fileReq EXCEPT ![c] = q]
        /\ UNCHANGED <<configured, target, blob, attached, keys, stranded, unclear, mishaps>>
    BY <2>1 DEF Attachments!FindRow, Attachments!Set
  <2>3. q \in FileReq /\ k \in Nat /\ k # 0
    BY UploadsAssumption DEF FileReq, Attachments!Asked, Attachments!UploadKeys
  <2>4. k <= keys
    BY <2>2 DEF FilesInv, RowsBacked
  <2>5. fileReq'[c] = q
    BY <2>2 DEF FilesInv, FilesType
  <2>6. ReqHolds(c)'
    BY <2>2, <2>3, <2>4, <2>5 DEF ReqHolds, Attachments!Asked
  <2>7. q.kind = "download"
    BY DEF Attachments!Asked
  <2> HIDE DEF q
  <2> QED
    BY <1>0, <2>2, <2>3, <2>6, <2>7, FilesReqMoves
<1>2. CASE Attachments!Open(c)
  <2> DEFINE answer == IF fileReq[c].key \in blob THEN "bytes" ELSE "missing"
  <2>1. answer \in {"bytes", "missing"} /\ (answer = "missing" => fileReq[c].key \notin blob)
    OBVIOUS
  <2>2. /\ fileReq[c].pc = "open"
        /\ UNCHANGED <<configured, target, blob, attached, keys, stranded, unclear, mishaps>>
    BY <1>2 DEF Attachments!Open
  <2>3. fileReq' = [fileReq EXCEPT ![c] = [fileReq[c] EXCEPT !.pc = "idle",
                                                            !.answer = answer]]
    BY <1>2 DEF Attachments!Open, Attachments!Set
  <2> HIDE DEF answer
  <2>4. /\ fileReq'[c] \in FileReq /\ fileReq'[c].pc = "idle" /\ fileReq'[c].answer = answer
        /\ fileReq'[c].kind = fileReq[c].kind /\ fileReq'[c].key = fileReq[c].key
        /\ fileReq'[c] = [fileReq[c] EXCEPT !.pc = "idle", !.answer = answer]
    BY <2>1, <2>3, FilesRequest
  <2>5. PICK n \in FileReq : /\ fileReq' = [fileReq EXCEPT ![c] = n] /\ n = fileReq'[c]
                             /\ n.pc = "idle" /\ n.answer = answer
                             /\ n.kind = fileReq[c].kind /\ n.key = fileReq[c].key
    BY <2>4, <2>3
  <2>6. /\ fileReq[c].kind = "download" /\ attached[fileReq[c].key] # "none"
        /\ fileReq[c].key <= keys /\ fileReq[c].key \in 1..keys
    BY <2>2 DEF FilesInv, FilesType, ReqHolds, FileReq
  <2>7. fileReq[c].key \in Attachments!UploadKeys
    BY <2>6, UploadsAssumption DEF FilesInv, FilesType, Attachments!UploadKeys
  <2>8. ReqHolds(c)'
    BY <2>1, <2>2, <2>5, <2>6, <2>7 DEF ReqHolds, FilesInv, RowsBacked
  <2> QED
    BY <1>0, <2>2, <2>5, <2>6, <2>8, FilesReqMoves
<1> QED
  BY <1>1, <1>2

LEMMA FilesKept ==
  ASSUME FilesInv, Attachments!Next \/ UNCHANGED fileVars
  PROVE  FilesInv'
<1>1. DOMAIN target = Records \union Reports
  BY DEF FilesInv, FilesType
<1>2. CASE UNCHANGED fileVars
  BY <1>2 DEF fileVars, FilesInv, FilesType, KeysApart, Keyed, RowsBacked, ReqHolds,
              Attachments!OrphansAreExplained
<1>3. CASE Attachments!Next
  BY <1>1, <1>3, FilesUpload, FilesSubmit, FilesPut, FilesCreateRow, FilesCleanup,
     FilesCrash, FilesDelete, FilesDownload DEF Attachments!Next
<1> QED
  BY <1>2, <1>3

LEMMA FilesImply ==
  ASSUME FilesInv
  PROVE  /\ Attachments!TypeOK /\ Attachments!RowsHaveBytes
         /\ Attachments!OrphansAreExplained /\ Attachments!NoSilentLoss
<1>1. Attachments!TypeOK
  BY DEF FilesInv, FilesType, FileReq, RowStates, Attachments!TypeOK
<1>2. Attachments!RowsHaveBytes
  BY DEF FilesInv, RowsBacked, ReqHolds, Attachments!RowsHaveBytes
<1>3. Attachments!NoSilentLoss
  BY DEF FilesInv, ReqHolds, Attachments!NoSilentLoss
<1> QED
  BY <1>1, <1>2, <1>3 DEF FilesInv

LEMMA FilesWorkStep ==
  ASSUME [WorkNext]_allVars, part = "files"
  PROVE  part' = part /\ (Attachments!Next \/ UNCHANGED fileVars)
<1>1. CASE WorkNext
  BY <1>1 DEF WorkNext, ImportStep, SignInStep, AccessStep, MemberStep, TaskStep, BookStep,
              PurchaseStep, AssetStep, SettingsStep, FileStep, OthersRest
<1>2. CASE UNCHANGED allVars
  BY <1>2 DEF allVars
<1> QED
  BY <1>1, <1>2

-----------------------------------------------------------------------------
(* Settings with secrets.                                                  *)

Vendor == StoredSecrets!Providers \union {Source}
SettingsRow == [live : BOOLEAN, vendor : Vendor, secret : StoredSecrets!Secret, version : Nat]
SettingsReq ==
  [pc : {"idle", "fields", "write", "delete", "list", "again", "recover", "failed"},
   kind : Vendor, clear : BOOLEAN, id : 0..MaxSettings, version : Nat, fresh : BOOLEAN,
   fields : SettingsRow, attempt : 0..MaxAttempts, since : Nat]
SettingsType ==
  /\ settings \in [1..MaxSettings -> SettingsRow]
  /\ tab \in [FormTabs -> SettingsReq]
  /\ secrets \in 0..MaxSecrets /\ writes \in 0..MaxWrites
  /\ withdrawn \subseteq StoredSecrets!Secret
  /\ \A s \in withdrawn : s.number <= secrets
RowHolds(n) ==
  LET x == settings[n] IN
  /\ x.secret.number <= secrets
  /\ x.live => /\ x.version # 0
               /\ x.secret # StoredSecrets!NoSecret =>
                    x.secret.vendor = x.vendor /\ x.secret \notin withdrawn
(* A secret is in one live record, and one connection is live.             *)
RecordsApart ==
  \A n, m \in 1..MaxSettings :
     settings[n].live /\ settings[m].live /\ n # m =>
       /\ settings[n].secret = StoredSecrets!NoSecret \/ settings[n].secret # settings[m].secret
       /\ settings[n].vendor = Source \/ settings[m].vendor = Source
(* A request that has its fields, and one whose secret was just entered.   *)
Filled(q) == q.pc \in {"write", "list", "again", "recover", "failed"}
Own(q) == Filled(q) /\ q.fresh
Unread(q) == settings[q.id].live /\ settings[q.id].version = q.version
(* The record a request names was made, and is at the version it read or   *)
(* at a later one, or gone.                                                *)
NamesRecord(q) ==
  q.pc # "idle" /\ q.id # 0 =>
    LET x == settings[q.id] IN
    /\ x.version # 0
    /\ x.live => q.version <= x.version /\ (q.kind = Source <=> x.vendor = Source)
(* What a page read is still what the record has at that version.          *)
ReadsRecord(q) ==
  q.pc = "fields" =>
    /\ q.fields.secret.number <= secrets
    /\ q.fields.secret # StoredSecrets!NoSecret =>
         /\ q.id # 0
         /\ q.fields.secret.vendor = q.fields.vendor
         /\ Unread(q) => q.fields.secret = settings[q.id].secret
    /\ q.kind = Source /\ q.fields.secret # StoredSecrets!NoSecret => q.fields.vendor = Source
(* What a save writes: no secret, one it kept from the record, or its own. *)
WritesFields(q) ==
  Filled(q) =>
    LET s == q.fields.secret IN
    /\ q.fields.live /\ q.fields.vendor = q.kind /\ s.number <= secrets
    /\ s # StoredSecrets!NoSecret => s.vendor = q.kind
    /\ ~q.fresh => \/ s = StoredSecrets!NoSecret
                   \/ q.pc = "write" /\ q.id # 0 /\ (Unread(q) => s = settings[q.id].secret)
    /\ q.fresh => /\ s.number # 0 /\ s \notin withdrawn
                  /\ \A n \in 1..MaxSettings : settings[n].live => settings[n].secret # s
(* A conflict is answered by as many attempts as there were writes.        *)
Contends(q) ==
  /\ q.pc \in {"fields", "write"} => q.attempt = 0
  /\ q.pc \in {"list", "again", "recover", "failed"} =>
       q.kind # Source /\ q.since + q.attempt <= writes
  /\ q.pc \in {"again", "recover"} => q.attempt < MaxAttempts
  /\ q.pc = "failed" => q.attempt = MaxAttempts
  /\ q.pc = "again" /\ StoredSecrets!Connections # {} => q.since + q.attempt < writes
  /\ q.pc = "recover" =>
       q.id # 0 /\ (settings[q.id].live /\ ~Unread(q) => q.since + q.attempt < writes)
SettingsReqHolds(q) == NamesRecord(q) /\ ReadsRecord(q) /\ WritesFields(q) /\ Contends(q)
OwnApart ==
  \A t, u \in FormTabs :
     t # u /\ Own(tab[t]) /\ Own(tab[u]) => tab[t].fields.secret # tab[u].fields.secret
SettingsInv ==
  /\ SettingsType /\ RecordsApart /\ OwnApart
  /\ \A n \in 1..MaxSettings : RowHolds(n)
  /\ \A t \in FormTabs : SettingsReqHolds(tab[t])

(* The records that stand for nothing.                                     *)
LEMMA SettingsConstants ==
  /\ StoredSecrets!NoSecret \in StoredSecrets!Secret /\ StoredSecrets!NoSecret.number = 0
  /\ StoredSecrets!Free \in SettingsRow /\ StoredSecrets!Free.version = 0
  /\ ~StoredSecrets!Free.live /\ StoredSecrets!Free.secret = StoredSecrets!NoSecret
  /\ StoredSecrets!Gone \in SettingsRow /\ StoredSecrets!Gone.version = 1
  /\ ~StoredSecrets!Gone.live /\ StoredSecrets!Gone.secret = StoredSecrets!NoSecret
  /\ StoredSecrets!Idle \in SettingsReq /\ StoredSecrets!Idle.pc = "idle"
<1>1. StoredSecrets!NoSecret \in StoredSecrets!Secret /\ StoredSecrets!NoSecret.number = 0
  BY SettingsAssumption
     DEF StoredSecrets!NoSecret, StoredSecrets!Secret, StoredSecrets!Providers
<1>2. /\ StoredSecrets!Free \in SettingsRow /\ StoredSecrets!Free.version = 0
      /\ ~StoredSecrets!Free.live /\ StoredSecrets!Free.secret = StoredSecrets!NoSecret
  BY <1>1 DEF StoredSecrets!Free, SettingsRow, Vendor, StoredSecrets!Providers
<1>3. /\ StoredSecrets!Gone \in SettingsRow /\ StoredSecrets!Gone.version = 1
      /\ ~StoredSecrets!Gone.live /\ StoredSecrets!Gone.secret = StoredSecrets!NoSecret
  BY <1>2 DEF StoredSecrets!Gone, SettingsRow
<1>4. StoredSecrets!Idle \in SettingsReq /\ StoredSecrets!Idle.pc = "idle"
  BY <1>2, SettingsAssumption DEF StoredSecrets!Idle, SettingsReq, Vendor, StoredSecrets!Providers
<1> QED
  BY <1>1, <1>2, <1>3, <1>4

LEMMA SettingsInit ==
  ASSUME StoredSecrets!Init
  PROVE  SettingsInv
<1>1. /\ settings = [n \in 1..MaxSettings |-> StoredSecrets!Free]
      /\ tab = [t \in FormTabs |-> StoredSecrets!Idle]
      /\ secrets = 0 /\ withdrawn = {} /\ writes = 0
  BY DEF StoredSecrets!Init
<1>2. SettingsType
  BY <1>1, SettingsConstants, SettingsAssumption DEF SettingsType
<1>3. ASSUME NEW t \in FormTabs
      PROVE  SettingsReqHolds(tab[t]) /\ ~Own(tab[t])
  BY <1>1, <1>3, SettingsConstants
     DEF SettingsReqHolds, NamesRecord, ReadsRecord, WritesFields, Filled, Contends, Own
<1>4. ASSUME NEW n \in 1..MaxSettings
      PROVE  RowHolds(n) /\ ~settings[n].live
  BY <1>1, <1>4, SettingsConstants DEF RowHolds
<1> QED
  BY <1>2, <1>3, <1>4 DEF SettingsInv, RecordsApart, OwnApart

LEMMA SettingsFieldsTyped ==
  ASSUME SettingsInv, NEW t \in FormTabs
  PROVE  /\ tab[t] \in SettingsReq /\ tab[t].fields \in SettingsRow
         /\ tab[t].fields.secret \in StoredSecrets!Secret
         /\ tab[t].fields.secret.number \in Nat
<1>1. tab[t] \in SettingsReq
  BY DEF SettingsInv, SettingsType
<1>2. tab[t].fields \in SettingsRow
  BY <1>1 DEF SettingsReq
<1>3. tab[t].fields.secret \in StoredSecrets!Secret
  BY <1>2 DEF SettingsRow
<1>4. tab[t].fields.secret.number \in Nat
  BY <1>3, SettingsAssumption DEF StoredSecrets!Secret
<1> QED
  BY <1>1, <1>2, <1>3, <1>4

(* A step of one page that writes no record, and enters a secret perhaps.  *)
LEMMA SettingsReqMoves ==
  ASSUME SettingsInv, NEW t \in FormTabs, NEW q \in SettingsReq,
         tab' = [tab EXCEPT ![t] = q], UNCHANGED <<settings, withdrawn, writes>>,
         secrets' \in 0..MaxSecrets, secrets <= secrets',
         SettingsReqHolds(q)',
         Own(q) => \/ Own(tab[t]) /\ q.fields.secret = tab[t].fields.secret
                   \/ q.fields.secret.number > secrets
  PROVE  SettingsInv'
<1>1. secrets \in Nat /\ secrets' \in Nat
  BY SettingsAssumption DEF SettingsInv, SettingsType
<1>2. SettingsType'
  <2>1. \A s \in withdrawn : s.number \in Nat /\ s.number <= secrets
    BY SettingsAssumption DEF SettingsInv, SettingsType, StoredSecrets!Secret
  <2>2. \A s \in withdrawn : s.number <= secrets'
    BY <1>1, <2>1
  <2> QED
    BY <2>2 DEF SettingsInv, SettingsType
<1>3. ASSUME NEW n \in 1..MaxSettings
      PROVE  RowHolds(n)'
  <2>1. settings[n].secret.number \in Nat
    BY SettingsAssumption DEF SettingsInv, SettingsType, SettingsRow, StoredSecrets!Secret
  <2> QED
    BY <1>1, <2>1 DEF SettingsInv, RowHolds
<1>4. ASSUME NEW u \in FormTabs, u # t
      PROVE  tab'[u] = tab[u] /\ SettingsReqHolds(tab[u])'
  <2>1. tab[u].fields.secret.number \in Nat
    BY SettingsFieldsTyped
  <2>2. SettingsReqHolds(tab[u])
    BY DEF SettingsInv
  <2>3. \A r : (r = tab[u] /\ r.fields.secret.number \in Nat /\ SettingsReqHolds(r)) =>
                 SettingsReqHolds(r)'
    BY <1>1 DEF SettingsReqHolds, NamesRecord, ReadsRecord, WritesFields, Contends, Unread,
                StoredSecrets!Connections, StoredSecrets!Live, StoredSecrets!Created
  <2>4. tab'[u] = tab[u]
    BY <1>4 DEF SettingsInv, SettingsType
  <2> QED
    BY <2>1, <2>2, <2>3, <2>4
<1>5. tab'[t] = q
  BY DEF SettingsInv, SettingsType
<1>6. OwnApart'
  <2>1. ASSUME NEW u \in FormTabs, u # t, Own(tab[u]), Own(q)
        PROVE  tab[u].fields.secret # q.fields.secret
    <3>1. tab[u].fields.secret.number \in Nat /\ tab[u].fields.secret.number <= secrets
      BY <2>1, SettingsFieldsTyped DEF SettingsInv, SettingsReqHolds, WritesFields, Own
    <3>2. CASE Own(tab[t]) /\ q.fields.secret = tab[t].fields.secret
      BY <2>1, <3>2 DEF SettingsInv, OwnApart
    <3>3. CASE q.fields.secret.number > secrets
      BY <1>1, <3>1, <3>3
    <3> QED
      BY <2>1, <3>2, <3>3
  <2> QED
    BY <1>4, <1>5, <2>1 DEF SettingsInv, OwnApart, Own, Filled
<1> QED
  BY <1>2, <1>3, <1>4, <1>5, <1>6 DEF SettingsInv, RecordsApart

(* What a write of one record leaves to the other pages.                   *)
WritesRecord(n, x) ==
  \/ settings[n].version = 0 /\ x.version = 1 /\ x.live
  \/ /\ settings[n].live /\ x.live /\ x.version = settings[n].version + 1
     /\ x.vendor = Source <=> settings[n].vendor = Source
  \/ settings[n].live /\ ~x.live /\ x.version = 1
LEMMA SettingsWriteOthers ==
  ASSUME SettingsInv, NEW q \in SettingsReq, SettingsReqHolds(q),
         NEW n \in 1..MaxSettings, NEW x \in SettingsRow,
         settings' = [settings EXCEPT ![n] = x], secrets' = secrets, writes' = writes + 1,
         WritesRecord(n, x),
         withdrawn' \subseteq withdrawn \union {settings[n].secret},
         withdrawn' = withdrawn \/ settings[n].live,
         x.live => x.secret = StoredSecrets!NoSecret
                     \/ (settings[n].live /\ x.secret = settings[n].secret)
                     \/ (Own(q) => x.secret # q.fields.secret)
  PROVE  SettingsReqHolds(q)'
<1>1. /\ settings \in [1..MaxSettings -> SettingsRow] /\ writes \in Nat
      /\ settings'[n] = x /\ \A m \in 1..MaxSettings : m # n => settings'[m] = settings[m]
  BY SettingsAssumption DEF SettingsInv, SettingsType
<1>2. settings[n].version \in Nat /\ x.version \in Nat
  BY <1>1 DEF SettingsRow
<1>3. q.version \in Nat /\ q.id \in 0..MaxSettings /\ q.since \in Nat /\ q.attempt \in Nat
  BY SettingsAssumption DEF SettingsReq
<1>4. q.id # 0 => q.id \in 1..MaxSettings
  BY <1>3, SettingsAssumption
<1>5. NamesRecord(q)'
  BY <1>1, <1>2, <1>3, <1>4 DEF SettingsReqHolds, NamesRecord, WritesRecord
<1>6. q.pc # "idle" /\ q.id # 0 /\ Unread(q)' =>
        Unread(q) /\ settings'[q.id] = settings[q.id]
  BY <1>1, <1>2, <1>3, <1>4 DEF SettingsReqHolds, NamesRecord, WritesRecord, Unread
<1>7. ReadsRecord(q)'
  BY <1>6 DEF SettingsReqHolds, ReadsRecord
<1>8. WritesFields(q)'
  <2>1. CASE ~q.fresh
    BY <1>6, <2>1 DEF SettingsReqHolds, WritesFields, Filled
  <2>2. CASE q.fresh /\ Filled(q)
    <3> DEFINE s == q.fields.secret
    <3>1. /\ s.number # 0 /\ s.number <= secrets /\ s \notin withdrawn /\ q.fields.live
          /\ q.fields.vendor = q.kind /\ (s # StoredSecrets!NoSecret => s.vendor = q.kind)
          /\ \A m \in 1..MaxSettings : settings[m].live => settings[m].secret # s
      BY <2>2 DEF SettingsReqHolds, WritesFields
    <3>2. s # StoredSecrets!NoSecret
      BY <3>1, SettingsConstants
    <3>3. s \notin withdrawn'
      BY <3>1
    <3>4. \A m \in 1..MaxSettings : settings'[m].live => settings'[m].secret # s
      BY <1>1, <2>2, <3>1, <3>2 DEF Own
    <3> QED
      BY <2>2, <3>1, <3>3, <3>4 DEF WritesFields
  <2> QED
    BY <2>1, <2>2 DEF WritesFields
<1>9. Contends(q)'
  BY <1>1, <1>3, <1>6 DEF SettingsReqHolds, Contends
<1> QED
  BY <1>5, <1>7, <1>8, <1>9 DEF SettingsReqHolds

LEMMA SettingsWrite ==
  ASSUME SettingsInv, NEW t \in FormTabs, NEW n \in 1..MaxSettings, NEW x \in SettingsRow,
         settings' = [settings EXCEPT ![n] = x], StoredSecrets!Set(t, StoredSecrets!Idle),
         secrets' = secrets, StoredSecrets!Wrote, WritesRecord(n, x),
         withdrawn' \subseteq withdrawn \union {settings[n].secret},
         withdrawn' = withdrawn \/ settings[n].live,
         x.secret.number <= secrets,
         x.live /\ x.secret # StoredSecrets!NoSecret =>
           /\ x.secret.vendor = x.vendor /\ x.secret \notin withdrawn'
           /\ \/ settings[n].live /\ x.secret = settings[n].secret
              \/ Own(tab[t]) /\ x.secret = tab[t].fields.secret,
         settings[n].version = 0 =>
           x.vendor = Source \/ StoredSecrets!Connections = {}
  PROVE  SettingsInv'
<1>1. /\ tab' = [tab EXCEPT ![t] = StoredSecrets!Idle]
      /\ writes < MaxWrites /\ writes' = writes + 1
  BY DEF StoredSecrets!Set, StoredSecrets!Wrote
<1>2. /\ settings \in [1..MaxSettings -> SettingsRow] /\ writes \in Nat /\ writes' \in 0..MaxWrites
      /\ settings'[n] = x /\ \A m \in 1..MaxSettings : m # n => settings'[m] = settings[m]
  BY <1>1, SettingsAssumption DEF SettingsInv, SettingsType
<1>3. /\ tab'[t] = StoredSecrets!Idle /\ \A u \in FormTabs : u # t => tab'[u] = tab[u]
      /\ tab' \in [FormTabs -> SettingsReq] /\ tab \in [FormTabs -> SettingsReq]
  BY <1>1, SettingsConstants DEF SettingsInv, SettingsType
<1>4. settings[n].secret \in StoredSecrets!Secret /\ settings[n].secret.number <= secrets
  <2>1. settings[n] \in SettingsRow
    BY <1>2
  <2> QED
    BY <2>1 DEF SettingsInv, RowHolds, SettingsRow
<1>5. SettingsType'
  <2>1. settings' \in [1..MaxSettings -> SettingsRow]
    BY <1>2
  <2>2. withdrawn' \subseteq StoredSecrets!Secret /\ \A s \in withdrawn' : s.number <= secrets
    BY <1>4 DEF SettingsInv, SettingsType
  <2> QED
    BY <1>2, <1>3, <2>1, <2>2 DEF SettingsInv, SettingsType
<1>6. ASSUME NEW u \in FormTabs
      PROVE  SettingsReqHolds(tab[u])'
  <2>1. CASE u = t
    BY <1>3, <2>1, SettingsConstants
       DEF SettingsReqHolds, NamesRecord, ReadsRecord, WritesFields, Filled, Contends
  <2>2. CASE u # t
    <3>1. PICK q \in SettingsReq : q = tab[u]
      BY <1>3
    <3>2. SettingsReqHolds(q)
      BY <3>1 DEF SettingsInv
    <3>3. x.live => x.secret = StoredSecrets!NoSecret
                      \/ (settings[n].live /\ x.secret = settings[n].secret)
                      \/ (Own(q) => x.secret # q.fields.secret)
      BY <2>2, <3>1 DEF SettingsInv, OwnApart
    <3>4. SettingsReqHolds(q)'
      BY <1>1, <3>2, <3>3, SettingsWriteOthers
    <3>5. tab'[u] = q
      BY <1>3, <2>2, <3>1
    <3> QED
      BY <3>4, <3>5
  <2> QED
    BY <2>1, <2>2
<1>7. OwnApart'
  BY <1>3, SettingsConstants DEF SettingsInv, OwnApart, Own, Filled
<1>8. ASSUME NEW m \in 1..MaxSettings, m # n, settings[m].live, x.live
      PROVE  x.secret = StoredSecrets!NoSecret \/ x.secret # settings[m].secret
  <2>1. CASE settings[n].live /\ x.secret = settings[n].secret
    BY <1>8, <2>1 DEF SettingsInv, RecordsApart
  <2>2. CASE Own(tab[t]) /\ x.secret = tab[t].fields.secret
    BY <1>8, <2>2 DEF SettingsInv, SettingsReqHolds, WritesFields, Own
  <2> QED
    BY <1>8, <2>1, <2>2
<1>9. ASSUME NEW m \in 1..MaxSettings, m # n, settings[m].live, x.live
      PROVE  x.vendor = Source \/ settings[m].vendor = Source
  <2>1. CASE settings[n].live
    <3>1. x.vendor = Source <=> settings[n].vendor = Source
      BY <1>9, <2>1 DEF WritesRecord, SettingsInv, RowHolds
    <3> QED
      BY <1>9, <2>1, <3>1 DEF SettingsInv, RecordsApart
  <2>2. CASE ~settings[n].live
    <3>1. settings[n].version = 0
      BY <2>2 DEF WritesRecord
    <3>2. settings[m].version # 0
      BY <1>9 DEF SettingsInv, RowHolds
    <3> QED
      BY <1>9, <3>1, <3>2
         DEF StoredSecrets!Connections, StoredSecrets!Live, StoredSecrets!Created
  <2> QED
    BY <2>1, <2>2
<1>10. RecordsApart'
  BY <1>2, <1>8, <1>9 DEF SettingsInv, RecordsApart
<1>11. ASSUME NEW m \in 1..MaxSettings
       PROVE  RowHolds(m)'
  <2>1. CASE m = n
    <3>1. x.live => x.version # 0
      BY <1>2 DEF WritesRecord, SettingsRow
    <3> QED
      BY <1>2, <2>1, <3>1 DEF RowHolds
  <2>2. CASE m # n
    <3>1. settings'[m] = settings[m] /\ RowHolds(m)
      BY <1>2, <2>2 DEF SettingsInv
    <3>2. settings[m].live /\ settings[m].secret # StoredSecrets!NoSecret =>
            settings[m].secret \notin withdrawn'
      BY <2>2, <3>1 DEF SettingsInv, RecordsApart, RowHolds
    <3> QED
      BY <3>1, <3>2 DEF RowHolds
  <2> QED
    BY <2>1, <2>2
<1> QED
  BY <1>5, <1>6, <1>7, <1>10, <1>11 DEF SettingsInv

LEMMA SettingsRead ==
  ASSUME SettingsInv, NEW t \in FormTabs, NEW kind \in Vendor, NEW fresh \in BOOLEAN,
         NEW clear \in BOOLEAN, NEW n \in 0..MaxSettings,
         n # 0 => n \in StoredSecrets!Live /\ (kind = Source <=> settings[n].vendor = Source),
         StoredSecrets!Set(t, StoredSecrets!Asked(kind, fresh, clear, n)),
         UNCHANGED <<secrets, settings, withdrawn, writes>>
  PROVE  SettingsInv'
<1> DEFINE version == IF n = 0 THEN 0 ELSE settings[n].version
           fields == IF n = 0 \/ clear THEN StoredSecrets!Free ELSE settings[n]
<1>1. n # 0 => settings[n] \in SettingsRow /\ settings[n].live /\ settings[n].version # 0
  BY DEF SettingsInv, SettingsType, StoredSecrets!Live, StoredSecrets!Created
<1>2. version \in Nat /\ fields \in SettingsRow
  BY <1>1, SettingsConstants DEF SettingsRow
<1>3. PICK q : q = StoredSecrets!Asked(kind, fresh, clear, n)
  OBVIOUS
<1>4. q = [pc |-> "fields", kind |-> kind, clear |-> clear, id |-> n, version |-> version,
           fresh |-> fresh, fields |-> fields, attempt |-> 0, since |-> 0]
  BY <1>3 DEF StoredSecrets!Asked
<1>5. version = settings[n].version \/ n = 0
  OBVIOUS
<1>6. fields.secret # StoredSecrets!NoSecret => n # 0 /\ fields = settings[n]
  BY SettingsConstants
<1> HIDE DEF version, fields
<1>7. q \in SettingsReq
  BY <1>2, <1>4, SettingsAssumption DEF SettingsReq
<1>8. /\ q.pc = "fields" /\ q.kind = kind /\ q.id = n /\ q.version = version
      /\ q.fields = fields /\ q.attempt = 0
  BY <1>4
<1>9. NamesRecord(q)
  BY <1>1, <1>2, <1>5, <1>8 DEF NamesRecord
<1>10. ReadsRecord(q)
  <2>1. CASE fields.secret = StoredSecrets!NoSecret
    BY <1>8, <2>1, SettingsConstants DEF ReadsRecord, SettingsInv, SettingsType
  <2>2. CASE fields.secret # StoredSecrets!NoSecret
    <3>1. n # 0 /\ fields = settings[n] /\ RowHolds(n) /\ settings[n].live
      BY <1>1, <1>6, <2>2 DEF SettingsInv
    <3> QED
      BY <1>8, <2>2, <3>1 DEF ReadsRecord, RowHolds
  <2> QED
    BY <2>1, <2>2
<1>11. SettingsReqHolds(q) /\ ~Own(q)
  BY <1>8, <1>9, <1>10 DEF SettingsReqHolds, WritesFields, Filled, Contends, Own
<1>12. SettingsReqHolds(q)'
  BY <1>11 DEF SettingsReqHolds, NamesRecord, ReadsRecord, WritesFields, Contends, Unread,
               StoredSecrets!Connections, StoredSecrets!Live, StoredSecrets!Created
<1>13. secrets' \in 0..MaxSecrets /\ secrets <= secrets'
  BY SettingsAssumption DEF SettingsInv, SettingsType
<1>14. tab' = [tab EXCEPT ![t] = q]
  BY <1>3 DEF StoredSecrets!Set
<1> QED
  BY <1>7, <1>11, <1>12, <1>13, <1>14, SettingsReqMoves

(* A step that changes how far a page is, and what it knows of a record.   *)
LEMMA SettingsProceeds ==
  ASSUME SettingsInv, NEW t \in FormTabs, NEW q \in SettingsReq,
         StoredSecrets!Set(t, q), UNCHANGED <<secrets, settings, withdrawn, writes>>,
         SettingsReqHolds(q), Own(q) => Own(tab[t]) /\ q.fields.secret = tab[t].fields.secret
  PROVE  SettingsInv'
<1>1. SettingsReqHolds(q)'
  BY DEF SettingsReqHolds, NamesRecord, ReadsRecord, WritesFields, Contends, Unread,
         StoredSecrets!Connections, StoredSecrets!Live, StoredSecrets!Created
<1>2. secrets' \in 0..MaxSecrets /\ secrets <= secrets'
  BY SettingsAssumption DEF SettingsInv, SettingsType
<1>3. tab' = [tab EXCEPT ![t] = q]
  BY DEF StoredSecrets!Set
<1> QED
  BY <1>1, <1>2, <1>3, SettingsReqMoves

LEMMA SettingsEnds ==
  ASSUME SettingsInv, NEW t \in FormTabs, StoredSecrets!Set(t, StoredSecrets!Idle),
         UNCHANGED <<secrets, settings, withdrawn, writes>>
  PROVE  SettingsInv'
<1>1. PICK q \in SettingsReq : q = StoredSecrets!Idle
  BY SettingsConstants
<1>2. q.pc = "idle"
  BY <1>1, SettingsConstants
<1>3. SettingsReqHolds(q) /\ ~Own(q)
  BY <1>2 DEF SettingsReqHolds, NamesRecord, ReadsRecord, WritesFields, Filled, Contends, Own
<1> QED
  BY <1>1, <1>3, SettingsProceeds

(* buildAIProviderFields and buildExtSQLSourceFields.                      *)
LEMMA SettingsBuild ==
  ASSUME SettingsInv, NEW t \in FormTabs, StoredSecrets!BuildFields(t)
  PROVE  SettingsInv'
<1>1. PICK r \in SettingsReq : r = tab[t]
  BY SettingsFieldsTyped
<1>2. r.pc = "fields" /\ UNCHANGED <<settings, withdrawn, writes>>
  BY <1>1 DEF StoredSecrets!BuildFields, StoredSecrets!Unwritten
<1>3. SettingsReqHolds(r)
  BY <1>1 DEF SettingsInv
<1>4. /\ r.kind \in Vendor /\ r.id \in 0..MaxSettings /\ r.version \in Nat
      /\ r.fresh \in BOOLEAN /\ r.clear \in BOOLEAN /\ r.attempt \in 0..MaxAttempts
      /\ r.since \in Nat /\ r.fields \in SettingsRow
      /\ r.fields.secret \in StoredSecrets!Secret
  BY <1>1, SettingsFieldsTyped DEF SettingsReq
<1>5. CASE r.clear
  <2>1. StoredSecrets!Set(t, [r EXCEPT !.pc = "delete"]) /\ UNCHANGED secrets
    BY <1>1, <1>5 DEF StoredSecrets!BuildFields, StoredSecrets!Goto
  <2>2. PICK q : q = [r EXCEPT !.pc = "delete"]
    OBVIOUS
  <2>3. /\ q \in SettingsReq /\ q.pc = "delete" /\ q.kind = r.kind /\ q.id = r.id
        /\ q.version = r.version
    BY <2>2 DEF SettingsReq
  <2>4. SettingsReqHolds(q) /\ ~Own(q)
    BY <1>2, <1>3, <2>3 DEF SettingsReqHolds, NamesRecord, ReadsRecord, WritesFields, Filled,
                            Contends, Own
  <2> QED
    BY <1>2, <2>1, <2>2, <2>3, <2>4, SettingsProceeds
<1>6. ASSUME NEW secret \in StoredSecrets!Secret
      PROVE  LET q == StoredSecrets!ToWrite(r, secret) IN
             /\ q \in SettingsReq /\ q.pc = "write" /\ q.kind = r.kind /\ q.id = r.id
             /\ q.version = r.version /\ q.fresh = r.fresh /\ q.attempt = r.attempt
             /\ q.fields.live /\ q.fields.vendor = r.kind /\ q.fields.secret = secret
  <2>1. PICK f : f = StoredSecrets!Fields(r.kind, secret)
    OBVIOUS
  <2>2. f \in SettingsRow /\ f.live /\ f.vendor = r.kind /\ f.secret = secret
    BY <1>4, <2>1 DEF StoredSecrets!Fields, SettingsRow
  <2>3. PICK q : q = [r EXCEPT !.pc = "write", !.fields = f]
    OBVIOUS
  <2>4. /\ q \in SettingsReq /\ q.pc = "write" /\ q.kind = r.kind /\ q.id = r.id
        /\ q.version = r.version /\ q.fresh = r.fresh /\ q.fields = f
        /\ q.attempt = r.attempt
    BY <2>2, <2>3 DEF SettingsReq
  <2>5. StoredSecrets!ToWrite(r, secret) = q
    BY <2>1, <2>3 DEF StoredSecrets!ToWrite
  <2> QED
    BY <2>2, <2>4, <2>5
<1>7. ASSUME NEW q \in SettingsReq, q.pc = "write", q.kind = r.kind, q.id = r.id,
             q.version = r.version, q.attempt = r.attempt
      PROVE  NamesRecord(q) /\ ReadsRecord(q) /\ Contends(q) /\ Filled(q)
                 /\ (Unread(q) <=> Unread(r))
  BY <1>2, <1>3, <1>7 DEF SettingsReqHolds, NamesRecord, ReadsRecord, Contends, Filled, Unread
<1>8. CASE ~r.clear /\ r.fresh
  <2>1. PICK s : s = [number |-> secrets + 1, vendor |-> r.kind]
    OBVIOUS
  <2>2. /\ secrets < MaxSecrets /\ secrets' = secrets + 1
        /\ StoredSecrets!Set(t, StoredSecrets!ToWrite(r, s))
    BY <1>1, <1>8, <2>1 DEF StoredSecrets!BuildFields
  <2>3. secrets \in Nat /\ secrets' \in 0..MaxSecrets /\ secrets <= secrets'
    BY <2>2, SettingsAssumption DEF SettingsInv, SettingsType
  <2>4. /\ s \in StoredSecrets!Secret /\ s.number = secrets + 1 /\ s.vendor = r.kind
        /\ s.number # 0 /\ s.number > secrets /\ s.number <= secrets'
    BY <1>4, <2>1, <2>2, <2>3, SettingsAssumption DEF StoredSecrets!Secret, Vendor
  <2>5. PICK q \in SettingsReq :
          /\ q = StoredSecrets!ToWrite(r, s) /\ q.pc = "write" /\ q.kind = r.kind
          /\ q.id = r.id /\ q.version = r.version /\ q.fresh = r.fresh
          /\ q.attempt = r.attempt
          /\ q.fields.live /\ q.fields.vendor = r.kind /\ q.fields.secret = s
    BY <1>6, <2>4
  <2>6. s \notin withdrawn /\ \A n \in 1..MaxSettings : settings[n].live => settings[n].secret # s
    <3>1. ASSUME NEW n \in 1..MaxSettings
          PROVE  settings[n].secret.number <= secrets /\ settings[n].secret.number \in Nat
      <4>1. settings[n] \in SettingsRow
        BY DEF SettingsInv, SettingsType
      <4>2. settings[n].secret \in StoredSecrets!Secret
        BY <4>1 DEF SettingsRow
      <4> QED
        BY <4>2, SettingsAssumption DEF SettingsInv, RowHolds, StoredSecrets!Secret
    <3>2. \A z \in withdrawn : z.number <= secrets
      BY DEF SettingsInv, SettingsType
    <3> QED
      BY <2>3, <2>4, <3>1, <3>2
  <2>7. WritesFields(q)'
    BY <1>2, <1>8, <2>4, <2>5, <2>6 DEF WritesFields
  <2>8. (NamesRecord(q) /\ ReadsRecord(q) /\ Contends(q))'
    BY <1>2, <1>7, <2>5 DEF NamesRecord, ReadsRecord, Contends, Unread,
          StoredSecrets!Connections, StoredSecrets!Live, StoredSecrets!Created
  <2>9. tab' = [tab EXCEPT ![t] = q]
    BY <2>2, <2>5 DEF StoredSecrets!Set
  <2>10. SettingsReqHolds(q)'
    BY <2>7, <2>8 DEF SettingsReqHolds
  <2> QED
    BY <1>2, <2>3, <2>4, <2>5, <2>9, <2>10, SettingsReqMoves
<1>9. CASE ~r.clear /\ ~r.fresh
  <2>1. /\ UNCHANGED secrets
        /\ \/ StoredSecrets!Set(t, StoredSecrets!Idle)
           \/ StoredSecrets!Set(t, StoredSecrets!ToWrite(r, StoredSecrets!NoSecret))
           \/ /\ StoredSecrets!Set(t, StoredSecrets!ToWrite(r, r.fields.secret))
              /\ r.kind = Source \/ r.fields.vendor = r.kind
    BY <1>1, <1>9 DEF StoredSecrets!BuildFields, StoredSecrets!KeepsKey
  <2>2. CASE StoredSecrets!Set(t, StoredSecrets!Idle)
    BY <1>2, <2>1, <2>2, SettingsEnds
  <2>3. ASSUME NEW s \in StoredSecrets!Secret,
               StoredSecrets!Set(t, StoredSecrets!ToWrite(r, s)),
               s = StoredSecrets!NoSecret
                 \/ (s = r.fields.secret /\ (r.kind = Source \/ r.fields.vendor = r.kind))
        PROVE  SettingsInv'
    <3>1. PICK q \in SettingsReq :
            /\ q = StoredSecrets!ToWrite(r, s) /\ q.pc = "write" /\ q.kind = r.kind
            /\ q.id = r.id /\ q.version = r.version /\ q.fresh = r.fresh
            /\ q.attempt = r.attempt
            /\ q.fields.live /\ q.fields.vendor = r.kind /\ q.fields.secret = s
      BY <1>6
    <3>2. s.number <= secrets
      BY <1>2, <1>3, <2>3, SettingsConstants
         DEF SettingsInv, SettingsType, SettingsReqHolds, ReadsRecord
    <3>3. WritesFields(q)
      BY <1>2, <1>3, <1>7, <1>9, <2>3, <3>1, <3>2
         DEF WritesFields, SettingsReqHolds, ReadsRecord
    <3>4. SettingsReqHolds(q) /\ ~Own(q)
      BY <1>7, <1>9, <3>1, <3>3 DEF SettingsReqHolds, Own
    <3> QED
      BY <1>2, <2>1, <2>3, <3>1, <3>4, SettingsProceeds
  <2> QED
    BY <1>4, <2>1, <2>2, <2>3, SettingsConstants
<1> QED
  BY <1>4, <1>5, <1>8, <1>9

(* crud.Engine.Create: a record whose number nobody had.                   *)
LEMMA SettingsInsert ==
  ASSUME SettingsInv, NEW t \in FormTabs, StoredSecrets!Insert(t),
         Filled(tab[t]), tab[t].fresh \/ tab[t].fields.secret = StoredSecrets!NoSecret,
         ~StoredSecrets!Conflicts(t),
         StoredSecrets!Set(t, StoredSecrets!Idle), UNCHANGED secrets
  PROVE  SettingsInv'
<1>1. PICK f \in SettingsRow : f = tab[t].fields
  BY SettingsFieldsTyped
<1>2. PICK n \in 1..MaxSettings :
        /\ n \notin StoredSecrets!Created
        /\ settings' = [settings EXCEPT ![n] = [f EXCEPT !.version = 1]]
        /\ StoredSecrets!Wrote /\ UNCHANGED withdrawn
  BY <1>1 DEF StoredSecrets!Insert
<1>3. PICK x : x = [f EXCEPT !.version = 1]
  OBVIOUS
<1>4. /\ x \in SettingsRow /\ x.version = 1 /\ x.live = f.live /\ x.vendor = f.vendor
      /\ x.secret = f.secret
  BY <1>3 DEF SettingsRow
<1>5. settings[n].version = 0
  BY <1>2 DEF StoredSecrets!Created
<1>6. SettingsReqHolds(tab[t])
  BY DEF SettingsInv
<1>7. x.live /\ WritesRecord(n, x) /\ x.secret.number <= secrets
  BY <1>1, <1>4, <1>5, <1>6 DEF SettingsReqHolds, WritesFields, WritesRecord
<1>8. x.secret # StoredSecrets!NoSecret =>
        /\ x.secret.vendor = x.vendor /\ x.secret \notin withdrawn'
        /\ Own(tab[t]) /\ x.secret = tab[t].fields.secret
  BY <1>1, <1>2, <1>4, <1>6 DEF SettingsReqHolds, WritesFields, Own
<1>9. x.vendor = Source \/ StoredSecrets!Connections = {}
  BY <1>1, <1>4, <1>6 DEF StoredSecrets!Conflicts, SettingsReqHolds, WritesFields
<1> QED
  BY <1>2, <1>3, <1>4, <1>7, <1>8, <1>9, SettingsWrite

(* crud.Engine.Update of the version that was read: the secret is the one  *)
(* that was there, or one that was just entered.                           *)
LEMMA SettingsReplace ==
  ASSUME SettingsInv, NEW t \in FormTabs, NEW n \in 1..MaxSettings, n = tab[t].id,
         Filled(tab[t]), Unread(tab[t]),
         StoredSecrets!Replace(n, tab[t].fields),
         StoredSecrets!Set(t, StoredSecrets!Idle), UNCHANGED secrets
  PROVE  SettingsInv'
<1>1. PICK f \in SettingsRow : f = tab[t].fields
  BY SettingsFieldsTyped
<1>2. settings[n] \in SettingsRow /\ settings[n].version \in Nat /\ settings[n].live
  BY DEF SettingsInv, SettingsType, SettingsRow, Unread
<1>3. PICK v \in Nat : v = settings[n].version + 1
  BY <1>2
<1>4. /\ settings' = [settings EXCEPT ![n] = [f EXCEPT !.version = v]]
      /\ withdrawn' = withdrawn \union ({settings[n].secret} \ {f.secret})
      /\ StoredSecrets!Wrote
  BY <1>1, <1>3 DEF StoredSecrets!Replace
<1>5. PICK x : x = [f EXCEPT !.version = v]
  OBVIOUS
<1>6. /\ x \in SettingsRow /\ x.version = v /\ x.live = f.live /\ x.vendor = f.vendor
      /\ x.secret = f.secret
  BY <1>3, <1>5 DEF SettingsRow
<1>7. SettingsReqHolds(tab[t]) /\ RowHolds(n)
  BY DEF SettingsInv
<1>8. x.live /\ x.vendor = tab[t].kind /\ x.secret.number <= secrets
  BY <1>1, <1>6, <1>7 DEF SettingsReqHolds, WritesFields
<1>9. settings[n].version # 0 /\ n # 0
  BY <1>2, <1>7 DEF RowHolds
<1>10. x.vendor = Source <=> settings[n].vendor = Source
  BY <1>2, <1>7, <1>8, <1>9 DEF SettingsReqHolds, NamesRecord, Filled
<1>11. WritesRecord(n, x)
  BY <1>2, <1>3, <1>6, <1>8, <1>10 DEF WritesRecord
<1>12. ASSUME x.secret # StoredSecrets!NoSecret
       PROVE  /\ x.secret.vendor = x.vendor /\ x.secret \notin withdrawn'
              /\ \/ settings[n].live /\ x.secret = settings[n].secret
                 \/ Own(tab[t]) /\ x.secret = tab[t].fields.secret
  <2>1. CASE tab[t].fresh
    BY <1>1, <1>4, <1>6, <1>7, <1>8, <1>12, <2>1 DEF SettingsReqHolds, WritesFields, Own
  <2>2. CASE ~tab[t].fresh
    BY <1>1, <1>2, <1>4, <1>6, <1>7, <1>8, <1>12, <2>2
       DEF SettingsReqHolds, WritesFields, RowHolds
  <2> QED
    BY <2>1, <2>2
<1> QED
  BY <1>2, <1>4, <1>5, <1>6, <1>8, <1>9, <1>11, <1>12, SettingsWrite

(* aiProviderSettingsClear, extSQLSourceDelete.                            *)
LEMMA SettingsDelete ==
  ASSUME SettingsInv, NEW t \in FormTabs, StoredSecrets!Delete(t)
  PROVE  SettingsInv'
<1>1. StoredSecrets!Set(t, StoredSecrets!Idle) /\ UNCHANGED secrets
  BY DEF StoredSecrets!Delete
<1>2. PICK n \in 0..MaxSettings : n = tab[t].id
  BY SettingsFieldsTyped DEF SettingsReq
<1>3. CASE n = 0 \/ ~settings[n].live
  <2>1. UNCHANGED <<settings, withdrawn, writes>>
    BY <1>2, <1>3 DEF StoredSecrets!Delete, StoredSecrets!Remove, StoredSecrets!Unwritten
  <2> QED
    BY <1>1, <2>1, SettingsEnds
<1>4. CASE n # 0 /\ settings[n].live
  <2>1. n \in 1..MaxSettings
    BY <1>4, SettingsAssumption
  <2>2. PICK x \in SettingsRow : x = StoredSecrets!Gone
    BY SettingsConstants
  <2>3. /\ settings' = [settings EXCEPT ![n] = x]
        /\ withdrawn' = withdrawn \union {settings[n].secret}
        /\ StoredSecrets!Wrote
    BY <1>2, <1>4, <2>2 DEF StoredSecrets!Delete, StoredSecrets!Remove
  <2>4. ~x.live /\ x.version = 1 /\ x.secret.number = 0
    BY <2>2, SettingsConstants
  <2>5. x.secret.number <= secrets /\ settings[n].version # 0
    BY <1>4, <2>1, <2>4, SettingsAssumption DEF SettingsInv, SettingsType, RowHolds
  <2>6. WritesRecord(n, x)
    BY <1>4, <2>4 DEF WritesRecord
  <2> QED
    BY <1>1, <1>4, <2>1, <2>3, <2>4, <2>5, <2>6, SettingsWrite
<1> QED
  BY <1>3, <1>4

LEMMA SettingsRetry ==
  ASSUME SettingsInv, NEW t \in FormTabs, StoredSecrets!Retry(t),
         tab[t].pc \in {"again", "recover"}, tab[t].since + tab[t].attempt < writes,
         UNCHANGED <<secrets, settings, withdrawn, writes>>
  PROVE  SettingsInv'
<1>1. PICK r \in SettingsReq : r = tab[t]
  BY SettingsFieldsTyped
<1>2. /\ SettingsReqHolds(r) /\ r.attempt \in Nat /\ r.since \in Nat /\ writes \in Nat
      /\ r.attempt < MaxAttempts
  BY <1>1, SettingsAssumption
     DEF SettingsInv, SettingsReq, SettingsType, SettingsReqHolds, Contends
<1>3. PICK a \in 0..MaxAttempts : a = r.attempt + 1
  BY <1>2, SettingsAssumption
<1>4. PICK q : q = [r EXCEPT !.pc = "list", !.attempt = a]
  OBVIOUS
<1>5. /\ q \in SettingsReq /\ q.pc = "list" /\ q.attempt = a /\ q.kind = r.kind
      /\ q.id = r.id /\ q.version = r.version /\ q.fresh = r.fresh
      /\ q.fields = r.fields /\ q.since = r.since
  BY <1>4 DEF SettingsReq
<1>6. StoredSecrets!Set(t, q)
  BY <1>1, <1>3, <1>4 DEF StoredSecrets!Retry
<1>7. NamesRecord(q) /\ ReadsRecord(q)
  BY <1>1, <1>2, <1>5 DEF SettingsReqHolds, NamesRecord, ReadsRecord
<1>8. WritesFields(q)
  BY <1>1, <1>2, <1>5 DEF SettingsReqHolds, WritesFields, Filled
<1>9. Contends(q)
  BY <1>1, <1>2, <1>3, <1>5 DEF SettingsReqHolds, Contends
<1>10. Own(q) => Own(r) /\ q.fields.secret = r.fields.secret
  BY <1>1, <1>5 DEF Own, Filled
<1> QED
  BY <1>1, <1>5, <1>6, <1>7, <1>8, <1>9, <1>10, SettingsProceeds DEF SettingsReqHolds

LEMMA SettingsCreate ==
  ASSUME SettingsInv, NEW t \in FormTabs, StoredSecrets!Create(t)
  PROVE  SettingsInv'
<1>1. PICK r \in SettingsReq : r = tab[t]
  BY SettingsFieldsTyped
<1>2. r.pc = "write" /\ r.id = 0 /\ UNCHANGED secrets
  BY <1>1 DEF StoredSecrets!Create
<1>3. SettingsReqHolds(r) /\ Filled(r)
  BY <1>1, <1>2 DEF SettingsInv, Filled
<1>4. r.fresh \/ r.fields.secret = StoredSecrets!NoSecret
  BY <1>2, <1>3 DEF SettingsReqHolds, WritesFields
<1>5. CASE StoredSecrets!Conflicts(t)
  <2>1. /\ StoredSecrets!Set(t, [r EXCEPT !.pc = "list", !.since = writes])
        /\ UNCHANGED <<settings, withdrawn, writes>>
    BY <1>1, <1>5 DEF StoredSecrets!Create, StoredSecrets!Unwritten
  <2>2. PICK q : q = [r EXCEPT !.pc = "list", !.since = writes]
    OBVIOUS
  <2>3. writes \in Nat
    BY SettingsAssumption DEF SettingsInv, SettingsType
  <2>4. /\ q \in SettingsReq /\ q.pc = "list" /\ q.attempt = r.attempt /\ q.kind = r.kind
        /\ q.id = r.id /\ q.version = r.version /\ q.fresh = r.fresh
        /\ q.fields = r.fields /\ q.since = writes
    BY <2>2, <2>3 DEF SettingsReq
  <2>5. NamesRecord(q) /\ ReadsRecord(q)
    BY <1>2, <2>4 DEF NamesRecord, ReadsRecord
  <2>6. WritesFields(q)
    BY <1>3, <1>4, <2>4 DEF SettingsReqHolds, WritesFields, Filled
  <2>7. Contends(q)
    BY <1>1, <1>2, <1>3, <1>5, <2>3, <2>4 DEF SettingsReqHolds, Contends, StoredSecrets!Conflicts
  <2>8. Own(q) => Own(r) /\ q.fields.secret = r.fields.secret
    BY <1>3, <2>4 DEF Own
  <2> QED
    BY <1>1, <1>2, <2>1, <2>2, <2>4, <2>5, <2>6, <2>7, <2>8, SettingsProceeds
       DEF SettingsReqHolds
<1>6. CASE ~StoredSecrets!Conflicts(t)
  <2>1. StoredSecrets!Insert(t) /\ StoredSecrets!Set(t, StoredSecrets!Idle)
    BY <1>6 DEF StoredSecrets!Create
  <2> QED
    BY <1>1, <1>2, <1>3, <1>4, <1>6, <2>1, SettingsInsert
<1> QED
  BY <1>5, <1>6

LEMMA SettingsUpdate ==
  ASSUME SettingsInv, NEW t \in FormTabs,
         StoredSecrets!Update(t) \/ StoredSecrets!UpdateWinner(t)
  PROVE  SettingsInv'
<1>1. /\ tab[t].pc \in {"write", "recover"} /\ UNCHANGED secrets
      /\ tab[t].id \in 0..MaxSettings /\ tab[t].id # 0
  BY SettingsFieldsTyped
     DEF StoredSecrets!Update, StoredSecrets!UpdateWinner, SettingsInv, SettingsReqHolds,
         Contends, SettingsReq
<1>2. PICK n \in 1..MaxSettings : n = tab[t].id
  BY <1>1, SettingsAssumption
<1>3. StoredSecrets!SameVersion(t) <=> Unread(tab[t])
  BY DEF StoredSecrets!SameVersion, Unread
<1>4. \/ /\ Unread(tab[t]) /\ StoredSecrets!Replace(n, tab[t].fields)
         /\ StoredSecrets!Set(t, StoredSecrets!Idle)
      \/ StoredSecrets!Unwritten /\ StoredSecrets!Set(t, StoredSecrets!Idle)
      \/ /\ tab[t].pc = "recover" /\ settings[n].live /\ ~Unread(tab[t])
         /\ StoredSecrets!Retry(t) /\ StoredSecrets!Unwritten
  BY <1>2, <1>3 DEF StoredSecrets!Update, StoredSecrets!UpdateWinner, Unread
<1>5. CASE /\ Unread(tab[t]) /\ StoredSecrets!Replace(n, tab[t].fields)
           /\ StoredSecrets!Set(t, StoredSecrets!Idle)
  BY <1>1, <1>2, <1>5, SettingsReplace DEF Filled
<1>6. CASE StoredSecrets!Unwritten /\ StoredSecrets!Set(t, StoredSecrets!Idle)
  BY <1>1, <1>6, SettingsEnds DEF StoredSecrets!Unwritten
<1>7. CASE /\ tab[t].pc = "recover" /\ settings[n].live /\ ~Unread(tab[t])
           /\ StoredSecrets!Retry(t) /\ StoredSecrets!Unwritten
  <2>1. tab[t].since + tab[t].attempt < writes
    BY <1>2, <1>7 DEF SettingsInv, SettingsReqHolds, Contends
  <2> QED
    BY <1>1, <1>7, <2>1, SettingsRetry DEF StoredSecrets!Unwritten
<1> QED
  BY <1>4, <1>5, <1>6, <1>7

LEMMA SettingsCreateAgain ==
  ASSUME SettingsInv, NEW t \in FormTabs, StoredSecrets!CreateAgain(t)
  PROVE  SettingsInv'
<1>1. tab[t].pc = "again" /\ UNCHANGED secrets /\ SettingsReqHolds(tab[t])
  BY DEF StoredSecrets!CreateAgain, SettingsInv
<1>2. CASE StoredSecrets!Conflicts(t)
  <2>1. tab[t].since + tab[t].attempt < writes
    BY <1>1, <1>2 DEF SettingsReqHolds, Contends, StoredSecrets!Conflicts
  <2>2. StoredSecrets!Retry(t) /\ UNCHANGED <<settings, withdrawn, writes>>
    BY <1>2 DEF StoredSecrets!CreateAgain, StoredSecrets!Unwritten
  <2> QED
    BY <1>1, <2>1, <2>2, SettingsRetry
<1>3. CASE ~StoredSecrets!Conflicts(t)
  <2>1. StoredSecrets!Insert(t) /\ StoredSecrets!Set(t, StoredSecrets!Idle)
    BY <1>3 DEF StoredSecrets!CreateAgain
  <2>2. Filled(tab[t]) /\ (tab[t].fresh \/ tab[t].fields.secret = StoredSecrets!NoSecret)
    BY <1>1 DEF Filled, SettingsReqHolds, WritesFields
  <2> QED
    BY <1>1, <1>3, <2>1, <2>2, SettingsInsert
<1> QED
  BY <1>2, <1>3

(* createOrRecoverAIProviderConnection looks for the record that won.      *)
LEMMA SettingsGiveUpOrList ==
  ASSUME SettingsInv, NEW t \in FormTabs, StoredSecrets!GiveUpOrList(t)
  PROVE  SettingsInv'
<1>1. PICK r \in SettingsReq : r = tab[t]
  BY SettingsFieldsTyped
<1>2. /\ r.pc = "list" /\ SettingsReqHolds(r)
      /\ UNCHANGED <<secrets, settings, withdrawn, writes>>
      /\ writes \in Nat /\ r.since \in Nat /\ r.attempt \in 0..MaxAttempts
  <2>1. r.pc = "list" /\ UNCHANGED <<secrets, settings, withdrawn, writes>>
    BY <1>1 DEF StoredSecrets!GiveUpOrList, StoredSecrets!Unwritten
  <2>2. SettingsReqHolds(r) /\ writes \in Nat
    BY <1>1, SettingsAssumption DEF SettingsInv, SettingsType
  <2>3. r.since \in Nat /\ r.attempt \in 0..MaxAttempts
    BY DEF SettingsReq
  <2> QED
    BY <2>1, <2>2, <2>3
<1>3. r.attempt # MaxAttempts => r.attempt < MaxAttempts
  BY <1>2, SettingsAssumption
<1>4. CASE \/ r.attempt = MaxAttempts /\ StoredSecrets!Goto(t, "failed")
           \/ /\ r.attempt # MaxAttempts /\ StoredSecrets!Connections = {}
              /\ StoredSecrets!Goto(t, "again")
  <2>1. PICK p \in {"failed", "again"} :
          /\ StoredSecrets!Set(t, [r EXCEPT !.pc = p])
          /\ p = "failed" => r.attempt = MaxAttempts
          /\ p = "again" => r.attempt # MaxAttempts /\ StoredSecrets!Connections = {}
    BY <1>1, <1>4 DEF StoredSecrets!Goto
  <2>2. PICK q : q = [r EXCEPT !.pc = p]
    OBVIOUS
  <2>3. /\ q \in SettingsReq /\ q.pc = p /\ q.attempt = r.attempt /\ q.kind = r.kind
        /\ q.id = r.id /\ q.version = r.version /\ q.fresh = r.fresh
        /\ q.fields = r.fields /\ q.since = r.since
    BY <2>2 DEF SettingsReq
  <2>4. NamesRecord(q) /\ ReadsRecord(q)
    BY <1>2, <2>3 DEF SettingsReqHolds, NamesRecord, ReadsRecord
  <2>5. WritesFields(q)
    BY <1>2, <2>3 DEF SettingsReqHolds, WritesFields, Filled
  <2>6. Contends(q)
    BY <1>2, <1>3, <2>1, <2>3 DEF SettingsReqHolds, Contends
  <2>7. Own(q) => Own(r) /\ q.fields.secret = r.fields.secret
    BY <1>2, <2>3 DEF Own, Filled
  <2> QED
    BY <1>1, <1>2, <2>1, <2>2, <2>3, <2>4, <2>5, <2>6, <2>7, SettingsProceeds
       DEF SettingsReqHolds
<1>5. CASE /\ r.attempt # MaxAttempts
           /\ \E n \in StoredSecrets!Connections :
                StoredSecrets!Set(t, [r EXCEPT !.pc = "recover", !.id = n,
                                               !.version = settings[n].version])
  <2>1. PICK n \in StoredSecrets!Connections :
          StoredSecrets!Set(t, [r EXCEPT !.pc = "recover", !.id = n,
                                         !.version = settings[n].version])
    BY <1>5
  <2>2. /\ n \in 1..MaxSettings /\ settings[n].live /\ settings[n].version # 0
        /\ settings[n].vendor # Source /\ settings[n] \in SettingsRow
        /\ n # 0 /\ n \in 0..MaxSettings
    BY <2>1 DEF StoredSecrets!Connections, StoredSecrets!Live, StoredSecrets!Created,
                SettingsInv, SettingsType
  <2>3. PICK v \in Nat : v = settings[n].version
    BY <2>2 DEF SettingsRow
  <2>4. PICK q : q = [r EXCEPT !.pc = "recover", !.id = n, !.version = v]
    OBVIOUS
  <2>5. /\ q \in SettingsReq /\ q.pc = "recover" /\ q.attempt = r.attempt /\ q.kind = r.kind
        /\ q.id = n /\ q.version = v /\ q.fresh = r.fresh
        /\ q.fields = r.fields /\ q.since = r.since
    BY <2>2, <2>4 DEF SettingsReq
  <2>6. q.kind # Source
    BY <1>2, <2>5 DEF SettingsReqHolds, Contends
  <2>7. NamesRecord(q) /\ ReadsRecord(q)
    BY <2>2, <2>3, <2>5, <2>6 DEF NamesRecord, ReadsRecord
  <2>8. WritesFields(q)
    BY <1>2, <2>5 DEF SettingsReqHolds, WritesFields, Filled
  <2>9. Contends(q)
    BY <1>2, <1>3, <1>5, <2>2, <2>3, <2>5, <2>6 DEF SettingsReqHolds, Contends, Unread
  <2>10. Own(q) => Own(r) /\ q.fields.secret = r.fields.secret
    BY <1>2, <2>5 DEF Own, Filled
  <2> QED
    BY <1>1, <1>2, <2>1, <2>3, <2>4, <2>5, <2>7, <2>8, <2>9, <2>10, SettingsProceeds
       DEF SettingsReqHolds
<1> QED
  BY <1>1, <1>4, <1>5 DEF StoredSecrets!GiveUpOrList

LEMMA SettingsKept ==
  ASSUME SettingsInv, StoredSecrets!Next \/ UNCHANGED secretVars
  PROVE  SettingsInv'
<1>1. CASE UNCHANGED secretVars
  BY <1>1 DEF secretVars, SettingsInv, SettingsType, RecordsApart, OwnApart, Own, Filled,
       RowHolds, SettingsReqHolds, NamesRecord, ReadsRecord, WritesFields, Contends, Unread,
       StoredSecrets!Connections, StoredSecrets!Live, StoredSecrets!Created
<1>2. ASSUME NEW t \in FormTabs, NEW vendor \in StoredSecrets!Providers,
             NEW fresh \in BOOLEAN, NEW clear \in BOOLEAN,
             StoredSecrets!ReadConnection(t, vendor, fresh, clear)
      PROVE  SettingsInv'
  <2>1. PICK n \in IF StoredSecrets!Connections = {} THEN {0} ELSE StoredSecrets!Connections :
          StoredSecrets!Set(t, StoredSecrets!Asked(vendor, fresh, clear, n))
    BY <1>2 DEF StoredSecrets!ReadConnection
  <2>2. UNCHANGED <<secrets, settings, withdrawn, writes>>
    BY <1>2 DEF StoredSecrets!ReadConnection, StoredSecrets!Unwritten
  <2>3. vendor \in Vendor /\ vendor # Source
    BY SettingsAssumption DEF Vendor, StoredSecrets!Providers
  <2>4. /\ n \in 0..MaxSettings
        /\ n # 0 => n \in StoredSecrets!Live /\ (vendor = Source <=> settings[n].vendor = Source)
    BY <2>1, <2>3, SettingsAssumption
       DEF StoredSecrets!Connections, StoredSecrets!Live, StoredSecrets!Created
  <2> QED
    BY <2>1, <2>2, <2>3, <2>4, SettingsRead
<1>3. ASSUME NEW t \in FormTabs, NEW n \in 0..MaxSettings, NEW fresh \in BOOLEAN,
             NEW clear \in BOOLEAN, StoredSecrets!ReadSource(t, n, fresh, clear)
      PROVE  SettingsInv'
  <2>1. /\ StoredSecrets!Set(t, StoredSecrets!Asked(Source, fresh, clear, n))
        /\ UNCHANGED <<secrets, settings, withdrawn, writes>>
    BY <1>3 DEF StoredSecrets!ReadSource, StoredSecrets!Unwritten
  <2>2. n # 0 => n \in StoredSecrets!Live /\ settings[n].vendor = Source
    BY <1>3 DEF StoredSecrets!ReadSource, StoredSecrets!SourceRows
  <2>3. Source \in Vendor
    BY DEF Vendor
  <2> QED
    BY <2>1, <2>2, <2>3, SettingsRead
<1>4. ASSUME NEW t \in FormTabs, StoredSecrets!Failed(t)
      PROVE  SettingsInv'
  BY <1>4, SettingsEnds DEF StoredSecrets!Failed, StoredSecrets!Unwritten
<1>5. CASE StoredSecrets!Next
  BY <1>2, <1>3, <1>4, <1>5, SettingsBuild, SettingsCreate, SettingsUpdate,
     SettingsGiveUpOrList, SettingsCreateAgain, SettingsDelete DEF StoredSecrets!Next
<1> QED
  BY <1>1, <1>5

LEMMA SettingsImply ==
  ASSUME SettingsInv
  PROVE  /\ StoredSecrets!TypeOK /\ StoredSecrets!SecretsStayWithTheirVendor
         /\ StoredSecrets!GivesUpUnderContention
<1>1. StoredSecrets!TypeOK
  BY DEF SettingsInv, SettingsType, SettingsRow, SettingsReq, StoredSecrets!TypeOK
<1>2. StoredSecrets!SecretsStayWithTheirVendor
  BY DEF SettingsInv, RowHolds, StoredSecrets!SecretsStayWithTheirVendor,
         StoredSecrets!Calls, StoredSecrets!Live, StoredSecrets!Created
<1>3. StoredSecrets!Cardinality(StoredSecrets!Connections) <= 1
  <2>1. \A S : StoredSecrets!Cardinality(S) = Cardinality(S)
    BY DEF StoredSecrets!Cardinality, Cardinality
  <2>2. \A n, m \in StoredSecrets!Connections : n = m
    BY DEF SettingsInv, RecordsApart, StoredSecrets!Connections, StoredSecrets!Live,
           StoredSecrets!Created
  <2>3. CASE StoredSecrets!Connections = {}
    <3>1. Cardinality(StoredSecrets!Connections) = 0
      BY <2>3, FS_EmptySet
    <3> QED
      BY <2>1, <3>1
  <2>4. CASE StoredSecrets!Connections # {}
    <3>1. PICK n : StoredSecrets!Connections = {n}
      BY <2>2, <2>4
    <3>2. Cardinality({n}) = 1
      BY FS_Singleton
    <3> QED
      BY <2>1, <3>1, <3>2
  <2> QED
    BY <2>3, <2>4
<1>4. ASSUME NEW t \in FormTabs, tab[t].pc = "failed"
      PROVE  writes - tab[t].since >= MaxAttempts
  <2>1. tab[t].since + MaxAttempts <= writes
    BY <1>4 DEF SettingsInv, SettingsReqHolds, Contends
  <2>2. tab[t].since \in Nat /\ writes \in Nat
    BY SettingsFieldsTyped, SettingsAssumption DEF SettingsInv, SettingsType, SettingsReq
  <2> QED
    BY <2>1, <2>2, SettingsAssumption
<1> QED
  BY <1>1, <1>2, <1>3, <1>4 DEF StoredSecrets!GivesUpUnderContention

LEMMA SettingsWorkStep ==
  ASSUME [WorkNext]_allVars, part = "settings"
  PROVE  part' = part /\ (StoredSecrets!Next \/ UNCHANGED secretVars)
<1>1. CASE WorkNext
  BY <1>1 DEF WorkNext, ImportStep, SignInStep, AccessStep, MemberStep, TaskStep, BookStep,
              PurchaseStep, AssetStep, SettingsStep, FileStep, OthersRest
<1>2. CASE UNCHANGED allVars
  BY <1>2 DEF allVars
<1> QED
  BY <1>1, <1>2

(* The settings pages and the attachment handlers, however their requests  *)
(* interleave and where processes die: a secret that a page kept is the    *)
(* one its record has, goes to the vendor it was entered for and does not  *)
(* come back once replaced; a save of the connection gives up only after   *)
(* as many writes of others; no row of a file is without its bytes, and no *)
(* bytes without a row, but by the faults named.                           *)
THEOREM TenantStoredDataIsKept == WorkSpec => []StoredDataIsKept
<1> DEFINE I == /\ part = "settings" => SettingsInv
                /\ part = "files" => FilesInv
<1>1. WorkInit => I
  BY SettingsInit, FilesInit DEF WorkInit
<1>2. I /\ [WorkNext]_allVars => I'
  <2>1. part' = part \/ ~[WorkNext]_allVars
    BY DEF WorkNext, ImportStep, SignInStep, AccessStep, MemberStep, TaskStep, BookStep,
           PurchaseStep, AssetStep, SettingsStep, FileStep, OthersRest, allVars
  <2>2. ASSUME I, [WorkNext]_allVars, part = "settings"
        PROVE  SettingsInv'
    BY <2>2, SettingsWorkStep, SettingsKept
  <2>3. ASSUME I, [WorkNext]_allVars, part = "files"
        PROVE  FilesInv'
    BY <2>3, FilesWorkStep, FilesKept
  <2> QED
    BY <2>1, <2>2, <2>3
<1>3. I => StoredDataIsKept
  BY SettingsImply, FilesImply DEF StoredDataIsKept
<1> QED
  BY <1>1, <1>2, <1>3, PTL DEF WorkSpec
=============================================================================
