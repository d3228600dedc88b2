-------------------------- MODULE RecordStoreProofs --------------------------
(***************************************************************************)
(* What holds of the record store for any number of records, requests and  *)
(* codes, any status graph and any records older than the constraint: its  *)
(* types, that checks made on a row read earlier still bind the write, that *)
(* saved codes stay unique and that a backfill reaches every record.       *)
(***************************************************************************)
EXTENDS RecordStore, FiniteSetTheorems, WellFoundedInduction, TLAPS

USE LegacyAssumption, MarksAssumption, BoundsAssumption

PCs == {"idle", "editing", "checked", "keys", "inserting", "commit"}

(* A row was written before it was live, and has no status of its own      *)
(* without a graph.                                                        *)
RowsOK ==
  \A r \in Ids :
    /\ records[r].live => records[r].version > 0
    /\ ~HasStatus => records[r].status = Initial

(* The status may go from old to new.                                      *)
StatusMoves(old, new) ==
  IF HasStatus THEN new = old \/ <<old, new>> \in Transitions ELSE new = Initial

(* A request has read a live row, and the row has not gone back since: if  *)
(* it is live at the version that was read, it is what was read.           *)
Seen(c) ==
  LET row == records[target[c]] IN
    /\ target[c] \in Ids /\ base[c].live /\ base[c].version > 0
    /\ row.version >= base[c].version
    /\ row.live /\ row.version = base[c].version => row = base[c]

(* The status it was given leave for is one the row may move to, so long   *)
(* as the row is at the version the request states.                        *)
Prepared(c) ==
  LET row == records[target[c]] IN
    /\ expected[c] \in {base[c].version, AnyVersion}
    /\ staged[c].live
    /\ HasStatus => expected[c] # AnyVersion
    /\ ~HasStatus => staged[c].status = Initial
    /\ HasStatus /\ row.live /\ row.version = expected[c] =>
         StatusMoves(row.status, staged[c].status)

(* What an open transaction does to its row, which it has locked.          *)
Updates(c) ==
  LET row == records[target[c]] IN
    /\ row.live /\ staged[c].live /\ staged[c].version = row.version + 1
    /\ StatusMoves(row.status, staged[c].status)
    /\ expected[c] # AnyVersion => row = base[c]
Creates(c) ==
  /\ records[target[c]].version = 0
  /\ staged[c].live /\ staged[c].version = 1 /\ staged[c].status = Initial
  /\ expected[c] = AnyVersion
Deletes(c) ==
  /\ records[target[c]].live
  /\ staged[c] = [records[target[c]] EXCEPT !.live = FALSE]
  /\ expected[c] = AnyVersion
Writes(c) == target[c] \in Ids /\ (Updates(c) \/ Creates(c) \/ Deletes(c))

ClientOK(c) ==
  /\ pc[c] = "idle" => expected[c] = AnyVersion
  /\ pc[c] \in {"editing", "checked"} => Seen(c)
  /\ pc[c] = "checked" => Prepared(c)
  /\ InTransaction(c) => Writes(c)
  /\ pc[c] = "inserting" => staged[c].live /\ staged[c].code \in Codes

RecordInv == TypeOK /\ RowsOK /\ \A c \in Clients : ClientOK(c)

-----------------------------------------------------------------------------
(* Requests but c are where they were.                                     *)
OthersWait(c) ==
  \A d \in Clients \ {c} :
    /\ pc'[d] = pc[d] /\ target'[d] = target[d] /\ base'[d] = base[d]
    /\ expected'[d] = expected[d] /\ staged'[d] = staged[d]

(* A row goes forward: it is not changed without a new version, except     *)
(* that it ceases to be live, and is not live again.                       *)
GoesForward(old, new) ==
  /\ new.version >= old.version
  /\ new.version = old.version /\ new.live => new = old

(* What c does to a row that others have not locked leaves them in order.  *)
LEMMA OthersKept ==
  ASSUME RecordInv, NEW c \in Clients, OthersWait(c),
         records' \in [Ids -> RowType],
         \A r \in Ids : GoesForward(records[r], records'[r]),
         \A r \in Ids : records'[r] # records[r] => lock[r] = c
  PROVE  \A d \in Clients \ {c} : ClientOK(d)'
<1> SUFFICES ASSUME NEW d \in Clients \ {c} PROVE ClientOK(d)'
  OBVIOUS
<1>0. /\ pc'[d] = pc[d] /\ target'[d] = target[d] /\ base'[d] = base[d]
      /\ expected'[d] = expected[d] /\ staged'[d] = staged[d]
      /\ InTransaction(d)' = InTransaction(d)
  BY DEF OthersWait, InTransaction
<1>1. ClientOK(d) /\ TypeOK
  BY DEF RecordInv
<1>2. ASSUME pc[d] \in {"editing", "checked"} PROVE Seen(d)'
  <2>1. Seen(d) /\ target[d] \in Ids
    BY <1>1, <1>2 DEF ClientOK, Seen
  <2>2. GoesForward(records[target[d]], records'[target[d]])
    BY <2>1
  <2>3. /\ records[target[d]].version \in Nat /\ records'[target[d]].version \in Nat
        /\ base[d].version \in Nat
    BY <1>1, <2>1 DEF TypeOK, RowType
  <2> QED
    BY <1>0, <2>1, <2>2, <2>3 DEF Seen, GoesForward
<1>3. ASSUME pc[d] = "checked" PROVE Prepared(d)'
  <2>1. Seen(d) /\ Prepared(d) /\ target[d] \in Ids
    BY <1>1, <1>3 DEF ClientOK, Seen
  <2>2. GoesForward(records[target[d]], records'[target[d]])
    BY <2>1
  <2>3. /\ records[target[d]].version \in Nat /\ records'[target[d]].version \in Nat
        /\ base[d].version \in Nat /\ expected[d] \in Nat \union {AnyVersion}
    BY <1>1, <2>1 DEF TypeOK, RowType
  <2>4. CASE HasStatus
    BY <1>0, <2>1, <2>2, <2>3, <2>4 DEF Seen, Prepared, GoesForward
  <2>5. CASE ~HasStatus
    BY <1>0, <2>1, <2>5 DEF Prepared
  <2> QED
    BY <2>4, <2>5
<1>4. ASSUME InTransaction(d) PROVE Writes(d)'
  <2>1. Writes(d) /\ target[d] \in Ids /\ lock[target[d]] = d
    BY <1>1, <1>4 DEF ClientOK, Writes, TypeOK
  <2>2. records'[target[d]] = records[target[d]]
    BY <2>1
  <2> QED
    BY <1>0, <2>1, <2>2 DEF Writes, Updates, Creates, Deletes
<1> QED
  BY <1>0, <1>1, <1>2, <1>3, <1>4 DEF ClientOK

(* The same when c changes no row.                                         *)
LEMMA OthersUntouched ==
  ASSUME RecordInv, NEW c \in Clients, OthersWait(c), records' = records
  PROVE  RowsOK' /\ \A d \in Clients \ {c} : ClientOK(d)'
<1>1. records' \in [Ids -> RowType]
  BY DEF RecordInv, TypeOK
<1>2. \A r \in Ids : GoesForward(records[r], records'[r])
  BY DEF GoesForward, RecordInv, TypeOK, RowType
<1>3. RowsOK'
  BY DEF RecordInv, RowsOK
<1> QED
  BY <1>1, <1>2, <1>3, OthersKept

-----------------------------------------------------------------------------
(* The steps that write nothing committed.                                 *)
LEMMA InitRecordInv == Init => RecordInv
<1> SUFFICES ASSUME Init PROVE RecordInv
  OBVIOUS
<1> USE DEF Init
<1>1. NoRecord \in RowType /\ StartRecords \in [Ids -> RowType]
  BY DEF NoRecord, StartRecords, Row, RowType, Values, Statuses
<1>2. StartOwner \in [Codes -> Ids \union {NoOne}]
  <2> SUFFICES ASSUME NEW k \in Codes PROVE StartOwner[k] \in Ids \union {NoOne}
    BY DEF StartOwner
  <2>1. ASSUME \E r \in DOMAIN Legacy : Legacy[r] = k
        PROVE  (CHOOSE r \in DOMAIN Legacy : Legacy[r] = k) \in Ids
    BY <2>1
  <2> QED
    BY <2>1 DEF StartOwner
<1>3. page \in UNION {[listed -> Values] : listed \in SUBSET Ids}
  <2>1. page \in [{} -> Values]
    OBVIOUS
  <2> QED
    BY <2>1
<1>4. TypeOK
  BY <1>1, <1>2, <1>3 DEF TypeOK, InTransaction
<1>5. RowsOK
  BY DEF RowsOK, StartRecords, NoRecord, Row
<1>6. \A c \in Clients : ClientOK(c)
  BY DEF ClientOK, InTransaction
<1> QED
  BY <1>4, <1>5, <1>6 DEF RecordInv

(* A request that ends without a write leaves nothing behind.              *)
LEMMA RollbackInv == ASSUME RecordInv, NEW c \in Clients, Rollback(c) PROVE RecordInv'
<1> USE DEF Rollback, End, Goto, backfillVars
<1>1. TypeOK'
  <2>1. NoRecord \in RowType
    BY DEF NoRecord, RowType, Values, Statuses
  <2> QED
    BY <2>1 DEF RecordInv, TypeOK, InTransaction
<1>2. OthersWait(c)
  BY DEF OthersWait, RecordInv, TypeOK
<1>3. RowsOK' /\ \A d \in Clients \ {c} : ClientOK(d)'
  BY <1>2, OthersUntouched
<1>4. ClientOK(c)'
  BY DEF ClientOK, InTransaction, RecordInv, TypeOK
<1> QED
  BY <1>1, <1>3, <1>4 DEF RecordInv

LEMMA GetInv == ASSUME RecordInv, NEW c \in Clients, NEW r \in Ids, Get(c, r) PROVE RecordInv'
<1> USE DEF Get, MayStart, Goto, backfillVars, keyVars
<1>1. TypeOK'
  BY DEF RecordInv, TypeOK, InTransaction
<1>2. OthersWait(c)
  BY DEF OthersWait, RecordInv, TypeOK
<1>3. RowsOK' /\ \A d \in Clients \ {c} : ClientOK(d)'
  BY <1>2, OthersUntouched
<1>4. ClientOK(c)'
  <2>1. pc'[c] = "editing" /\ target'[c] = r /\ base'[c] = records[r]
    BY DEF RecordInv, TypeOK
  <2>2. records[r] \in RowType /\ records[r].version > 0
    BY DEF RecordInv, TypeOK, RowsOK
  <2>3. Seen(c)'
    BY <2>1, <2>2 DEF Seen, RowType
  <2> QED
    BY <2>1, <2>3 DEF ClientOK, InTransaction
<1> QED
  BY <1>1, <1>3, <1>4 DEF RecordInv

LEMMA SubmitInv ==
  ASSUME RecordInv, NEW c \in Clients, NEW code \in Values, NEW status \in Statuses,
         NEW version \in {base[c].version, AnyVersion}, Submit(c, code, status, version)
  PROVE  RecordInv'
<1> DEFINE row == records[target[c]]
           valid == HasStatus => row.live /\ ValidTransition(row.status, status, version)
           written == Row(TRUE, 0, code, IF HasStatus THEN status ELSE Initial)
<1>1. CASE valid
  <2>1. /\ pc[c] = "editing" /\ pc' = [pc EXCEPT ![c] = "checked"]
        /\ expected' = [expected EXCEPT ![c] = version]
        /\ staged' = [staged EXCEPT ![c] = written]
        /\ UNCHANGED <<records, owner, lock, target, base, gives, takes, bpc, page, offset, more>>
    BY <1>1 DEF Submit, Goto, keyVars, backfillVars
  <2>2. Seen(c) /\ base[c] \in RowType /\ row \in RowType
    BY <2>1 DEF RecordInv, ClientOK, TypeOK, Seen
  <2>3. written \in RowType /\ written.live
        /\ written.status = IF HasStatus THEN status ELSE Initial
    BY DEF Row, RowType, Statuses
  <2> HIDE DEF written
  <2>4. TypeOK'
    BY <2>1, <2>2, <2>3 DEF RecordInv, TypeOK, InTransaction, RowType
  <2>5. OthersWait(c)
    BY <2>1 DEF OthersWait, RecordInv, TypeOK
  <2>6. RowsOK' /\ \A d \in Clients \ {c} : ClientOK(d)'
    BY <2>1, <2>5, OthersUntouched
  <2>7. pc'[c] = "checked" /\ expected'[c] = version /\ staged'[c] = written
    BY <2>1 DEF RecordInv, TypeOK
  <2>8. Seen(c)'
    BY <2>1, <2>2 DEF Seen
  <2>9. Prepared(c)'
    BY <1>1, <2>1, <2>3, <2>7 DEF Prepared, ValidTransition, StatusMoves
  <2> QED
    BY <2>4, <2>6, <2>7, <2>8, <2>9 DEF RecordInv, ClientOK, InTransaction
<1>2. CASE ~valid
  BY <1>2, RollbackInv DEF Submit
<1> QED
  BY <1>1, <1>2

LEMMA UpdateTxInv == ASSUME RecordInv, NEW c \in Clients, UpdateTx(c) PROVE RecordInv'
<1> DEFINE r == target[c]
           fits == Matches(c) /\ records[r].version < MaxVersion
<1>1. CASE fits
  <2>1. /\ pc[c] = "checked" /\ lock[r] = NoOne
        /\ pc' = [pc EXCEPT ![c] = "keys"]
        /\ lock' = [lock EXCEPT ![r] = c]
        /\ staged' = [staged EXCEPT ![c].version = records[r].version + 1]
        /\ UNCHANGED <<records, owner, target, base, expected, gives, takes, bpc, page, offset, more>>
    BY <1>1 DEF UpdateTx, Goto, keyVars, backfillVars
  <2>2. Seen(c) /\ Prepared(c) /\ r \in Ids
    BY <2>1 DEF RecordInv, ClientOK, Seen
  <2>3. records[r] \in RowType /\ base[c] \in RowType /\ staged[c] \in RowType
    BY <2>2 DEF RecordInv, TypeOK
  <2>4. staged'[c] \in RowType /\ staged'[c].version = records[r].version + 1
        /\ staged'[c].live /\ staged'[c].status = staged[c].status
    <3>1. staged'[c] = [staged[c] EXCEPT !.version = records[r].version + 1]
      BY <2>1 DEF RecordInv, TypeOK
    <3>2. records[r].version + 1 \in 0..MaxVersion
      BY <1>1, <2>3 DEF RowType
    <3>3. staged[c].live
      BY <2>2 DEF Prepared
    <3> HIDE DEF r
    <3> QED
      BY <2>3, <3>1, <3>2, <3>3 DEF RowType
  <2>5. TypeOK'
    <3>1. staged' \in [Clients -> RowType]
      BY <2>1, <2>4 DEF RecordInv, TypeOK
    <3>2. lock' \in [Ids -> Clients \union {NoOne}]
      BY <2>1 DEF RecordInv, TypeOK
    <3>3. \A q \in Ids, d \in Clients : lock'[q] = d <=> InTransaction(d)' /\ target'[d] = q
      BY <2>1, <2>2 DEF RecordInv, TypeOK, InTransaction
    <3> QED
      BY <2>1, <3>1, <3>2, <3>3 DEF RecordInv, TypeOK
  <2>6. OthersWait(c)
    BY <2>1 DEF OthersWait, RecordInv, TypeOK
  <2>7. RowsOK' /\ \A d \in Clients \ {c} : ClientOK(d)'
    BY <2>1, <2>6, OthersUntouched
  <2>8. Updates(c)'
    <3>1. records[r].live /\ expected[c] \in {records[r].version, AnyVersion}
      BY <1>1 DEF Matches
    <3>2. StatusMoves(records[r].status, staged[c].status)
      BY <2>2, <3>1 DEF Prepared, StatusMoves
    <3>3. expected[c] # AnyVersion => records[r] = base[c]
      BY <2>2, <3>1 DEF Prepared, Seen
    <3> QED
      BY <2>1, <2>4, <3>1, <3>2, <3>3 DEF Updates
  <2>9. pc'[c] = "keys"
    BY <2>1 DEF RecordInv, TypeOK
  <2> QED
    BY <2>1, <2>2, <2>5, <2>7, <2>8, <2>9 DEF RecordInv, ClientOK, InTransaction, Writes
<1>2. CASE ~fits
  BY <1>2, RollbackInv DEF UpdateTx
<1> QED
  BY <1>1, <1>2

LEMMA CreateTxInv ==
  ASSUME RecordInv, NEW c \in Clients, NEW code \in Values, CreateTx(c, code)
  PROVE  RecordInv'
<1>1. PICK r \in Unused :
        /\ lock' = [lock EXCEPT ![r] = c]
        /\ target' = [target EXCEPT ![c] = r]
        /\ staged' = [staged EXCEPT ![c] = Row(TRUE, 1, code, Initial)]
  BY DEF CreateTx
<1>2. /\ pc[c] = "idle"
      /\ pc' = [pc EXCEPT ![c] = IF code = Blank THEN "commit" ELSE "inserting"]
      /\ UNCHANGED <<records, owner, base, expected, gives, takes, bpc, page, offset, more>>
  BY DEF CreateTx, MayStart, Goto, keyVars, backfillVars
<1>3. r \in Ids /\ records[r].version = 0 /\ lock[r] = NoOne
  BY DEF Unused
<1>4. Row(TRUE, 1, code, Initial) \in RowType
  BY DEF Row, RowType, Statuses
<1>5. TypeOK'
  <2>1. pc' \in [Clients -> PCs] /\ target' \in [Clients -> Ids \union {NoOne}]
        /\ lock' \in [Ids -> Clients \union {NoOne}] /\ staged' \in [Clients -> RowType]
    BY <1>1, <1>2, <1>3, <1>4 DEF RecordInv, TypeOK, PCs
  <2>2. \A q \in Ids, d \in Clients : lock'[q] = d <=> InTransaction(d)' /\ target'[d] = q
    BY <1>1, <1>2, <1>3 DEF RecordInv, TypeOK, InTransaction
  <2> QED
    BY <1>2, <2>1, <2>2 DEF RecordInv, TypeOK, PCs
<1>6. OthersWait(c)
  BY <1>1, <1>2 DEF OthersWait, RecordInv, TypeOK
<1>7. RowsOK' /\ \A d \in Clients \ {c} : ClientOK(d)'
  BY <1>2, <1>6, OthersUntouched
<1>8. ClientOK(c)'
  <2>1. /\ pc'[c] = IF code = Blank THEN "commit" ELSE "inserting"
        /\ target'[c] = r /\ staged'[c] = Row(TRUE, 1, code, Initial)
        /\ expected'[c] = AnyVersion
    BY <1>1, <1>2 DEF RecordInv, TypeOK, ClientOK
  <2>2. Creates(c)'
    BY <1>2, <1>3, <2>1 DEF Creates, Row
  <2>3. staged'[c].live /\ staged'[c].code = code
    BY <2>1 DEF Row
  <2> QED
    BY <1>3, <2>1, <2>2, <2>3 DEF ClientOK, InTransaction, Writes, Values
<1> QED
  BY <1>5, <1>7, <1>8 DEF RecordInv

LEMMA DeleteTxInv ==
  ASSUME RecordInv, NEW c \in Clients, NEW r \in Ids, DeleteTx(c, r)
  PROVE  RecordInv'
<1> DEFINE gone == [records[r] EXCEPT !.live = FALSE]
<1>1. /\ pc[c] = "idle" /\ records[r].live /\ lock[r] = NoOne
      /\ pc' = [pc EXCEPT ![c] = "keys"]
      /\ lock' = [lock EXCEPT ![r] = c]
      /\ target' = [target EXCEPT ![c] = r]
      /\ staged' = [staged EXCEPT ![c] = gone]
      /\ UNCHANGED <<records, owner, base, expected, gives, takes, bpc, page, offset, more>>
  BY DEF DeleteTx, MayStart, Goto, keyVars, backfillVars
<1>2. gone \in RowType
  <2>1. records[r] \in RowType
    BY DEF RecordInv, TypeOK
  <2> QED
    BY <2>1 DEF RowType
<1>3. /\ pc'[c] = "keys" /\ target'[c] = r /\ staged'[c] = gone
      /\ expected'[c] = AnyVersion
  BY <1>1 DEF RecordInv, TypeOK, ClientOK
<1>4. Deletes(c)'
  BY <1>1, <1>3 DEF Deletes
<1> HIDE DEF gone
<1>5. TypeOK'
  <2>1. pc' \in [Clients -> PCs] /\ target' \in [Clients -> Ids \union {NoOne}]
        /\ lock' \in [Ids -> Clients \union {NoOne}] /\ staged' \in [Clients -> RowType]
    BY <1>1, <1>2 DEF RecordInv, TypeOK, PCs
  <2>2. \A q \in Ids, d \in Clients : lock'[q] = d <=> InTransaction(d)' /\ target'[d] = q
    BY <1>1 DEF RecordInv, TypeOK, InTransaction
  <2> QED
    BY <1>1, <2>1, <2>2 DEF RecordInv, TypeOK, PCs
<1>6. OthersWait(c)
  BY <1>1 DEF OthersWait, RecordInv, TypeOK
<1>7. RowsOK' /\ \A d \in Clients \ {c} : ClientOK(d)'
  BY <1>1, <1>6, OthersUntouched
<1>8. ClientOK(c)'
  BY <1>3, <1>4 DEF ClientOK, InTransaction, Writes
<1> QED
  BY <1>5, <1>7, <1>8 DEF RecordInv

(* The statements on the keys leave the row the transaction writes alone.  *)
LEMMA KeysWrittenInv ==
  ASSUME RecordInv, NEW c \in Clients, NEW to \in {"inserting", "commit"},
         pc[c] \in {"keys", "inserting"}, Goto(c, to),
         to = "inserting" => staged[c].live /\ staged[c].code \in Codes,
         UNCHANGED <<records, owner, lock, requestVars, backfillVars>>,
         gives' \in [Clients -> SUBSET Codes], takes' \in [Clients -> SUBSET Codes]
  PROVE  RecordInv'
<1> USE DEF Goto, requestVars, backfillVars
<1>1. TypeOK'
  <2>1. pc' = [pc EXCEPT ![c] = to] /\ pc' \in [Clients -> PCs]
    BY DEF RecordInv, TypeOK, PCs
  <2>2. \A d \in Clients : InTransaction(d)' <=> InTransaction(d)
    BY <2>1 DEF InTransaction, RecordInv, TypeOK
  <2>3. \A q \in Ids, d \in Clients : lock'[q] = d <=> InTransaction(d)' /\ target'[d] = q
    BY <2>2 DEF RecordInv, TypeOK
  <2> QED
    BY <2>1, <2>3 DEF RecordInv, TypeOK, PCs
<1>2. OthersWait(c)
  BY DEF OthersWait, RecordInv, TypeOK
<1>3. RowsOK' /\ \A d \in Clients \ {c} : ClientOK(d)'
  BY <1>2, OthersUntouched
<1>4. Writes(c)'
  <2>1. Writes(c)
    BY DEF RecordInv, ClientOK, InTransaction
  <2> QED
    BY <2>1 DEF Writes, Updates, Creates, Deletes
<1>5. ClientOK(c)'
  BY <1>4 DEF ClientOK, RecordInv, TypeOK, InTransaction
<1> QED
  BY <1>1, <1>3, <1>5 DEF RecordInv

LEMMA WriteKeysInv == ASSUME RecordInv, NEW c \in Clients, WriteKeys(c) PROVE RecordInv'
<1> DEFINE r == target[c]
           k == staged[c].code
           rows == KeysOf(r, View(c))
<1>1. pc[c] = "keys" /\ rows \subseteq Codes
  BY DEF WriteKeys, KeysOf
<1>2. ~KeyGoes(staged[c]) => staged[c].live /\ k \in Codes
  BY DEF KeyGoes, RecordInv, TypeOK, RowType, Values
<1> HIDE DEF rows
<1>3. CASE /\ gives' = [gives EXCEPT ![c] = rows]
           /\ Goto(c, "commit")
           /\ UNCHANGED <<records, owner, lock, requestVars, takes, backfillVars>>
  <2>1. gives' \in [Clients -> SUBSET Codes] /\ takes' \in [Clients -> SUBSET Codes]
    BY <1>1, <1>3 DEF RecordInv, TypeOK
  <2> QED
    BY <1>1, <1>3, <2>1, KeysWrittenInv
<1>4. CASE /\ ~KeyGoes(staged[c]) /\ Goto(c, "inserting")
           /\ UNCHANGED <<records, owner, lock, requestVars, keyVars, backfillVars>>
  <2>1. gives' \in [Clients -> SUBSET Codes] /\ takes' \in [Clients -> SUBSET Codes]
    BY <1>4 DEF RecordInv, TypeOK, keyVars
  <2> QED
    BY <1>1, <1>2, <1>4, <2>1, KeysWrittenInv
<1>5. CASE /\ ~KeyGoes(staged[c])
           /\ gives' = [gives EXCEPT ![c] = rows \ {k}]
           /\ takes' = [takes EXCEPT ![c] = {k}]
           /\ Goto(c, "commit")
           /\ UNCHANGED <<records, owner, lock, requestVars, backfillVars>>
  <2>1. gives' \in [Clients -> SUBSET Codes] /\ takes' \in [Clients -> SUBSET Codes]
    BY <1>1, <1>2, <1>5 DEF RecordInv, TypeOK
  <2> QED
    BY <1>1, <1>5, <2>1, KeysWrittenInv
<1>6. CASE Rollback(c)
  BY <1>6, RollbackInv
<1> QED
  BY <1>3, <1>4, <1>5, <1>6 DEF WriteKeys, rows

LEMMA InsertKeyInv == ASSUME RecordInv, NEW c \in Clients, InsertKey(c) PROVE RecordInv'
<1> DEFINE k == staged[c].code
<1>1. pc[c] = "inserting" /\ k \in Codes
  BY DEF InsertKey, RecordInv, ClientOK
<1>2. CASE /\ takes' = [takes EXCEPT ![c] = {k}]
           /\ Goto(c, "commit")
           /\ UNCHANGED <<records, owner, lock, requestVars, gives, backfillVars>>
  <2>1. gives' \in [Clients -> SUBSET Codes] /\ takes' \in [Clients -> SUBSET Codes]
    BY <1>1, <1>2 DEF RecordInv, TypeOK
  <2> QED
    BY <1>1, <1>2, <2>1, KeysWrittenInv
<1>3. CASE Rollback(c)
  BY <1>3, RollbackInv
<1> QED
  BY <1>2, <1>3 DEF InsertKey

-----------------------------------------------------------------------------
(* The commit changes the row it has locked, and changes it forward.       *)
LEMMA CommitChanges ==
  ASSUME RecordInv, NEW c \in Clients, Commit(c)
  PROVE  /\ target[c] \in Ids /\ lock[target[c]] = c /\ Writes(c)
         /\ records' = [records EXCEPT ![target[c]] = staged[c]]
         /\ records'[target[c]] = staged[c]
         /\ GoesForward(records[target[c]], staged[c])
<1>1. Writes(c) /\ target[c] \in Ids /\ InTransaction(c)
  BY DEF Commit, RecordInv, ClientOK, Writes, InTransaction
<1>2. lock[target[c]] = c
  BY <1>1 DEF RecordInv, TypeOK
<1>3. records' = [records EXCEPT ![target[c]] = staged[c]]
  BY DEF Commit
<1>4. records'[target[c]] = staged[c]
  BY <1>1, <1>3 DEF RecordInv, TypeOK
<1>5. records[target[c]] \in RowType /\ staged[c] \in RowType
  BY <1>1 DEF RecordInv, TypeOK
<1>6. GoesForward(records[target[c]], staged[c])
  BY <1>1, <1>5 DEF GoesForward, Writes, Updates, Creates, Deletes, RowType
<1> QED
  BY <1>1, <1>2, <1>3, <1>4, <1>6

LEMMA CommitInv == ASSUME RecordInv, NEW c \in Clients, Commit(c) PROVE RecordInv'
<1> DEFINE r == target[c]
<1>1. /\ r \in Ids /\ lock[r] = c /\ Writes(c)
      /\ records' = [records EXCEPT ![r] = staged[c]]
      /\ GoesForward(records[r], staged[c])
  BY CommitChanges
<1>2. End(c) /\ owner' = View(c) /\ UNCHANGED <<bpc, page, offset, more>>
  BY DEF Commit, backfillVars
<1>3. records' \in [Ids -> RowType]
  BY <1>1 DEF RecordInv, TypeOK
<1>4. TypeOK'
  <2>1. NoRecord \in RowType
    BY DEF NoRecord, RowType, Values, Statuses
  <2>2. owner' \in [Codes -> Ids \union {NoOne}]
    BY <1>1, <1>2 DEF View, RecordInv, TypeOK
  <2> QED
    BY <1>2, <1>3, <2>1, <2>2 DEF End, Goto, RecordInv, TypeOK, InTransaction
<1>5. OthersWait(c)
  BY <1>2 DEF End, Goto, OthersWait, RecordInv, TypeOK
<1>6. /\ \A q \in Ids : GoesForward(records[q], records'[q])
      /\ \A q \in Ids : records'[q] # records[q] => lock[q] = c
  BY <1>1 DEF GoesForward, RecordInv, TypeOK, RowType
<1>7. \A d \in Clients \ {c} : ClientOK(d)'
  BY <1>3, <1>5, <1>6, OthersKept
<1>8. ClientOK(c)'
  BY <1>2 DEF End, Goto, ClientOK, InTransaction, RecordInv, TypeOK
<1>9. RowsOK'
  <2>1. staged[c].live => staged[c].version > 0
    BY <1>1 DEF Writes, Updates, Creates, Deletes, RecordInv, TypeOK, RowType
  <2>2. ~HasStatus => staged[c].status = Initial
    BY <1>1 DEF Writes, Updates, Creates, Deletes, StatusMoves, RecordInv, RowsOK, TypeOK, RowType
  <2> QED
    BY <1>1, <2>1, <2>2 DEF RecordInv, RowsOK, TypeOK
<1> QED
  BY <1>4, <1>7, <1>8, <1>9 DEF RecordInv

-----------------------------------------------------------------------------
(* The backfill writes key rows only.                                      *)
LEMMA BackfillTypes == ASSUME RecordInv, Backfill PROVE
        /\ UNCHANGED <<records, lock, pc, target, base, expected, staged, gives, takes>>
        /\ owner' \in [Codes -> Ids \union {NoOne}]
        /\ bpc' \in {"idle", "listing", "walking", "inserting", "done"}
        /\ page' \in UNION {[listed -> Values] : listed \in SUBSET Ids}
        /\ offset' \in Nat /\ more' \in BOOLEAN
<1> USE DEF requestVars, keyVars
<1>1. TypeOK
  BY DEF RecordInv
<1>2. CASE StartBackfill
  BY <1>1, <1>2 DEF StartBackfill, TypeOK
<1>3. CASE ListPage
  <2>1. Listed \in SUBSET Ids /\ page' \in [Listed -> Values]
    BY <1>1, <1>3 DEF ListPage, Listed, TypeOK, RowType
  <2> QED
    BY <1>1, <1>3, <2>1 DEF ListPage, TypeOK
<1>4. CASE NextPage
  <2>1. offset' \in Nat
    BY <1>1, <1>4 DEF NextPage, TypeOK
  <2>2. bpc' \in {"idle", "listing", "walking", "inserting", "done"}
    BY <1>4 DEF NextPage
  <2> QED
    BY <1>1, <1>4, <2>1, <2>2 DEF NextPage, TypeOK
<1>5. ASSUME NEW r \in Ids, Skip(r)
      PROVE  page' \in UNION {[listed -> Values] : listed \in SUBSET Ids}
  <2>1. PICK listed \in SUBSET Ids : page \in [listed -> Values]
    BY <1>1 DEF TypeOK
  <2>2. page' \in [listed \ {r} -> Values]
    BY <1>5, <2>1 DEF Skip
  <2> QED
    BY <2>2
<1>6. ASSUME NEW r \in Ids, InHand(r) PROVE page[r] \in Values
  <2>1. PICK listed \in SUBSET Ids : page \in [listed -> Values]
    BY <1>1 DEF TypeOK
  <2> QED
    BY <1>6, <2>1 DEF InHand
<1>7. CASE \E r \in Ids : BackfillRepoint(r)
  <2>1. PICK r \in Ids : BackfillRepoint(r)
    BY <1>7
  <2>2. owner' \in [Codes -> Ids \union {NoOne}]
    BY <1>1, <2>1 DEF BackfillRepoint, TypeOK
  <2>3. CASE Skip(r)
    BY <1>1, <1>5, <2>2, <2>3 DEF Skip, TypeOK
  <2>4. CASE bpc' = "inserting" /\ UNCHANGED <<records, owner, lock, pc, requestVars, keyVars, page, offset, more>>
    BY <1>1, <2>4 DEF TypeOK
  <2> QED
    BY <2>1, <2>3, <2>4 DEF BackfillRepoint
<1>8. CASE \E r \in Ids : BackfillInsert(r)
  <2>1. PICK r \in Ids : BackfillInsert(r)
    BY <1>8
  <2>2. owner' \in [Codes -> Ids \union {NoOne}]
    BY <1>1, <1>6, <2>1 DEF BackfillInsert, TypeOK
  <2> QED
    BY <1>1, <1>5, <2>1, <2>2 DEF BackfillInsert, Skip, TypeOK
<1> QED
  BY <1>2, <1>3, <1>4, <1>7, <1>8 DEF Backfill

LEMMA BackfillInv == ASSUME RecordInv, Backfill PROVE RecordInv'
<1>1. TypeOK'
  BY BackfillTypes DEF RecordInv, TypeOK, InTransaction
<1>2. RowsOK'
  BY BackfillTypes DEF RecordInv, RowsOK
<1>3. \A c \in Clients : ClientOK(c)'
  BY BackfillTypes DEF RecordInv, ClientOK, Seen, Prepared, InTransaction, Writes,
     Updates, Creates, Deletes
<1> QED
  BY <1>1, <1>2, <1>3 DEF RecordInv

-----------------------------------------------------------------------------
LEMMA NextRecordInv == RecordInv /\ [Next]_vars => RecordInv'
<1> SUFFICES ASSUME RecordInv, [Next]_vars PROVE RecordInv'
  OBVIOUS
<1>1. CASE \E c \in Clients : Request(c)
  BY <1>1, GetInv, DeleteTxInv, CreateTxInv, SubmitInv DEF Request
<1>2. CASE \E c \in Clients : Work(c)
  BY <1>2, UpdateTxInv, WriteKeysInv, InsertKeyInv, CommitInv DEF Work
<1>3. CASE \E c \in Clients : Abort(c)
  BY <1>3, RollbackInv DEF Abort
<1>4. CASE Backfill
  BY <1>4, BackfillInv
<1>5. CASE UNCHANGED vars
  BY <1>5 DEF vars, requestVars, keyVars, backfillVars, RecordInv, TypeOK, RowsOK, ClientOK,
     Seen, Prepared, InTransaction, Writes, Updates, Creates, Deletes
<1> QED
  BY <1>1, <1>2, <1>3, <1>4, <1>5 DEF Next

(* Types, locks and what every request knows of its row hold in every      *)
(* reachable state (Engine.Create, Update and Delete, the backfill).       *)
THEOREM RecordInvariant == Spec => []RecordInv
BY InitRecordInv, NextRecordInv, PTL DEF Spec

(* Every variable keeps its type, and a row is locked by the one open      *)
(* transaction that writes it (Engine.Update's transaction).               *)
THEOREM RecordTypesCorrect == Spec => []TypeOK
BY RecordInvariant, PTL DEF RecordInv

(* A write that stated a version commits over the row it was based on,     *)
(* whatever the others committed in between (UpdateTx's version check).    *)
THEOREM EditsAreNotLost == Spec => NoEditLost
<1>1. RecordInv /\ [Next]_vars =>
        [\A c \in Clients :
           /\ pc[c] = "commit" /\ expected[c] # AnyVersion
           /\ records'[target[c]] # records[target[c]]
           => records[target[c]] = base[c]]_vars
  BY DEF RecordInv, ClientOK, InTransaction, Writes, Updates, Creates, Deletes
<1> QED
  BY <1>1, RecordInvariant, PTL DEF Spec, NoEditLost

(* Rows change by commits alone.                                           *)
LEMMA OnlyCommitsChangeRows ==
  ASSUME RecordInv, [Next]_vars, records' # records
  PROVE  \E c \in Clients : Commit(c)
<1>1. ASSUME NEW c \in Clients, Rollback(c) PROVE records' = records
  BY <1>1 DEF Rollback
<1>2. ASSUME NEW c \in Clients, Request(c) PROVE records' = records
  BY <1>1, <1>2 DEF Request, Get, DeleteTx, CreateTx, Submit
<1>3. ASSUME NEW c \in Clients, Work(c) PROVE records' = records \/ Commit(c)
  BY <1>1, <1>3 DEF Work, UpdateTx, WriteKeys, InsertKey
<1> QED
  BY <1>1, <1>2, <1>3, BackfillTypes DEF Next, Abort, vars

(* The status of a live record moves along declared transitions only, for  *)
(* any graph (ValidateStatusTransition, then UpdateTx).                    *)
THEOREM StatusesFollowGraph == Spec => StatusFollowsGraph
<1>1. ASSUME RecordInv, [Next]_vars, NEW r \in Ids,
             records[r].live, records'[r].status # records[r].status
      PROVE  <<records[r].status, records'[r].status>> \in Transitions
  <2>1. PICK c \in Clients : Commit(c)
    BY <1>1, OnlyCommitsChangeRows
  <2>2. /\ target[c] \in Ids /\ Writes(c)
        /\ records' = [records EXCEPT ![target[c]] = staged[c]]
        /\ records'[target[c]] = staged[c]
    BY <1>1, <2>1, CommitChanges
  <2>3. r = target[c]
    BY <1>1, <2>2 DEF RecordInv, TypeOK
  <2>4. Updates(c)
    BY <1>1, <2>2, <2>3 DEF Writes, Creates, Deletes, RecordInv, RowsOK, TypeOK, RowType
  <2>5. StatusMoves(records[r].status, records'[r].status)
    BY <2>2, <2>3, <2>4 DEF Updates
  <2> QED
    BY <1>1, <2>5 DEF StatusMoves, RecordInv, RowsOK
<1>2. RecordInv /\ [Next]_vars =>
        [\A r \in Ids :
           records[r].live /\ records'[r].status # records[r].status =>
             <<records[r].status, records'[r].status>> \in Transitions]_vars
  BY <1>1
<1> QED
  BY <1>2, RecordInvariant, PTL DEF Spec, StatusFollowsGraph

-----------------------------------------------------------------------------
(* Uniqueness: the key rows agree with the records they stand for, for any *)
(* number of records, requests and codes, provided that the backfill runs  *)
(* while no request does. (Beside requests it breaks this: the run         *)
(* records_stale_backfill.)                                                *)

(* The keys a row ought to have.                                           *)
KeyOf(row) == IF row.live THEN {row.code} \ {Blank} ELSE {}

HeldKeys ==
  \A r \in Ids :
    /\ KeysOf(r, owner) \subseteq KeyOf(records[r])
    /\ Saved(r) => KeysOf(r, owner) = KeyOf(records[r])

(* A transaction at its commit has taken the keys of the row it writes,    *)
(* which are free or the row's own, and has let go of the row's others.    *)
Pending(c) ==
  /\ pc[c] # "commit" => gives[c] = {} /\ takes[c] = {}
  /\ pc[c] = "inserting" => KeysOf(target[c], owner) = {}
  /\ pc[c] = "commit" =>
       /\ takes[c] = KeyOf(staged[c])
       /\ gives[c] = KeysOf(target[c], owner) \ takes[c]
       /\ \A k \in takes[c] : owner[k] \in {NoOne, target[c]}

TakenOnce == \A c, d \in Clients : c # d => takes[c] \intersect takes[d] = {}

(* While the backfill runs no request does, and its page is up to date.    *)
PageFresh ==
  Backfilling =>
    /\ \A c \in Clients : pc[c] = "idle"
    /\ bpc # "listing" =>
         \A r \in DOMAIN page : records[r].live /\ page[r] = records[r].code

KeyInv == HeldKeys /\ (\A c \in Clients : Pending(c)) /\ TakenOnce /\ PageFresh

-----------------------------------------------------------------------------
LEMMA InitKeyInv == Init => KeyInv
<1> SUFFICES ASSUME Init PROVE KeyInv
  OBVIOUS
<1>1. HeldKeys
  <2> SUFFICES ASSUME NEW r \in Ids
               PROVE  /\ KeysOf(r, StartOwner) \subseteq KeyOf(StartRecords[r])
                      /\ r \notin DOMAIN Legacy \/ LegacyKeyed =>
                           KeysOf(r, StartOwner) = KeyOf(StartRecords[r])
    <3>1. ASSUME NEW r \in Ids, Saved(r), Init PROVE r \notin DOMAIN Legacy \/ LegacyKeyed
      BY <3>1 DEF Init, Saved, StartRecords, Row
    <3> QED
      BY <3>1 DEF HeldKeys, Init
  <2>0. ASSUME NEW k \in Codes
        PROVE  /\ LegacyKeyed /\ (\E q \in DOMAIN Legacy : Legacy[q] = k) =>
                    StartOwner[k] \in DOMAIN Legacy /\ Legacy[StartOwner[k]] = k
               /\ ~(LegacyKeyed /\ \E q \in DOMAIN Legacy : Legacy[q] = k) => StartOwner[k] = NoOne
    <3> DEFINE Old == \E q \in DOMAIN Legacy : Legacy[q] = k
               first == CHOOSE q \in DOMAIN Legacy : Legacy[q] = k
    <3>1. StartOwner[k] = IF LegacyKeyed /\ Old THEN first ELSE NoOne
      BY DEF StartOwner
    <3>2. Old => first \in DOMAIN Legacy /\ Legacy[first] = k
      OBVIOUS
    <3> HIDE DEF first
    <3>3. LegacyKeyed /\ Old => StartOwner[k] = first
      BY <3>1
    <3>4. ~(LegacyKeyed /\ Old) => StartOwner[k] = NoOne
      BY <3>1
    <3> QED
      BY <3>2, <3>3, <3>4
  <2>1. ASSUME NEW k \in Codes, StartOwner[k] = r
        PROVE  LegacyKeyed /\ r \in DOMAIN Legacy /\ Legacy[r] = k
    <3>1. StartOwner[k] # NoOne
      BY <2>1
    <3>2. LegacyKeyed /\ \E q \in DOMAIN Legacy : Legacy[q] = k
      BY <2>0, <3>1
    <3> QED
      BY <2>0, <2>1, <3>2
  <2>2. ASSUME NEW k \in Codes, LegacyKeyed, r \in DOMAIN Legacy, Legacy[r] = k
        PROVE  StartOwner[k] = r
    <3>1. StartOwner[k] \in DOMAIN Legacy /\ Legacy[StartOwner[k]] = k
      BY <2>0, <2>2
    <3>2. k # Blank
      OBVIOUS
    <3> QED
      BY <2>2, <3>1, <3>2
  <2>3. CASE r \in DOMAIN Legacy
    <3>1. KeyOf(StartRecords[r]) = {Legacy[r]} \ {Blank}
      BY <2>3 DEF KeyOf, StartRecords, Row
    <3>2. KeysOf(r, StartOwner) \subseteq {Legacy[r]} \ {Blank}
      BY <2>1 DEF KeysOf
    <3>3. LegacyKeyed => {Legacy[r]} \ {Blank} \subseteq KeysOf(r, StartOwner)
      BY <2>2, <2>3 DEF KeysOf
    <3> QED
      BY <2>3, <3>1, <3>2, <3>3
  <2>4. CASE r \notin DOMAIN Legacy
    <3>1. KeyOf(StartRecords[r]) = {}
      BY <2>4 DEF KeyOf, StartRecords, NoRecord
    <3> QED
      BY <2>1, <2>4, <3>1 DEF KeysOf
  <2> QED
    BY <2>3, <2>4
<1>2. \A c \in Clients : Pending(c)
  BY DEF Pending, Init
<1>3. TakenOnce /\ PageFresh
  BY DEF TakenOnce, PageFresh, Backfilling, Init
<1> QED
  BY <1>1, <1>2, <1>3 DEF KeyInv

(* Steps that write nothing committed.                                     *)
LEMMA OthersPending ==
  ASSUME KeyInv, NEW c \in Clients, OthersWait(c), owner' = owner, bpc' = bpc, page' = page,
         records' = records,
         \A d \in Clients \ {c} : gives'[d] = gives[d] /\ takes'[d] = takes[d],
         ~Backfilling
  PROVE  HeldKeys' /\ PageFresh' /\ \A d \in Clients \ {c} : Pending(d)'
<1>1. HeldKeys'
  BY DEF KeyInv, HeldKeys, Saved
<1>2. PageFresh'
  BY DEF PageFresh, Backfilling
<1>3. \A d \in Clients \ {c} : Pending(d)'
  BY DEF KeyInv, Pending, OthersWait
<1> QED
  BY <1>1, <1>2, <1>3

(* A request that is under way, or may start, is alone with its like.      *)
LEMMA NoBackfill ==
  ASSUME BackfillAlone, KeyInv, NEW c \in Clients, pc[c] # "idle" \/ MayStart(c)
  PROVE  ~Backfilling
BY DEF KeyInv, PageFresh, MayStart

(* c has no keys in doubt after a step that keeps those of the others.     *)
LEMMA NothingTaken ==
  ASSUME KeyInv, NEW c \in Clients, takes'[c] = {},
         \A d \in Clients \ {c} : takes'[d] = takes[d]
  PROVE  TakenOnce'
BY DEF KeyInv, TakenOnce

LEMMA RollbackKeys ==
  ASSUME BackfillAlone, RecordInv, KeyInv, NEW c \in Clients, pc[c] # "idle", Rollback(c)
  PROVE  KeyInv'
<1> USE DEF Rollback, End, Goto, backfillVars
<1>1. OthersWait(c) /\ \A d \in Clients \ {c} : gives'[d] = gives[d] /\ takes'[d] = takes[d]
  BY DEF OthersWait, RecordInv, TypeOK
<1>2. pc'[c] = "idle" /\ gives'[c] = {} /\ takes'[c] = {}
  BY DEF RecordInv, TypeOK
<1>3. Pending(c)'
  BY <1>2 DEF Pending
<1> QED
  BY <1>1, <1>2, <1>3, NoBackfill, OthersPending, NothingTaken DEF KeyInv

(* A step that leaves the keys alone and does not bring c to its commit.   *)
LEMMA KeysUntouched ==
  ASSUME RecordInv, KeyInv, NEW c \in Clients, ~Backfilling, OthersWait(c),
         UNCHANGED <<records, owner, gives, takes, bpc, page>>,
         pc[c] # "commit", pc'[c] \notin {"inserting", "commit"}
  PROVE  KeyInv'
<1>1. HeldKeys' /\ PageFresh' /\ \A d \in Clients \ {c} : Pending(d)'
  BY OthersPending
<1>2. Pending(c)' /\ TakenOnce'
  BY DEF KeyInv, Pending, TakenOnce
<1> QED
  BY <1>1, <1>2 DEF KeyInv

LEMMA GetKeys ==
  ASSUME BackfillAlone, RecordInv, KeyInv, NEW c \in Clients, NEW r \in Ids, Get(c, r)
  PROVE  KeyInv'
<1>1. OthersWait(c) /\ pc[c] = "idle" /\ pc'[c] = "editing"
  BY DEF Get, Goto, MayStart, OthersWait, RecordInv, TypeOK
<1> QED
  BY <1>1, NoBackfill, KeysUntouched DEF Get, keyVars, backfillVars

LEMMA DeleteTxKeys ==
  ASSUME BackfillAlone, RecordInv, KeyInv, NEW c \in Clients, NEW r \in Ids, DeleteTx(c, r)
  PROVE  KeyInv'
<1>1. OthersWait(c) /\ pc[c] = "idle" /\ pc'[c] = "keys"
  BY DEF DeleteTx, Goto, MayStart, OthersWait, RecordInv, TypeOK
<1> QED
  BY <1>1, NoBackfill, KeysUntouched DEF DeleteTx, keyVars, backfillVars

LEMMA SubmitKeys ==
  ASSUME BackfillAlone, RecordInv, KeyInv, NEW c \in Clients, NEW code \in Values,
         NEW status \in Statuses, NEW version \in {base[c].version, AnyVersion},
         Submit(c, code, status, version)
  PROVE  KeyInv'
<1>1. pc[c] = "editing"
  BY DEF Submit
<1>2. CASE Rollback(c)
  BY <1>1, <1>2, RollbackKeys
<1>3. CASE ~Rollback(c)
  <2>0. /\ pc' = [pc EXCEPT ![c] = "checked"] /\ UNCHANGED <<target, base>>
        /\ expected' = [expected EXCEPT ![c] = version]
        /\ staged' = [staged EXCEPT ![c] = Row(TRUE, 0, code, IF HasStatus THEN status ELSE Initial)]
    BY <1>3 DEF Submit, Goto
  <2>1. OthersWait(c) /\ pc'[c] = "checked"
    BY <2>0 DEF OthersWait, RecordInv, TypeOK
  <2>2. UNCHANGED <<records, owner, gives, takes, bpc, page>>
    BY <1>3 DEF Submit, keyVars, backfillVars
  <2> QED
    BY <1>1, <2>1, <2>2, NoBackfill, KeysUntouched
<1> QED
  BY <1>2, <1>3

LEMMA UpdateTxKeys ==
  ASSUME BackfillAlone, RecordInv, KeyInv, NEW c \in Clients, UpdateTx(c) PROVE KeyInv'
<1>1. pc[c] = "checked"
  BY DEF UpdateTx
<1>2. CASE Rollback(c)
  BY <1>1, <1>2, RollbackKeys
<1>3. CASE ~Rollback(c)
  <2>1. OthersWait(c) /\ pc'[c] = "keys"
    BY <1>3 DEF UpdateTx, Goto, OthersWait, RecordInv, TypeOK
  <2> QED
    BY <1>1, <1>3, <2>1, NoBackfill, KeysUntouched DEF UpdateTx, keyVars, backfillVars
<1> QED
  BY <1>2, <1>3

LEMMA CreateTxKeys ==
  ASSUME BackfillAlone, RecordInv, KeyInv, NEW c \in Clients, NEW code \in Values,
         CreateTx(c, code)
  PROVE  KeyInv'
<1>1. PICK r \in Unused :
        /\ target' = [target EXCEPT ![c] = r]
        /\ staged' = [staged EXCEPT ![c] = Row(TRUE, 1, code, Initial)]
  BY DEF CreateTx
<1>2. /\ pc[c] = "idle"
      /\ pc' = [pc EXCEPT ![c] = IF code = Blank THEN "commit" ELSE "inserting"]
      /\ UNCHANGED <<records, owner, base, expected, gives, takes, bpc, page>>
  BY DEF CreateTx, MayStart, Goto, keyVars, backfillVars
<1>3. OthersWait(c) /\ target'[c] = r /\ staged'[c] = Row(TRUE, 1, code, Initial)
      /\ pc'[c] = IF code = Blank THEN "commit" ELSE "inserting"
  BY <1>1, <1>2 DEF OthersWait, RecordInv, TypeOK
<1>4. ~Backfilling
  BY NoBackfill DEF CreateTx
<1>5. KeysOf(r, owner) = {}
  <2>1. r \in Ids /\ ~records[r].live
    BY DEF Unused, RecordInv, RowsOK
  <2> QED
    BY <2>1 DEF KeyInv, HeldKeys, KeyOf
<1>6. gives[c] = {} /\ takes[c] = {}
  BY <1>2 DEF KeyInv, Pending
<1>7. Pending(c)'
  BY <1>2, <1>3, <1>5, <1>6 DEF Pending, KeyOf, Row
<1>8. HeldKeys' /\ PageFresh' /\ \A d \in Clients \ {c} : Pending(d)'
  BY <1>2, <1>3, <1>4, OthersPending
<1>9. TakenOnce'
  BY <1>2 DEF KeyInv, TakenOnce
<1> QED
  BY <1>7, <1>8, <1>9 DEF KeyInv

-----------------------------------------------------------------------------
(* The statements on the keys. A transaction sees the committed index      *)
(* until it takes or gives.                                                *)
LEMMA FirstView ==
  ASSUME TypeOK, NEW c \in Clients, gives[c] = {}, takes[c] = {}
  PROVE  View(c) = owner
BY DEF View, TypeOK

LEMMA WriteKeysKeys ==
  ASSUME BackfillAlone, RecordInv, KeyInv, NEW c \in Clients, WriteKeys(c) PROVE KeyInv'
<1> DEFINE r == target[c]
           k == staged[c].code
           rows == KeysOf(r, owner)
<1>1. /\ pc[c] = "keys" /\ gives[c] = {} /\ takes[c] = {} /\ r \in Ids
      /\ View(c) = owner /\ ~Backfilling
  BY FirstView, NoBackfill DEF WriteKeys, KeyInv, Pending, RecordInv, ClientOK, InTransaction, Writes
<1>2. CASE /\ KeyGoes(staged[c])
           /\ gives' = [gives EXCEPT ![c] = rows]
           /\ Goto(c, "commit")
           /\ UNCHANGED <<records, owner, lock, requestVars, takes, backfillVars>>
  <2>1. /\ OthersWait(c) /\ \A d \in Clients \ {c} : gives'[d] = gives[d] /\ takes'[d] = takes[d]
        /\ gives'[c] = rows /\ takes'[c] = {} /\ pc'[c] = "commit"
    BY <1>1, <1>2 DEF OthersWait, Goto, requestVars, RecordInv, TypeOK
  <2>2. HeldKeys' /\ PageFresh' /\ \A d \in Clients \ {c} : Pending(d)'
    BY <1>1, <1>2, <2>1, OthersPending DEF backfillVars
  <2>3. Pending(c)'
    BY <1>2, <2>1 DEF Pending, KeyOf, KeyGoes, requestVars, KeysOf
  <2> QED
    BY <2>1, <2>2, <2>3, NothingTaken DEF KeyInv
<1>3. CASE /\ ~KeyGoes(staged[c]) /\ rows = {}
           /\ Goto(c, "inserting")
           /\ UNCHANGED <<records, owner, lock, requestVars, keyVars, backfillVars>>
  <2>1. /\ OthersWait(c) /\ gives' = gives /\ takes' = takes /\ pc'[c] = "inserting"
    BY <1>3 DEF OthersWait, Goto, requestVars, keyVars, RecordInv, TypeOK
  <2>2. HeldKeys' /\ PageFresh' /\ \A d \in Clients \ {c} : Pending(d)'
    BY <1>1, <1>3, <2>1, OthersPending DEF backfillVars
  <2>3. Pending(c)'
    BY <1>1, <1>3, <2>1 DEF Pending, requestVars
  <2> QED
    BY <1>1, <2>1, <2>2, <2>3, NothingTaken DEF KeyInv
<1>4. CASE /\ ~KeyGoes(staged[c]) /\ ~InDoubt(c, {k})
           /\ Repointable(r, k, owner)
           /\ gives' = [gives EXCEPT ![c] = rows \ {k}]
           /\ takes' = [takes EXCEPT ![c] = {k}]
           /\ Goto(c, "commit")
           /\ UNCHANGED <<records, owner, lock, requestVars, backfillVars>>
  <2>1. /\ OthersWait(c) /\ \A d \in Clients \ {c} : gives'[d] = gives[d] /\ takes'[d] = takes[d]
        /\ gives'[c] = rows \ {k} /\ takes'[c] = {k} /\ pc'[c] = "commit"
    BY <1>4 DEF OthersWait, Goto, requestVars, RecordInv, TypeOK
  <2>2. HeldKeys' /\ PageFresh' /\ \A d \in Clients \ {c} : Pending(d)'
    BY <1>1, <1>4, <2>1, OthersPending DEF backfillVars
  <2>3. Pending(c)'
    <3>1. target' = target /\ staged' = staged /\ owner' = owner
      BY <1>4 DEF requestVars
    <3>2. KeyOf(staged[c]) = {k}
      BY <1>4 DEF KeyOf, KeyGoes
    <3>3. owner[k] \in {NoOne, r}
      BY <1>4 DEF Repointable
    <3>4. /\ takes'[c] = KeyOf(staged'[c])
          /\ gives'[c] = KeysOf(target'[c], owner') \ takes'[c]
      BY <2>1, <3>1, <3>2
    <3>5. \A j \in takes'[c] : owner'[j] \in {NoOne, target'[c]}
      BY <2>1, <3>1, <3>3
    <3> QED
      BY <2>1, <3>4, <3>5 DEF Pending
  <2>4. TakenOnce'
    BY <1>4, <2>1 DEF TakenOnce, KeyInv, InDoubt
  <2> QED
    BY <2>2, <2>3, <2>4 DEF KeyInv
<1>5. CASE Rollback(c)
  BY <1>1, <1>5, RollbackKeys
<1> QED
  BY <1>1, <1>2, <1>3, <1>4, <1>5 DEF WriteKeys

LEMMA InsertKeyKeys ==
  ASSUME BackfillAlone, RecordInv, KeyInv, NEW c \in Clients, InsertKey(c) PROVE KeyInv'
<1> DEFINE r == target[c]
           k == staged[c].code
<1>1. /\ pc[c] = "inserting" /\ gives[c] = {} /\ takes[c] = {}
      /\ KeysOf(r, owner) = {} /\ View(c) = owner /\ ~Backfilling
      /\ staged[c].live /\ k \in Codes
  BY FirstView, NoBackfill DEF InsertKey, KeyInv, Pending, RecordInv, ClientOK
<1>2. CASE /\ ~InDoubt(c, {k}) /\ owner[k] \in {NoOne, r}
           /\ takes' = [takes EXCEPT ![c] = {k}]
           /\ Goto(c, "commit")
           /\ UNCHANGED <<records, owner, lock, requestVars, gives, backfillVars>>
  <2>1. /\ OthersWait(c) /\ \A d \in Clients \ {c} : gives'[d] = gives[d] /\ takes'[d] = takes[d]
        /\ gives'[c] = {} /\ takes'[c] = {k} /\ pc'[c] = "commit"
    BY <1>1, <1>2 DEF OthersWait, Goto, requestVars, RecordInv, TypeOK
  <2>2. HeldKeys' /\ PageFresh' /\ \A d \in Clients \ {c} : Pending(d)'
    BY <1>1, <1>2, <2>1, OthersPending DEF backfillVars
  <2>3. Pending(c)'
    <3>1. target' = target /\ staged' = staged /\ owner' = owner
      BY <1>2 DEF requestVars
    <3>2. KeyOf(staged'[c]) = {k} /\ KeysOf(target'[c], owner') = {}
      BY <1>1, <3>1 DEF KeyOf
    <3> QED
      BY <1>2, <2>1, <3>1, <3>2 DEF Pending
  <2>4. TakenOnce'
    BY <1>2, <2>1 DEF TakenOnce, KeyInv, InDoubt
  <2> QED
    BY <2>2, <2>3, <2>4 DEF KeyInv
<1>3. CASE Rollback(c)
  BY <1>1, <1>3, RollbackKeys
<1> QED
  BY <1>1, <1>2, <1>3 DEF InsertKey

-----------------------------------------------------------------------------
(* The commit makes the transaction's view of the index the committed one. *)
LEMMA CommitKeys ==
  ASSUME BackfillAlone, RecordInv, KeyInv, NEW c \in Clients, Commit(c) PROVE KeyInv'
<1> DEFINE r == target[c]
<1>1. /\ pc[c] = "commit" /\ r \in Ids /\ lock[r] = c
      /\ records' = [records EXCEPT ![r] = staged[c]] /\ records'[r] = staged[c]
      /\ owner' = View(c) /\ UNCHANGED <<bpc, page>> /\ ~Backfilling
  BY CommitChanges, NoBackfill DEF Commit, backfillVars
<1>2. /\ takes[c] = KeyOf(staged[c])
      /\ gives[c] = KeysOf(r, owner) \ takes[c]
      /\ \A k \in takes[c] : owner[k] \in {NoOne, r}
  BY <1>1 DEF KeyInv, Pending
<1>3. OthersWait(c) /\ (\A d \in Clients \ {c} : gives'[d] = gives[d] /\ takes'[d] = takes[d])
      /\ pc'[c] = "idle" /\ gives'[c] = {} /\ takes'[c] = {}
  BY DEF Commit, End, Goto, OthersWait, RecordInv, TypeOK
<1>4. ASSUME NEW k \in Codes
      PROVE  owner'[k] = IF k \in takes[c] THEN r ELSE IF k \in gives[c] THEN NoOne ELSE owner[k]
  BY <1>1 DEF View
<1>5. takes[c] \subseteq Codes /\ gives[c] \subseteq Codes
  BY DEF RecordInv, TypeOK
<1>6. KeysOf(r, owner') = KeyOf(staged[c])
  BY <1>1, <1>2, <1>4, <1>5 DEF KeysOf
<1>7. \A q \in Ids \ {r} : KeysOf(q, owner') = KeysOf(q, owner)
  BY <1>1, <1>2, <1>4, <1>5 DEF KeysOf
<1>8. HeldKeys'
  <2> SUFFICES ASSUME NEW q \in Ids
               PROVE  /\ KeysOf(q, owner') \subseteq KeyOf(records'[q])
                      /\ Saved(q)' => KeysOf(q, owner') = KeyOf(records'[q])
    BY DEF HeldKeys
  <2>1. CASE q = r
    BY <1>1, <1>6, <2>1
  <2>2. CASE q # r
    <3>1. records'[q] = records[q]
      BY <1>1, <2>2 DEF RecordInv, TypeOK
    <3> QED
      BY <1>7, <2>2, <3>1 DEF KeyInv, HeldKeys, Saved
  <2> QED
    BY <2>1, <2>2
<1>9. ASSUME NEW d \in Clients \ {c} PROVE Pending(d)'
  <2>1. /\ pc'[d] = pc[d] /\ target'[d] = target[d] /\ staged'[d] = staged[d]
        /\ gives'[d] = gives[d] /\ takes'[d] = takes[d]
    BY <1>3 DEF OthersWait
  <2>2. Pending(d)
    BY DEF KeyInv
  <2>3. ASSUME pc[d] \in {"inserting", "commit"}
        PROVE  target[d] \in Ids \ {r}
    BY <1>1, <2>3 DEF RecordInv, TypeOK, ClientOK, InTransaction, Writes
  <2>4. CASE pc[d] = "inserting"
    BY <1>7, <2>1, <2>2, <2>3, <2>4 DEF Pending
  <2>5. CASE pc[d] = "commit"
    <3>1. KeysOf(target[d], owner') = KeysOf(target[d], owner)
      BY <1>7, <2>3, <2>5
    <3>2. ASSUME NEW k \in takes[d] PROVE owner'[k] \in {NoOne, target[d]}
      <4>1. k \in Codes /\ k \notin takes[c] /\ owner[k] \in {NoOne, target[d]}
        BY <2>2, <2>5 DEF KeyInv, TakenOnce, Pending, RecordInv, TypeOK
      <4> QED
        BY <1>4, <4>1
    <3> QED
      BY <2>1, <2>2, <2>5, <3>1, <3>2 DEF Pending
  <2>6. CASE pc[d] \notin {"inserting", "commit"}
    BY <2>1, <2>2, <2>6 DEF Pending
  <2> QED
    BY <2>4, <2>5, <2>6
<1>10. Pending(c)'
  BY <1>3 DEF Pending
<1>11. TakenOnce'
  BY <1>3, NothingTaken
<1>12. PageFresh'
  BY <1>1 DEF PageFresh, Backfilling
<1> QED
  BY <1>8, <1>9, <1>10, <1>11, <1>12 DEF KeyInv

-----------------------------------------------------------------------------
(* The backfill, alone, gives a record the key of the code it holds.       *)
LEMMA BackfillKeys ==
  ASSUME BackfillAlone, RecordInv, KeyInv, Backfill PROVE KeyInv'
<1>0. UNCHANGED <<records, lock, pc, target, base, expected, staged, gives, takes>>
  BY BackfillTypes
<1>1. \A c \in Clients : pc[c] = "idle"
  BY DEF Backfill, StartBackfill, ListPage, NextPage, BackfillRepoint, BackfillInsert,
     KeyInv, PageFresh, Backfilling
<1>2. (\A c \in Clients : Pending(c)') /\ TakenOnce'
  BY <1>0, <1>1 DEF KeyInv, Pending, TakenOnce
<1>3. ASSUME owner' = owner PROVE HeldKeys'
  BY <1>0, <1>3 DEF KeyInv, HeldKeys, Saved
<1>4. ASSUME NEW r \in Ids, Skip(r), bpc \in {"walking", "inserting"} PROVE PageFresh'
  BY <1>0, <1>1, <1>4 DEF Skip, KeyInv, PageFresh, Backfilling
<1>5. CASE StartBackfill
  BY <1>0, <1>1, <1>2, <1>3, <1>5 DEF StartBackfill, KeyInv, PageFresh, Backfilling
<1>6. CASE ListPage
  <2>1. \A r \in DOMAIN page' : records[r].live /\ page'[r] = records[r].code
    BY <1>6 DEF ListPage, Listed
  <2>2. PageFresh'
    BY <1>0, <1>1, <2>1 DEF PageFresh
  <2> QED
    BY <1>2, <1>3, <1>6, <2>2 DEF ListPage, KeyInv
<1>7. CASE NextPage
  <2>1. PageFresh'
    BY <1>0, <1>1, <1>7 DEF NextPage, PageFresh
  <2> QED
    BY <1>2, <1>3, <1>7, <2>1 DEF NextPage, KeyInv
<1>8. ASSUME NEW r \in Ids, InHand(r), bpc \in {"walking", "inserting"}
      PROVE  records[r].live /\ page[r] = records[r].code
  BY <1>8 DEF InHand, KeyInv, PageFresh, Backfilling
<1>9. ASSUME NEW r \in Ids, BackfillRepoint(r) PROVE KeyInv'
  <2>1. records[r].live /\ page[r] = records[r].code /\ bpc = "walking"
    BY <1>8, <1>9 DEF BackfillRepoint
  <2>2. owner' = owner
    <3>1. CASE page[r] # Blank /\ KeysOf(r, owner) # {}
      <4>1. KeysOf(r, owner) = {page[r]}
        BY <2>1, <3>1 DEF KeyInv, HeldKeys, KeyOf
      <4>2. [j \in Codes |-> IF j = page[r] THEN r
                             ELSE IF j \in KeysOf(r, owner) THEN NoOne ELSE owner[j]] = owner
        BY <4>1 DEF KeysOf, RecordInv, TypeOK
      <4> QED
        BY <1>9, <3>1, <4>2 DEF BackfillRepoint
    <3>2. CASE ~(page[r] # Blank /\ KeysOf(r, owner) # {})
      BY <1>9, <3>2 DEF BackfillRepoint
    <3> QED
      BY <3>1, <3>2
  <2>3. CASE Skip(r)
    BY <1>2, <1>3, <1>4, <2>1, <2>2, <2>3 DEF KeyInv
  <2>4. CASE bpc' = "inserting" /\ UNCHANGED page
    <3>1. PageFresh'
      BY <1>0, <1>1, <2>1, <2>4 DEF KeyInv, PageFresh, Backfilling
    <3> QED
      BY <1>2, <1>3, <2>2, <3>1 DEF KeyInv
  <2> QED
    BY <1>9, <2>3, <2>4 DEF BackfillRepoint
<1>10. ASSUME NEW r \in Ids, BackfillInsert(r) PROVE KeyInv'
  <2>1. records[r].live /\ page[r] = records[r].code /\ bpc = "inserting" /\ Skip(r)
    BY <1>8, <1>10 DEF BackfillInsert
  <2>2. HeldKeys'
    <3> DEFINE k == page[r]
    <3>1. CASE owner[k] = NoOne /\ k \in Codes
      <4>1. owner' = [owner EXCEPT ![k] = r]
        BY <1>10, <3>1 DEF BackfillInsert
      <4>2. \A q \in Ids \ {r} : KeysOf(q, owner') = KeysOf(q, owner)
        BY <3>1, <4>1 DEF KeysOf, RecordInv, TypeOK
      <4>3. KeysOf(r, owner') = KeysOf(r, owner) \union {k}
        BY <3>1, <4>1 DEF KeysOf, RecordInv, TypeOK
      <4>4. KeyOf(records[r]) = {k}
        BY <2>1, <3>1 DEF KeyOf
      <4> QED
        BY <1>0, <4>2, <4>3, <4>4 DEF KeyInv, HeldKeys, Saved
    <3>2. CASE owner[k] # NoOne
      BY <1>3, <1>10, <3>2 DEF BackfillInsert
    <3>3. CASE owner[k] = NoOne /\ k \notin Codes
      <4>1. owner' = owner
        BY <1>10, <3>3 DEF BackfillInsert, RecordInv, TypeOK
      <4> QED
        BY <1>3, <4>1
    <3> QED
      BY <3>1, <3>2, <3>3
  <2> QED
    BY <1>2, <1>4, <2>1, <2>2 DEF KeyInv
<1> QED
  BY <1>5, <1>6, <1>7, <1>9, <1>10 DEF Backfill

LEMMA NextKeyInv ==
  ASSUME BackfillAlone PROVE RecordInv /\ KeyInv /\ [Next]_vars => KeyInv'
<1> SUFFICES ASSUME RecordInv, KeyInv, [Next]_vars PROVE KeyInv'
  OBVIOUS
<1>1. CASE \E c \in Clients : Request(c)
  BY <1>1, GetKeys, DeleteTxKeys, CreateTxKeys, SubmitKeys DEF Request
<1>2. CASE \E c \in Clients : Work(c)
  BY <1>2, UpdateTxKeys, WriteKeysKeys, InsertKeyKeys, CommitKeys DEF Work
<1>3. CASE \E c \in Clients : Abort(c)
  BY <1>3, RollbackKeys DEF Abort, InTransaction
<1>4. CASE Backfill
  BY <1>4, BackfillKeys
<1>5. CASE UNCHANGED vars
  BY <1>5 DEF vars, requestVars, keyVars, backfillVars, KeyInv, HeldKeys, Saved, Pending,
     TakenOnce, PageFresh, Backfilling
<1> QED
  BY <1>1, <1>2, <1>3, <1>4, <1>5 DEF Next

(* Key rows, and what open transactions have taken of them, agree with the *)
(* records in every reachable state (WriteUniqueConstraintKeys,            *)
(* UpdateUniqueConstraintKeys and the index).                              *)
THEOREM KeyInvariant == ASSUME BackfillAlone PROVE Spec => []KeyInv
<1>1. RecordInv /\ KeyInv /\ [Next]_vars => KeyInv'
  BY NextKeyInv
<1> QED
  BY <1>1, InitKeyInv, RecordInvariant, PTL DEF Spec

(* A saved record has the key row of its code and no other, a deleted one  *)
(* has none (UpdateUniqueConstraintKeys).                                  *)
THEOREM KeysAlwaysAgree == ASSUME BackfillAlone PROVE Spec => []KeysAgree
<1>1. KeyInv => KeysAgree
  BY DEF KeyInv, HeldKeys, KeyOf, KeysAgree
<1> QED
  BY <1>1, KeyInvariant, PTL

(* No two live records that were saved under the constraint hold the same  *)
(* code (Definition.Unique), however their transactions interleave.        *)
THEOREM SavedRecordsStayUnique == ASSUME BackfillAlone PROVE Spec => []SavedRecordsAreUnique
<1>1. ASSUME RecordInv, KeyInv, NEW q \in Ids, NEW r \in Ids, q # r, Saved(q), Saved(r),
             records[q].live, records[r].live, records[q].code = records[r].code
      PROVE  records[r].code = Blank
  <2> DEFINE k == records[r].code
  <2> SUFFICES ASSUME k # Blank PROVE FALSE
    OBVIOUS
  <2>1. k \in KeysOf(q, owner) /\ k \in KeysOf(r, owner)
    BY <1>1 DEF KeyInv, HeldKeys, KeyOf
  <2> QED
    BY <1>1, <2>1 DEF KeysOf
<1>2. RecordInv /\ KeyInv => SavedRecordsAreUnique
  BY <1>1 DEF SavedRecordsAreUnique
<1> QED
  BY <1>2, RecordInvariant, KeyInvariant, PTL

-----------------------------------------------------------------------------
(* The pages of the backfill, again while no request runs: the live        *)
(* records have the ranks 1, 2, ... in the order of the listing, so that   *)
(* a page is full unless it is the last, and the pages meet.               *)
LiveUpto(r) == {q \in Ids : records[q].live /\ q <= r}

LEMMA Least ==
  ASSUME NEW S, S \subseteq Nat, S # {}
  PROVE  \E x \in S : \A y \in S : x <= y
<1>1. PICK x \in S : \A y \in S : ~(<<y, x>> \in OpToRel(<, Nat))
  BY WFMin, NatLessThanWellFounded
<1>2. \A y \in S : ~(y < x)
  BY <1>1 DEF OpToRel
<1> QED
  BY <1>2

LEMMA IdsAre == IsFiniteSet(Ids) /\ Ids \subseteq Nat
BY IdsAssumption, FS_CardinalityType

LEMMA RankIs ==
  ASSUME NEW r \in Ids
  PROVE  /\ IsFiniteSet(LiveUpto(r)) /\ Rank(r) = Cardinality(LiveUpto(r)) /\ Rank(r) \in Nat
         /\ records[r].live => Rank(r) > 0
<1>1. IsFiniteSet(LiveUpto(r))
  BY IdsAre, FS_Subset DEF LiveUpto
<1>2. Rank(r) = Cardinality(LiveUpto(r))
  BY DEF Rank, LiveUpto
<1>3. Rank(r) \in Nat
  BY <1>1, <1>2, FS_CardinalityType
<1>4. ASSUME records[r].live PROVE Rank(r) > 0
  <2>1. r \in LiveUpto(r)
    BY <1>4, IdsAre DEF LiveUpto
  <2>2. Rank(r) # 0
    BY <1>1, <1>2, <2>1, FS_EmptySet
  <2> QED
    BY <1>3, <2>2
<1> QED
  BY <1>1, <1>2, <1>3, <1>4

LEMMA RankBelow ==
  ASSUME NEW q \in Ids, NEW r \in Ids, q < r, records[r].live
  PROVE  Rank(q) < Rank(r)
<1>1. IsFiniteSet(LiveUpto(r) \ {r})
      /\ Cardinality(LiveUpto(r) \ {r}) = Cardinality(LiveUpto(r)) - 1
  <2>1. r \in LiveUpto(r)
    BY IdsAre DEF LiveUpto
  <2> QED
    BY <2>1, RankIs, FS_RemoveElement
<1>2. LiveUpto(q) \in SUBSET (LiveUpto(r) \ {r})
  <2>1. \A p \in Ids : p <= q => p <= r /\ p # r
    <3>1. \A p \in Ids : p \in Nat
      BY IdsAre
    <3> QED
      BY <3>1
  <2> QED
    BY <2>1 DEF LiveUpto
<1>3. Cardinality(LiveUpto(q)) <= Cardinality(LiveUpto(r)) - 1
  BY <1>1, <1>2, FS_Subset
<1> QED
  BY <1>3, RankIs

LEMMA RankBefore ==
  ASSUME NEW r \in Ids, records[r].live, Rank(r) > 1
  PROVE  \E p \in Ids : records[p].live /\ p < r /\ Rank(p) = Rank(r) - 1
<1>1. PICK below : below = LiveUpto(r) \ {r}
  OBVIOUS
<1>2. IsFiniteSet(below) /\ Cardinality(below) = Rank(r) - 1
  <2>1. r \in LiveUpto(r)
    BY IdsAre DEF LiveUpto
  <2> QED
    BY <1>1, <2>1, RankIs, FS_RemoveElement
<1>3. below # {}
  <2>1. Cardinality(below) # 0
    BY <1>2, RankIs
  <2> QED
    BY <2>1, FS_EmptySet
<1>4. PICK p \in below : \A q \in below : q <= p
  <2>1. PICK gaps : gaps = {r - q : q \in below}
    OBVIOUS
  <2>2. gaps \subseteq Nat /\ gaps # {}
    <3>1. \A q \in below : q <= r /\ q \in Ids
      BY <1>1 DEF LiveUpto
    <3>2. \A q \in below : q \in Nat /\ r \in Nat
      BY <3>1, IdsAre
    <3>3. \A q \in below : r - q \in Nat
      BY <3>1, <3>2
    <3> QED
      BY <1>3, <2>1, <3>3
  <2>3. PICK x \in gaps : \A y \in gaps : x <= y
    BY <2>2, Least
  <2>4. PICK p \in below : x = r - p
    BY <2>1
  <2>5. \A q \in below : r - p <= r - q
    BY <2>1, <2>3, <2>4
  <2>6. below \subseteq Nat /\ r \in Nat
    BY <1>1, IdsAre DEF LiveUpto
  <2> QED
    BY <2>5, <2>6
<1>5. p \in Ids /\ records[p].live /\ p < r
  BY <1>1, IdsAre DEF LiveUpto
<1>6. LiveUpto(p) = below
  <2>1. \A q \in Ids : q \in Nat
    BY IdsAre
  <2>2. \A q \in below : q \in LiveUpto(p)
    BY <1>1, <1>4 DEF LiveUpto
  <2>3. \A q \in Ids : q <= p => q <= r /\ q # r
    BY <1>5, <2>1
  <2>4. \A q \in LiveUpto(p) : q \in below
    BY <1>1, <2>3 DEF LiveUpto
  <2> QED
    BY <2>2, <2>4
<1>7. Rank(p) = Rank(r) - 1
  BY <1>2, <1>5, <1>6, RankIs
<1> QED
  BY <1>5, <1>7

LEMMA RanksMeet ==
  ASSUME NEW r \in Ids, records[r].live, NEW k \in 1..Rank(r)
  PROVE  \E q \in Ids : records[q].live /\ Rank(q) = k
<1> DEFINE Hits(s) == \A j \in 1..Rank(s) : \E q \in Ids : records[q].live /\ Rank(q) = j
           Bad == {s \in Ids : records[s].live /\ ~Hits(s)}
<1>1. Bad = {}
  <2>1. SUFFICES ASSUME Bad # {} PROVE FALSE
    OBVIOUS
  <2>2. PICK s \in Bad : \A p \in Bad : s <= p
    <3> HIDE DEF Bad
    <3>1. Bad \subseteq Nat
      BY IdsAre DEF Bad
    <3> QED
      BY <2>1, <3>1, Least
  <2>3. s \in Ids /\ records[s].live /\ ~Hits(s)
    BY <2>2
  <2>4. PICK j \in 1..Rank(s) : ~ \E q \in Ids : records[q].live /\ Rank(q) = j
    BY <2>3
  <2>5. j # Rank(s) /\ Rank(s) \in Nat /\ Rank(s) > 1 /\ j \in 1..(Rank(s) - 1)
    <3>1. j # Rank(s) /\ Rank(s) \in Nat
      BY <2>3, <2>4, RankIs
    <3> QED
      BY <2>4, <3>1
  <2>6. PICK p \in Ids : records[p].live /\ p < s /\ Rank(p) = Rank(s) - 1
    BY <2>3, <2>5, RankBefore
  <2>7. p \notin Bad
    <3>1. ~(s <= p)
      BY <2>3, <2>6, IdsAre
    <3> QED
      BY <2>2, <3>1
  <2>8. Hits(p)
    BY <2>6, <2>7
  <2> QED
    BY <2>4, <2>5, <2>6, <2>8
<1>2. Hits(r)
  BY <1>1
<1> QED
  BY <1>2

(* While a live record comes after it, a page is full.                     *)
LEMMA PageIsFull ==
  ASSUME offset \in Nat, NEW r \in Ids, records[r].live, Rank(r) > offset + PageSize
  PROVE  Cardinality(Listed) = PageSize
<1>1. PICK last : last = offset + PageSize
  OBVIOUS
<1>2. last \in Nat /\ Rank(r) \in Nat /\ PageSize \in Nat \ {0}
  BY <1>1, RankIs, BoundsAssumption
<1>3. PICK f : f = [q \in Listed |-> Rank(q)]
  OBVIOUS
<1>4. Listed \subseteq Ids /\ \A q \in Listed : records[q].live
  BY DEF Listed
<1>5. f \in [Listed -> (offset + 1)..last]
  BY <1>1, <1>2, <1>3, <1>4, RankIs DEF Listed
<1>6. \A p, q \in Listed : f[p] = f[q] => p = q
  <2>1. SUFFICES ASSUME NEW p \in Listed, NEW q \in Listed, f[p] = f[q], p # q PROVE FALSE
    OBVIOUS
  <2>2. p < q \/ q < p
    BY <1>4, <2>1, IdsAre
  <2>3. p < q => Rank(p) < Rank(q)
    BY <1>4, RankBelow
  <2>4. q < p => Rank(q) < Rank(p)
    BY <1>4, RankBelow
  <2>5. Rank(p) = Rank(q) /\ Rank(p) \in Nat
    BY <1>3, <1>4, <2>1, RankIs
  <2> QED
    BY <2>2, <2>3, <2>4, <2>5
<1>7. \A k \in (offset + 1)..last : \E q \in Listed : f[q] = k
  <2>1. SUFFICES ASSUME NEW k \in (offset + 1)..last PROVE \E q \in Listed : f[q] = k
    OBVIOUS
  <2>2. k \in 1..Rank(r)
    BY <1>1, <1>2
  <2>3. PICK q \in Ids : records[q].live /\ Rank(q) = k
    BY <2>2, RanksMeet
  <2>4. q \in Listed
    BY <1>1, <1>2, <2>3 DEF Listed
  <2> QED
    BY <1>3, <2>3, <2>4
<1>8. ExistsBijection(Listed, (offset + 1)..last)
  BY <1>5, <1>6, <1>7 DEF ExistsBijection, Bijection, Injection, Surjection, IsInjective
<1>9. IsFiniteSet(Listed)
  BY <1>4, IdsAre, FS_Subset
<1>10. Cardinality((offset + 1)..last) = Cardinality(Listed)
  BY <1>8, <1>9, FS_Bijection
<1>11. Cardinality((offset + 1)..last) = last - (offset + 1) + 1
  BY <1>1, <1>2, FS_Interval
<1> QED
  BY <1>1, <1>2, <1>10, <1>11

(* What is behind the backfill is covered, what is on its page will be.    *)
Covered(r) == records[r].live /\ records[r].code # Blank => owner[records[r].code] # NoOne
PagingInv ==
  /\ bpc = "idle" => offset = 0
  /\ bpc = "listing" => \A r \in Ids : Rank(r) <= offset => Covered(r)
  /\ bpc \in {"walking", "inserting"} =>
       /\ more = (Cardinality(Listed) = PageSize)
       /\ \A r \in Ids : Rank(r) <= offset + PageSize => r \in DOMAIN page \/ Covered(r)

LEMMA PagesCover ==
  ASSUME RecordInv, KeyInv, PagingInv, Backfill
  PROVE  /\ PagingInv'
         /\ bpc # "done" /\ bpc' = "done" => \A r \in Ids : Covered(r)
<1>1. /\ records' = records /\ offset \in Nat /\ PageSize \in Nat \ {0}
      /\ owner \in [Codes -> Ids \union {NoOne}]
      /\ \A r \in Ids : records[r].live => records[r].code \in Codes \union {Blank}
  BY BackfillTypes, BoundsAssumption DEF RecordInv, TypeOK, RowType, Values
<1>2. \A r \in Ids : Rank(r)' = Rank(r) /\ Rank(r) \in Nat /\ (records[r].live => Rank(r) > 0)
  BY <1>1, RankIs DEF Rank
<1>3. offset' = offset => Listed' = Listed
  BY <1>1 DEF Listed, Rank
<1>4. ASSUME NEW r \in Ids, Covered(r), \A k \in Codes : owner[k] # NoOne => owner'[k] # NoOne
      PROVE  Covered(r)'
  BY <1>1, <1>4 DEF Covered
<1>5. CASE StartBackfill
  <2>1. bpc = "idle" /\ bpc' = "listing" /\ UNCHANGED <<owner, offset>>
    BY <1>5 DEF StartBackfill
  <2>2. offset' = 0
    BY <2>1 DEF PagingInv
  <2>3. \A r \in Ids : Rank(r)' <= offset' => Covered(r)'
    BY <1>1, <1>2, <2>2 DEF Covered
  <2> QED
    BY <2>1, <2>3 DEF PagingInv
<1>6. CASE ListPage
  <2>1. /\ bpc = "listing" /\ page' = [r \in Listed |-> records[r].code]
        /\ more' = (Cardinality(Listed) = PageSize)
        /\ bpc' = IF Listed = {} THEN "done" ELSE "walking"
        /\ UNCHANGED <<owner, offset>>
    BY <1>6 DEF ListPage
  <2>2. \A r \in Ids : Rank(r) <= offset => Covered(r)
    BY <2>1 DEF PagingInv
  <2>3. ASSUME Listed = {} PROVE \A r \in Ids : Covered(r)
    <3>1. SUFFICES ASSUME NEW r \in Ids, records[r].live, Rank(r) > offset PROVE FALSE
      BY <1>1, <1>2, <2>2 DEF Covered
    <3>2. offset + 1 \in 1..Rank(r)
      BY <1>1, <1>2, <3>1
    <3>3. PICK q \in Ids : records[q].live /\ Rank(q) = offset + 1
      BY <3>1, <3>2, RanksMeet
    <3>4. q \in Listed
      BY <1>1, <3>3 DEF Listed
    <3> QED
      BY <2>3, <3>4
  <2>4. \A r \in Ids : Rank(r) <= offset + PageSize => r \in DOMAIN page' \/ Covered(r)
    <3>1. SUFFICES ASSUME NEW r \in Ids, Rank(r) <= offset + PageSize, ~Covered(r)
                   PROVE  r \in Listed
      BY <2>1
    <3>2. records[r].live /\ ~(Rank(r) <= offset)
      BY <2>2, <3>1 DEF Covered
    <3> QED
      BY <1>1, <1>2, <3>1, <3>2 DEF Listed
  <2>5. \A r \in Ids : Covered(r)' <=> Covered(r)
    BY <1>1, <2>1 DEF Covered
  <2>6. Listed' = Listed
    BY <1>3, <2>1
  <2> QED
    BY <1>2, <2>1, <2>3, <2>4, <2>5, <2>6 DEF PagingInv
<1>7. CASE NextPage
  <2>1. /\ bpc = "walking" /\ DOMAIN page = {} /\ offset' = offset + PageSize
        /\ bpc' = IF more THEN "listing" ELSE "done"
        /\ UNCHANGED owner
    BY <1>7 DEF NextPage
  <2>2. more = (Cardinality(Listed) = PageSize)
        /\ \A r \in Ids : Rank(r) <= offset + PageSize => Covered(r)
    BY <2>1 DEF PagingInv
  <2>3. ASSUME ~more PROVE \A r \in Ids : Covered(r)
    <3>1. SUFFICES ASSUME NEW r \in Ids, records[r].live, ~(Rank(r) <= offset + PageSize) PROVE FALSE
      BY <2>2 DEF Covered
    <3>2. Rank(r) > offset + PageSize
      BY <1>1, <1>2, <3>1
    <3>3. Cardinality(Listed) = PageSize
      BY <1>1, <3>1, <3>2, PageIsFull
    <3> QED
      BY <2>2, <2>3, <3>3
  <2>4. \A r \in Ids : Covered(r)' <=> Covered(r)
    BY <1>1, <2>1 DEF Covered
  <2> QED
    BY <1>2, <2>1, <2>2, <2>3, <2>4 DEF PagingInv
<1>8. ASSUME NEW r \in Ids, InHand(r), bpc \in {"walking", "inserting"}, Skip(r),
             Covered(r)', \A k \in Codes : owner[k] # NoOne => owner'[k] # NoOne
      PROVE  PagingInv'
  <2>1. /\ bpc' = "walking" /\ offset' = offset /\ more' = more
        /\ DOMAIN page' = DOMAIN page \ {r}
    BY <1>8 DEF Skip
  <2>2. more = (Cardinality(Listed) = PageSize)
        /\ \A q \in Ids : Rank(q) <= offset + PageSize => q \in DOMAIN page \/ Covered(q)
    BY <1>8 DEF PagingInv
  <2>3. \A q \in Ids : Rank(q) <= offset + PageSize => q \in DOMAIN page' \/ Covered(q)'
    BY <1>4, <1>8, <2>1, <2>2
  <2>4. Listed' = Listed
    BY <1>3, <2>1
  <2> QED
    BY <1>2, <2>1, <2>2, <2>3, <2>4 DEF PagingInv
<1>9. ASSUME NEW r \in Ids, InHand(r), bpc \in {"walking", "inserting"}
      PROVE  records[r].live /\ page[r] = records[r].code
  BY <1>9 DEF InHand, KeyInv, PageFresh, Backfilling
<1>10. ASSUME NEW r \in Ids, BackfillRepoint(r) PROVE PagingInv' /\ bpc' # "done"
  <2>1. /\ bpc = "walking" /\ InHand(r) /\ records[r].live /\ page[r] = records[r].code
        /\ KeysOf(r, owner) \subseteq {page[r]} \ {Blank}
    <3>1. bpc = "walking" /\ InHand(r)
      BY <1>10 DEF BackfillRepoint
    <3> QED
      BY <1>9, <3>1 DEF KeyInv, HeldKeys, KeyOf
  <2>2. owner' = owner
    <3>1. CASE page[r] # Blank /\ KeysOf(r, owner) # {}
      <4>1. KeysOf(r, owner) = {page[r]}
        BY <2>1, <3>1
      <4>2. [j \in Codes |-> IF j = page[r] THEN r
                             ELSE IF j \in KeysOf(r, owner) THEN NoOne ELSE owner[j]] = owner
        BY <1>1, <4>1 DEF KeysOf
      <4> QED
        BY <1>10, <3>1, <4>2 DEF BackfillRepoint
    <3>2. CASE ~(page[r] # Blank /\ KeysOf(r, owner) # {})
      BY <1>10, <3>2 DEF BackfillRepoint
    <3> QED
      BY <3>1, <3>2
  <2>3. CASE Skip(r) /\ (page[r] = Blank \/ KeysOf(r, owner) # {})
    <3>1. page[r] # Blank => owner[page[r]] = r
      BY <2>1, <2>3 DEF KeysOf
    <3>2. r # NoOne
      BY MarksAssumption
    <3>3. Covered(r)'
      BY <1>1, <2>1, <2>2, <3>1, <3>2 DEF Covered
    <3>4. bpc' = "walking"
      BY <2>3 DEF Skip
    <3> QED
      BY <1>8, <2>1, <2>2, <2>3, <3>3, <3>4
  <2>4. CASE bpc' = "inserting" /\ UNCHANGED <<page, offset, more>>
    <3>1. \A q \in Ids : Covered(q)' <=> Covered(q)
      BY <1>1, <2>2 DEF Covered
    <3>2. Listed' = Listed
      BY <1>3, <2>4
    <3> QED
      BY <1>2, <2>1, <2>4, <3>1, <3>2 DEF PagingInv
  <2> QED
    BY <1>10, <2>3, <2>4 DEF BackfillRepoint
<1>11. ASSUME NEW r \in Ids, BackfillInsert(r) PROVE PagingInv' /\ bpc' # "done"
  <2>1. /\ bpc = "inserting" /\ InHand(r) /\ Skip(r) /\ bpc' = "walking"
        /\ owner' = IF owner[page[r]] = NoOne THEN [owner EXCEPT ![page[r]] = r] ELSE owner
    BY <1>11 DEF BackfillInsert, Skip
  <2>2. records[r].live /\ page[r] = records[r].code
    BY <1>9, <2>1
  <2>3. r # NoOne
    BY MarksAssumption
  <2>4. \A k \in Codes : owner[k] # NoOne => owner'[k] # NoOne
    BY <1>1, <2>1, <2>3
  <2>5. Covered(r)'
    <3>1. SUFFICES ASSUME records[r].code # Blank PROVE owner'[records[r].code] # NoOne
      BY <1>1 DEF Covered
    <3>2. records[r].code \in Codes
      BY <1>1, <2>2, <3>1
    <3> QED
      BY <1>1, <2>1, <2>2, <2>3, <3>2
  <2> QED
    BY <1>8, <2>1, <2>4, <2>5
<1> QED
  BY <1>5, <1>6, <1>7, <1>10, <1>11 DEF Backfill

LEMMA OthersDoNotPage ==
  ASSUME BackfillAlone, RecordInv, KeyInv, PagingInv,
         (\E c \in Clients : Request(c) \/ Work(c) \/ Abort(c)) \/ UNCHANGED vars
  PROVE  PagingInv' /\ bpc' = bpc
<1>1. UNCHANGED <<bpc, page, offset, more>>
  BY DEF Request, Work, Abort, Get, DeleteTx, CreateTx, Submit, UpdateTx, WriteKeys, InsertKey,
     Commit, Rollback, backfillVars, vars
<1>2. CASE UNCHANGED vars
  BY <1>1, <1>2 DEF vars, PagingInv, Covered, Listed, Rank
<1>3. CASE \E c \in Clients : Request(c) \/ Work(c) \/ Abort(c)
  <2>1. PICK c \in Clients : Request(c) \/ Work(c) \/ Abort(c)
    BY <1>3
  <2>2. pc[c] # "idle" \/ MayStart(c)
    BY <2>1 DEF Request, Work, Abort, Get, DeleteTx, CreateTx, Submit, UpdateTx, WriteKeys,
       InsertKey, Commit, InTransaction
  <2>3. bpc \in {"idle", "done"}
    BY <2>2, NoBackfill DEF Backfilling
  <2> QED
    BY <1>1, <2>3 DEF PagingInv
<1> QED
  BY <1>1, <1>2, <1>3

(* When the backfill is done every code of a live record is taken, for any *)
(* records, page size and duplicates among them                            *)
(* (BackfillUniqueConstraintKeys).                                         *)
THEOREM BackfillCovers == ASSUME BackfillAlone PROVE Spec => CoveredWhenDone
<1>1. Init => PagingInv
  BY DEF Init, PagingInv
<1>2. RecordInv /\ KeyInv /\ PagingInv /\ [Next]_vars => PagingInv'
  BY PagesCover, OthersDoNotPage DEF Next
<1>3. RecordInv /\ KeyInv /\ PagingInv /\ [Next]_vars =>
        [bpc # "done" /\ bpc' = "done" =>
           \A r \in Ids : records[r].live /\ records[r].code # Blank =>
             owner[records[r].code] # NoOne]_vars
  <2>1. SUFFICES ASSUME RecordInv, KeyInv, PagingInv, [Next]_vars, bpc # "done", bpc' = "done"
                 PROVE  \A r \in Ids : Covered(r)
    BY DEF Covered
  <2> QED
    BY <2>1, PagesCover, OthersDoNotPage DEF Next
<1> QED
  BY <1>1, <1>2, <1>3, RecordInvariant, KeyInvariant, PTL DEF Spec, CoveredWhenDone

-----------------------------------------------------------------------------
(* A commit is a step of RecordTable, when every record has its keys.      *)
LEMMA CommitIsTableStep ==
  ASSUME BackfillAlone, LegacyKeyed \/ DOMAIN Legacy = {},
         RecordInv, KeyInv, NEW c \in Clients, Commit(c)
  PROVE  Table!TableNext
<1> DEFINE r == target[c]
           new == staged[c]
<1>1. /\ r \in Ids /\ Writes(c) /\ pc[c] = "commit"
      /\ records' = [records EXCEPT ![r] = new]
  BY CommitChanges DEF Commit
<1>2. records \in [Ids -> RowType] /\ new \in RowType /\ records[r] \in RowType
  BY <1>1 DEF RecordInv, TypeOK
<1>3. new.live => Table!CodeIsFree(r, new.code)
  <2> SUFFICES ASSUME new.live, new.code # Blank, NEW q \in Ids \ {r}, records[q].live,
                      records[q].code = new.code
               PROVE  FALSE
    BY DEF Table!CodeIsFree
  <2>1. owner[new.code] \in {NoOne, r}
    BY <1>1 DEF KeyInv, Pending, KeyOf
  <2>2. Saved(q)
    BY DEF Saved
  <2>3. new.code \in KeysOf(q, owner)
    BY <2>2 DEF KeyInv, HeldKeys, KeyOf
  <2> QED
    BY <2>1, <2>3 DEF KeysOf
<1>4. new = [live |-> new.live, version |-> new.version, code |-> new.code, status |-> new.status]
  BY <1>2 DEF RowType
<1> HIDE DEF new
<1>5. new.code \in Codes \union {Blank} /\ new.status \in Table!Statuses
  BY <1>2 DEF RowType, Values, Statuses, Table!Statuses
<1>6. CASE Updates(c)
  <2>1. /\ records[r].live /\ new.live /\ new.version = records[r].version + 1
        /\ StatusMoves(records[r].status, new.status)
    BY <1>6 DEF Updates, new
  <2>2. <<records[r].status, new.status>> \in Transitions \/ new.status = records[r].status
    BY <1>1, <2>1 DEF StatusMoves, RecordInv, RowsOK
  <2>3. new.live = TRUE
    BY <1>2, <2>1 DEF RowType
  <2>4. records' = [records EXCEPT ![r] =
          [live |-> TRUE, version |-> records[r].version + 1, code |-> new.code, status |-> new.status]]
    BY <1>1, <1>4, <2>1, <2>3
  <2>5. Table!ReplaceRecord(r, new.code, new.status)
    BY <1>3, <2>1, <2>2, <2>4 DEF Table!ReplaceRecord
  <2> QED
    BY <1>1, <1>5, <2>5 DEF Table!TableNext
<1>7. CASE Creates(c)
  <2>1. records[r].version = 0 /\ new.live = TRUE /\ new.version = 1 /\ new.status = Initial
    BY <1>2, <1>7 DEF Creates, new, RowType
  <2>2. Table!CreateRecord(r, new.code)
    BY <1>1, <1>3, <1>4, <2>1 DEF Table!CreateRecord
  <2> QED
    BY <1>1, <1>5, <2>2 DEF Table!TableNext
<1>8. CASE Deletes(c)
  <2>1. records[r].live /\ new = [records[r] EXCEPT !.live = FALSE]
    BY <1>8 DEF Deletes, new
  <2>2. records' = [records EXCEPT ![r].live = FALSE]
    BY <1>1, <2>1
  <2>3. Table!DeleteRecord(r)
    BY <2>1, <2>2 DEF Table!DeleteRecord
  <2> QED
    BY <1>1, <2>3 DEF Table!TableNext
<1> QED
  BY <1>1, <1>6, <1>7, <1>8 DEF Writes

(* The store does what RecordTable promises: whatever its transactions do  *)
(* step by step and however they interleave, records are created, replaced *)
(* and deleted one at a time, versions and statuses in order, codes unique *)
(* (Engine.Create, Update and Delete).                                     *)
THEOREM StoreImplementsTable ==
  ASSUME BackfillAlone, LegacyKeyed \/ DOMAIN Legacy = {}
  PROVE  Spec => ImplementsTable
<1>1. Init => Table!TableInit
  BY DEF Init, Table!TableInit
<1>2. RecordInv /\ KeyInv /\ [Next]_vars => [Table!TableNext]_records
  BY CommitIsTableStep, OnlyCommitsChangeRows
<1> QED
  BY <1>1, <1>2, RecordInvariant, KeyInvariant, PTL DEF Spec, ImplementsTable, Table!TableSpec
=============================================================================
