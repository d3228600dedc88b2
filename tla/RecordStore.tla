----------------------------- MODULE RecordStore -----------------------------
(***************************************************************************)
(* The generic record store for one entity type of one tenant: crud.Engine *)
(* over the records table and the record_unique_keys table                 *)
(* (internal/kernel/crud, internal/data/records.go,                        *)
(* record_unique_keys.go), with the status graph and one Unique field, and *)
(* the backfill of keys for records older than the constraint              *)
(* (cmd/sync-tenant-modules).                                              *)
(*                                                                         *)
(* Transactions run at READ COMMITTED: records and owner are what is       *)
(* committed; a transaction's own writes are in staged, gives and takes,   *)
(* its row lock in lock. A statement that meets another transaction's      *)
(* uncommitted write waits for it. The backfill commits every statement.   *)
(***************************************************************************)
EXTENDS Integers, FiniteSets

CONSTANTS
  Ids,          \* record ids, 1..n in the order of creation
  Codes,        \* values of the unique field
  Blank,        \* the field left empty: exempt from uniqueness
  Initial,      \* the initial status
  Transitions,  \* the declared transitions, pairs of statuses
  HasStatus,    \* whether the definition names a status type
  Clients,      \* requests in flight
  AnyVersion,   \* a write that states no expected version
  NoOne,        \* no record, no client
  Legacy,       \* Legacy[r]: the code of a record there from the start
  LegacyKeyed,  \* whether those have their key rows
  PageSize,     \* of the backfill
  BackfillAlone,  \* whether the backfill runs while no request does
  MaxVersion    \* bound: versions of a record; a write beyond it fails

ASSUME IdsAssumption == IsFiniteSet(Ids) /\ Ids = 1..Cardinality(Ids)
ASSUME LegacyAssumption ==
  /\ DOMAIN Legacy \subseteq Ids /\ \A r \in DOMAIN Legacy : Legacy[r] \in Codes \union {Blank}
  /\ LegacyKeyed => \A q, r \in DOMAIN Legacy : Legacy[q] = Legacy[r] => q = r \/ Legacy[r] = Blank
ASSUME MarksAssumption == Blank \notin Codes /\ NoOne \notin Ids \union Clients
ASSUME BoundsAssumption ==
  /\ MaxVersion \in Nat \ {0} /\ PageSize \in Nat \ {0} /\ AnyVersion \notin Nat
  /\ HasStatus \in BOOLEAN /\ LegacyKeyed \in BOOLEAN /\ BackfillAlone \in BOOLEAN

VARIABLES
  records,  \* records[r]: the row [live, version, code, status]
  owner,    \* owner[k]: the record of the key row with value k, or NoOne
  lock,     \* lock[r]: the client whose transaction has written row r
  pc,       \* pc[c]: where the request is
  target,   \* target[c]: the record it is about
  base,     \* base[c]: the row as it read it
  expected, \* expected[c]: the version it states
  staged,   \* staged[c]: the row it writes
  gives,    \* gives[c]: key values its transaction has let go
  takes,    \* takes[c]: key values its transaction has taken
  bpc,      \* where the backfill is
  page,     \* what is left of the page it read: the code of each record
  offset,   \* how many records it has paged over
  more      \* whether the page was a full one

keyVars == <<gives, takes>>
requestVars == <<target, base, expected, staged>>
backfillVars == <<bpc, page, offset, more>>
vars == <<records, owner, lock, pc, requestVars, keyVars, backfillVars>>

Statuses == {Initial} \union {t[1] : t \in Transitions} \union {t[2] : t \in Transitions}
Values == Codes \union {Blank}
NoRecord == [live |-> FALSE, version |-> 0, code |-> Blank, status |-> Initial]
Row(live, version, code, status) ==
  [live |-> live, version |-> version, code |-> code, status |-> status]

StartRecords ==
  [r \in Ids |-> IF r \in DOMAIN Legacy THEN Row(TRUE, 1, Legacy[r], Initial) ELSE NoRecord]
StartOwner ==
  [k \in Codes |->
     IF LegacyKeyed /\ \E r \in DOMAIN Legacy : Legacy[r] = k
       THEN CHOOSE r \in DOMAIN Legacy : Legacy[r] = k ELSE NoOne]

Init ==
  /\ records = StartRecords
  /\ owner = StartOwner
  /\ lock = [r \in Ids |-> NoOne]
  /\ pc = [c \in Clients |-> "idle"]
  /\ target = [c \in Clients |-> NoOne]
  /\ base = [c \in Clients |-> NoRecord]
  /\ expected = [c \in Clients |-> AnyVersion]
  /\ staged = [c \in Clients |-> NoRecord]
  /\ gives = [c \in Clients |-> {}]
  /\ takes = [c \in Clients |-> {}]
  /\ bpc = "idle" /\ page = <<>> /\ offset = 0 /\ more = TRUE

-----------------------------------------------------------------------------
(* A request and its transaction.                                          *)
Goto(c, at) == pc' = [pc EXCEPT ![c] = at]
Backfilling == bpc \notin {"idle", "done"}
MayStart(c) == pc[c] = "idle" /\ ~(BackfillAlone /\ Backfilling)
InTransaction(c) == pc[c] \in {"keys", "inserting", "commit"}

(* The request is over: its transaction, if any, ends and lets go.         *)
End(c) ==
  /\ Goto(c, "idle")
  /\ lock' = [r \in Ids |-> IF lock[r] = c THEN NoOne ELSE lock[r]]
  /\ target' = [target EXCEPT ![c] = NoOne]
  /\ base' = [base EXCEPT ![c] = NoRecord]
  /\ expected' = [expected EXCEPT ![c] = AnyVersion]
  /\ staged' = [staged EXCEPT ![c] = NoRecord]
  /\ gives' = [gives EXCEPT ![c] = {}]
  /\ takes' = [takes EXCEPT ![c] = {}]
(* Faulty variant: a conflict returns without rolling back.                *)
RollbackForgotten(c) ==
  /\ Goto(c, "idle")
  /\ UNCHANGED <<records, owner, lock, requestVars, keyVars, backfillVars>>
Rollback(c) == End(c) /\ UNCHANGED <<records, owner, backfillVars>>

(* The user opens the record's form.                                       *)
Get(c, r) ==
  /\ MayStart(c)
  /\ records[r].live
  /\ target' = [target EXCEPT ![c] = r]
  /\ base' = [base EXCEPT ![c] = records[r]]
  /\ Goto(c, "editing")
  /\ UNCHANGED <<records, owner, lock, expected, staged, keyVars, backfillVars>>

(* Faulty variant: a transition needs no version.                          *)
TransitionUnversioned(now, new, version) == new = now \/ <<now, new>> \in Transitions

(* ValidateStatusTransition, on the status of the moment.                  *)
ValidTransition(now, new, version) ==
  /\ new = now \/ <<now, new>> \in Transitions
  /\ version # AnyVersion

(* The handler checks the status and calls Update with the form's fields.  *)
Submit(c, code, status, version) ==
  /\ pc[c] = "editing"
  /\ version \in {base[c].version, AnyVersion}
  /\ LET row == records[target[c]] IN
       IF HasStatus => row.live /\ ValidTransition(row.status, status, version)
         THEN /\ expected' = [expected EXCEPT ![c] = version]
              /\ staged' = [staged EXCEPT ![c] = Row(TRUE, 0, code, IF HasStatus THEN status ELSE Initial)]
              /\ Goto(c, "checked")
              /\ UNCHANGED <<records, owner, lock, target, base, keyVars, backfillVars>>
         ELSE Rollback(c)

(* RecordRepo.UpdateTx: waits for the row, then decides on it as committed.*)
(* Faulty variant: the version is not looked at.                           *)
MatchesAnyVersion(c) == records[target[c]].live
Matches(c) ==
  LET row == records[target[c]] IN
    row.live /\ expected[c] \in {row.version, AnyVersion}

UpdateTx(c) ==
  /\ pc[c] = "checked"
  /\ LET r == target[c] IN
       /\ lock[r] = NoOne
       /\ IF Matches(c) /\ records[r].version < MaxVersion
            THEN /\ lock' = [lock EXCEPT ![r] = c]
                 /\ staged' = [staged EXCEPT ![c].version = records[r].version + 1]
                 /\ Goto(c, "keys")
                 /\ UNCHANGED <<records, owner, target, base, expected, keyVars, backfillVars>>
            ELSE Rollback(c)

(* Create: CreateTx; a new record starts in the initial status.            *)
Unused == {r \in Ids : records[r].version = 0 /\ lock[r] = NoOne}
CreateTx(c, code) ==
  /\ MayStart(c)
  /\ \E r \in Unused :
       /\ \A q \in Unused : r <= q
       /\ lock' = [lock EXCEPT ![r] = c]
       /\ target' = [target EXCEPT ![c] = r]
       /\ staged' = [staged EXCEPT ![c] = Row(TRUE, 1, code, Initial)]
  /\ Goto(c, IF code = Blank THEN "commit" ELSE "inserting")
  /\ UNCHANGED <<records, owner, base, expected, keyVars, backfillVars>>

(* Delete: DeleteTx; the version stays, and none is expected.              *)
DeleteTx(c, r) ==
  /\ MayStart(c)
  /\ records[r].live /\ lock[r] = NoOne
  /\ lock' = [lock EXCEPT ![r] = c]
  /\ target' = [target EXCEPT ![c] = r]
  /\ staged' = [staged EXCEPT ![c] = [records[r] EXCEPT !.live = FALSE]]
  /\ Goto(c, "keys")
  /\ UNCHANGED <<records, owner, base, expected, keyVars, backfillVars>>

-----------------------------------------------------------------------------
(* record_unique_keys. The UNIQUE index is on the value alone, so the      *)
(* table is a function from values to records; a record may have several   *)
(* rows as far as the table is concerned.                                  *)
InDoubt(c, values) == \E d \in Clients \ {c} : values \intersect (gives[d] \union takes[d]) # {}

(* The index as transaction c sees it.                                     *)
View(c) ==
  [k \in Codes |-> IF k \in takes[c] THEN target[c]
                   ELSE IF k \in gives[c] THEN NoOne ELSE owner[k]]
KeysOf(r, index) == {k \in Codes : index[k] = r}

(* UPDATE ... SET key_value = k WHERE record_id = r, of some rows: the     *)
(* index allows it for one row and a value that is free or its own.        *)
(* Faulty variant: a table without the UNIQUE index.                       *)
RepointableAnyway(r, k, index) == TRUE
Repointable(r, k, index) == index[k] \in {NoOne, r} /\ Cardinality(KeysOf(r, index)) = 1

(* Faulty variant: deleting a record leaves its key rows.                  *)
KeyGoesWithCode(row) == row.code = Blank
KeyGoes(row) == ~row.live \/ row.code = Blank

(* UpdateUniqueConstraintKeys, UpdateValueTx: the rows are deleted when    *)
(* the field is blank, and repointed otherwise; where there are none the   *)
(* row is inserted next. (InsertTx runs UpdateValueTx once more, which is  *)
(* the same statement again.)                                              *)
WriteKeys(c) ==
  /\ pc[c] = "keys"
  /\ LET r == target[c]
         k == staged[c].code
         rows == KeysOf(r, View(c)) IN
       \/ /\ KeyGoes(staged[c])
          /\ gives' = [gives EXCEPT ![c] = rows]
          /\ Goto(c, "commit")
          /\ UNCHANGED <<records, owner, lock, requestVars, takes, backfillVars>>
       \/ /\ ~KeyGoes(staged[c]) /\ rows = {}
          /\ Goto(c, "inserting")
          /\ UNCHANGED <<records, owner, lock, requestVars, keyVars, backfillVars>>
       \/ /\ ~KeyGoes(staged[c]) /\ rows # {}
          /\ ~InDoubt(c, {k})
          /\ IF Repointable(r, k, View(c))
               THEN /\ gives' = [gives EXCEPT ![c] = rows \ {k}]
                    /\ takes' = [takes EXCEPT ![c] = {k}]
                    /\ Goto(c, "commit")
                    /\ UNCHANGED <<records, owner, lock, requestVars, backfillVars>>
               ELSE Rollback(c)

(* INSERT ... ON CONFLICT DO UPDATE WHERE record_id is the same.           *)
(* Faulty variant: a value in doubt is not waited for.                     *)
InsertKeyUnwaiting(c) ==
  /\ pc[c] = "inserting"
  /\ IF View(c)[staged[c].code] \in {NoOne, target[c]}
       THEN /\ takes' = [takes EXCEPT ![c] = {staged[c].code}]
            /\ Goto(c, "commit")
            /\ UNCHANGED <<records, owner, lock, requestVars, gives, backfillVars>>
       ELSE Rollback(c)
InsertKey(c) ==
  /\ pc[c] = "inserting"
  /\ LET r == target[c]
         k == staged[c].code IN
       /\ ~InDoubt(c, {k})
       /\ IF View(c)[k] \in {NoOne, r}
            THEN /\ takes' = [takes EXCEPT ![c] = {k}]
                 /\ Goto(c, "commit")
                 /\ UNCHANGED <<records, owner, lock, requestVars, gives, backfillVars>>
            ELSE Rollback(c)

Commit(c) ==
  /\ pc[c] = "commit"
  /\ records' = [records EXCEPT ![target[c]] = staged[c]]
  /\ owner' = View(c)
  /\ End(c)
  /\ UNCHANGED backfillVars

(* A statement fails or the process dies: the transaction is rolled back.  *)
Abort(c) == InTransaction(c) /\ Rollback(c)

-----------------------------------------------------------------------------
(* BackfillUniqueConstraintKeys.                                           *)
StartBackfill ==
  /\ bpc = "idle"
  /\ BackfillAlone => \A c \in Clients : pc[c] = "idle"
  /\ bpc' = "listing"
  /\ UNCHANGED <<records, owner, lock, pc, requestVars, keyVars, page, offset, more>>

(* ListPage: the live records by creation, LIMIT PageSize OFFSET offset.   *)
Rank(r) == Cardinality({q \in Ids : records[q].live /\ q <= r})
Listed ==
  {r \in Ids : records[r].live /\ Rank(r) > offset /\ Rank(r) <= offset + PageSize}
ListPage ==
  /\ bpc = "listing"
  /\ page' = [r \in Listed |-> records[r].code]
  /\ more' = (Cardinality(Listed) = PageSize)
  /\ bpc' = IF Listed = {} THEN "done" ELSE "walking"
  /\ UNCHANGED <<records, owner, lock, pc, requestVars, keyVars, offset>>

(* Faulty variant: only the first page is read.                            *)
NextPageNever ==
  /\ bpc = "walking" /\ DOMAIN page = {}
  /\ bpc' = "done"
  /\ UNCHANGED <<records, owner, lock, pc, requestVars, keyVars, page, offset, more>>
NextPage ==
  /\ bpc = "walking" /\ DOMAIN page = {}
  /\ offset' = offset + PageSize
  /\ bpc' = IF more THEN "listing" ELSE "done"
  /\ UNCHANGED <<records, owner, lock, pc, requestVars, keyVars, page, more>>

(* The page is walked in its order; Skip goes on to the next record.       *)
InHand(r) == r \in DOMAIN page /\ \A q \in DOMAIN page : r <= q
Skip(r) ==
  /\ page' = [q \in DOMAIN page \ {r} |-> page[q]]
  /\ bpc' = "walking"
  /\ UNCHANGED <<records, lock, pc, requestVars, keyVars, offset, more>>

(* InsertTx of the record in hand with the code on the page, which may no  *)
(* longer be the record's. First UpdateValueTx, which waits for a row that *)
(* another transaction has written, then the INSERT.                       *)
BackfillRepoint(r) ==
  /\ bpc = "walking" /\ InHand(r)
  /\ LET k == page[r]
         rows == KeysOf(r, owner) IN
       \/ k = Blank /\ Skip(r) /\ UNCHANGED owner
       \/ /\ k # Blank /\ rows = {}
          /\ bpc' = "inserting"
          /\ UNCHANGED <<records, owner, lock, pc, requestVars, keyVars, page, offset, more>>
       \/ /\ k # Blank /\ rows # {}
          /\ ~InDoubt(NoOne, rows \union {k})
          /\ owner' = IF Repointable(r, k, owner)
                        THEN [j \in Codes |-> IF j = k THEN r
                                              ELSE IF j \in rows THEN NoOne ELSE owner[j]]
                        ELSE owner
          /\ Skip(r)

BackfillInsert(r) ==
  /\ bpc = "inserting" /\ InHand(r)
  /\ ~InDoubt(NoOne, {page[r]})
  /\ owner' = IF owner[page[r]] = NoOne THEN [owner EXCEPT ![page[r]] = r] ELSE owner
  /\ Skip(r)

-----------------------------------------------------------------------------
Request(c) ==
  \/ \E r \in Ids : Get(c, r) \/ DeleteTx(c, r)
  \/ \E code \in Values : CreateTx(c, code)
  \/ \E code \in Values, status \in Statuses, version \in {base[c].version, AnyVersion} :
       Submit(c, code, status, version)
Work(c) == UpdateTx(c) \/ WriteKeys(c) \/ InsertKey(c) \/ Commit(c)
Backfill ==
  \/ StartBackfill \/ ListPage \/ NextPage
  \/ \E r \in Ids : BackfillRepoint(r) \/ BackfillInsert(r)

Next ==
  \/ \E c \in Clients : Request(c) \/ Work(c) \/ Abort(c)
  \/ Backfill

Spec == Init /\ [][Next]_vars
(* Statements are carried out, and one that waits for a transaction that   *)
(* ends again and again gets its turn: lock queues are first in, first out.*)
FairSpec == Spec /\ (\A c \in Clients : SF_vars(Work(c))) /\ WF_vars(Backfill)

-----------------------------------------------------------------------------
(* Every variable stays in its type, and a row is locked by the one open   *)
(* transaction that writes it (a request that ends leaves nothing behind). *)
RowType == [live : BOOLEAN, version : 0..MaxVersion, code : Values, status : Statuses]
TypeOK ==
  /\ records \in [Ids -> RowType]
  /\ owner \in [Codes -> Ids \union {NoOne}]
  /\ lock \in [Ids -> Clients \union {NoOne}]
  /\ pc \in [Clients -> {"idle", "editing", "checked", "keys", "inserting", "commit"}]
  /\ target \in [Clients -> Ids \union {NoOne}]
  /\ base \in [Clients -> RowType]
  /\ expected \in [Clients -> 0..MaxVersion \union {AnyVersion}]
  /\ staged \in [Clients -> RowType]
  /\ gives \in [Clients -> SUBSET Codes] /\ takes \in [Clients -> SUBSET Codes]
  /\ bpc \in {"idle", "listing", "walking", "inserting", "done"}
  /\ \A r \in Ids, c \in Clients : lock[r] = c <=> InTransaction(c) /\ target[c] = r
  /\ page \in UNION {[listed -> Values] : listed \in SUBSET Ids}
  /\ offset \in Nat /\ more \in BOOLEAN

(* A record is saved once it was written under the constraint: only those  *)
(* that were there before it, and have not been edited since, are not.     *)
Saved(r) ==
  r \notin DOMAIN Legacy \/ LegacyKeyed \/ records[r].version > 1

(* No two live records that were saved under the constraint hold the same  *)
(* code (Definition.Unique).                                               *)
SavedRecordsAreUnique ==
  \A q, r \in Ids :
    /\ q # r /\ Saved(q) /\ Saved(r)
    /\ records[q].live /\ records[r].live
    /\ records[q].code = records[r].code
    => records[r].code = Blank

(* A saved record has the key row of its code and no other, a deleted one  *)
(* has none: its combination can be used again, and only its own is taken. *)
KeysAgree ==
  \A r \in Ids : Saved(r) =>
    KeysOf(r, owner) = IF records[r].live THEN {records[r].code} \ {Blank} ELSE {}

(* A record never has two key rows (InsertTx "can now never coexist with   *)
(* more than one row per (record, constraint) it touches"). The code does  *)
(* not keep this one while the backfill runs beside requests.              *)
OneKeyPerRecord == \A r \in Ids : Cardinality(KeysOf(r, owner)) <= 1

(* The status of a record moves along declared transitions only, although  *)
(* the check and the write are apart (ValidateStatusTransition).           *)
StatusFollowsGraph ==
  [][\A r \in Ids :
       records[r].live /\ records'[r].status # records[r].status =>
         <<records[r].status, records'[r].status>> \in Transitions]_vars

(* A write that states a version replaces the very row it was based on: no *)
(* edit is lost (UpdateTx).                                                *)
NoEditLost ==
  [][\A c \in Clients :
       /\ pc[c] = "commit" /\ expected[c] # AnyVersion
       /\ records'[target[c]] # records[target[c]]
       => records[target[c]] = base[c]]_vars

(* When the backfill is done every code that a live record holds is taken, *)
(* so that no new record can duplicate it (BackfillUniqueConstraintKeys).  *)
CoveredWhenDone ==
  [][bpc # "done" /\ bpc' = "done" =>
       \A r \in Ids : records[r].live /\ records[r].code # Blank =>
         owner[records[r].code] # NoOne]_vars

(* A transaction that waits for another does not wait for ever.            *)
TransactionsEnd ==
  \A c \in Clients : []<>(pc[c] # "checked" /\ ~InTransaction(c))

(* The store does what RecordTable promises.                               *)
Table == INSTANCE RecordTable WITH table <- records, Start <- StartRecords
ImplementsTable == Table!TableSpec
=============================================================================
