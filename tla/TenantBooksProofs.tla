-------------------------- MODULE TenantBooksProofs --------------------------
(* What is booked in a tenant, for any invoices, periods, accounts, assets *)
(* pollers and receipts: every issued invoice is booked once, the chart of *)
(* accounts follows the accounts, a period of an asset is booked and       *)
(* counted once, and stock is what was received and adjusted.              *)
EXTENDS TenantWork, FiniteSetTheorems, TLAPS

-----------------------------------------------------------------------------
(* Invoices and the ledger.                                                *)

(* What an open save has decided still holds when it commits: it has the   *)
(* row, so nothing else books the invoice meanwhile.                       *)
SavingHolds ==
  \A i \in Invoices : saving[i] # Books!NotSaving =>
    /\ saving[i].row.status \in Books!Steps[invoice[i].status]
    /\ saving[i].books = Books!MustBook(i, saving[i].row)
InvoiceInv == Books!TypeOK /\ Books!InvoicesBooked /\ SavingHolds

(* A sweep upserts what the accounts still say.                            *)
SweepSaysTheSame == \A a \in DOMAIN sweep : sweep[a] = account[a]
ChartInv == Books!LedgerTypeOK /\ Books!ChartAgrees /\ SweepSaysTheSame

-----------------------------------------------------------------------------
LEMMA InvoiceStatuses ==
  /\ DOMAIN Books!Steps = {"draft", "issued", "paid", "void"}
  /\ \A s \in DOMAIN Books!Steps : "draft" \in Books!Steps[s] => s = "draft"
  /\ \A s \in DOMAIN Books!Steps : "issued" \in Books!Steps[s] => s \in {"draft", "issued"}
BY DEF Books!Steps

LEMMA BooksInit == Books!Init => InvoiceInv /\ ChartInv
<1> SUFFICES ASSUME Books!Init PROVE InvoiceInv /\ ChartInv
  OBVIOUS
<1>1. Books!LedgerTypeOK
  BY DEF Books!Init, Books!LedgerInit, Books!LedgerTypeOK, Books!PeriodStatuses, Books!Listing, Books!Unwritten
<1>2. \A i \in Invoices : invoice[i] \in Books!Rows /\ invoice[i].status = "draft"
  BY InvoiceStatuses DEF Books!Init, Books!Rows, Books!Draft
<1>4. Books!TypeOK
  <2>1. invoice \in [Invoices -> Books!Rows]
    BY <1>2 DEF Books!Init
  <2> QED
    BY <1>1, <2>1 DEF Books!Init, Books!TypeOK
<1>5. Books!InvoicesBooked
  BY <1>2 DEF Books!Init, Books!LedgerInit, Books!InvoicesBooked
<1>6. SavingHolds
  BY DEF Books!Init, SavingHolds
<1>7. Books!ChartAgrees /\ SweepSaysTheSame
  BY DEF Books!Init, Books!LedgerInit, Books!ChartAgrees, SweepSaysTheSame
<1> QED
  BY <1>1, <1>4, <1>5, <1>6, <1>7 DEF InvoiceInv, ChartInv

(* The ledger's own steps.                                                 *)
LEMMA BooksKeepTypes ==
  ASSUME Books!LedgerTypeOK, Books!BooksNext PROVE Books!LedgerTypeOK' /\ journal' = journal
<1>1. ASSUME NEW p \in Periods, NEW s \in Books!PeriodStatuses, Books!SetPeriodStatus(p, s)
      PROVE  Books!LedgerTypeOK' /\ journal' = journal
  BY <1>1 DEF Books!SetPeriodStatus, Books!LedgerTypeOK
<1>2. ASSUME NEW a \in Accounts, NEW row \in Books!Listing, Books!WriteAccount(a, row)
      PROVE  Books!LedgerTypeOK' /\ journal' = journal
  BY <1>2 DEF Books!WriteAccount, Books!UpsertBySourceRecord, Books!LedgerTypeOK
<1>3. ASSUME Books!StartSweep PROVE Books!LedgerTypeOK' /\ journal' = journal
  BY <1>3 DEF Books!StartSweep, Books!LedgerTypeOK
<1>4. ASSUME NEW a \in Accounts, Books!SweepOne(a) PROVE Books!LedgerTypeOK' /\ journal' = journal
  BY <1>4 DEF Books!SweepOne, Books!UpsertBySourceRecord, Books!LedgerTypeOK
<1> QED
  BY <1>1, <1>2, <1>3, <1>4 DEF Books!BooksNext

LEMMA BooksKeepChart ==
  ASSUME SweepAlone, ChartInv, Books!BooksNext PROVE ChartInv'
<1>1. Books!LedgerTypeOK'
  BY BooksKeepTypes DEF ChartInv
<1>2. ASSUME NEW p \in Periods, NEW s \in Books!PeriodStatuses, Books!SetPeriodStatus(p, s)
      PROVE  (Books!ChartAgrees /\ SweepSaysTheSame)'
  BY <1>2 DEF Books!SetPeriodStatus, ChartInv, Books!ChartAgrees, SweepSaysTheSame
<1>3. ASSUME NEW a \in Accounts, NEW row \in Books!Listing, Books!WriteAccount(a, row)
      PROVE  (Books!ChartAgrees /\ SweepSaysTheSame)'
  BY <1>3 DEF Books!WriteAccount, Books!UpsertBySourceRecord, ChartInv, Books!ChartAgrees, SweepSaysTheSame
<1>4. ASSUME Books!StartSweep PROVE (Books!ChartAgrees /\ SweepSaysTheSame)'
  BY <1>4 DEF Books!StartSweep, ChartInv, Books!ChartAgrees, SweepSaysTheSame
<1>5. ASSUME NEW a \in Accounts, Books!SweepOne(a) PROVE (Books!ChartAgrees /\ SweepSaysTheSame)'
  <2>1. a \in DOMAIN sweep /\ sweep[a] = chart[a] /\ account' = account
    BY <1>5 DEF Books!SweepOne, ChartInv, Books!ChartAgrees, SweepSaysTheSame
  <2>2. chart' = chart
    BY <1>5, <2>1 DEF Books!SweepOne, Books!UpsertBySourceRecord, ChartInv, Books!LedgerTypeOK
  <2>3. \A b \in DOMAIN sweep' : b \in DOMAIN sweep /\ sweep'[b] = sweep[b]
    BY <1>5 DEF Books!SweepOne
  <2> QED
    BY <2>1, <2>2, <2>3 DEF ChartInv, Books!ChartAgrees, SweepSaysTheSame
<1> QED
  BY <1>1, <1>2, <1>3, <1>4, <1>5 DEF Books!BooksNext, ChartInv

-----------------------------------------------------------------------------
LEMMA UpdateKeepsInvoices ==
  ASSUME InvoiceInv, NEW i \in Invoices, NEW row \in Books!Rows, Books!UpdateInvoice(i, row)
  PROVE  InvoiceInv'
<1>1. /\ row.status \in Books!Steps[invoice[i].status]
      /\ saving' = [saving EXCEPT ![i] = Books!Posting(row, Books!MustBook(i, row))]
      /\ UNCHANGED <<invoice, Books!ledgerVars>>
  BY DEF Books!UpdateInvoice
<1>2. Books!Posting(row, Books!MustBook(i, row)) \in [row : Books!Rows, books : BOOLEAN]
  BY DEF Books!Posting, Books!MustBook
<1>3. Books!TypeOK'
  <2>1. Books!LedgerTypeOK'
    BY <1>1 DEF InvoiceInv, Books!TypeOK, Books!LedgerTypeOK, Books!ledgerVars, Books!bookVars
  <2> QED
    BY <1>1, <1>2, <2>1 DEF InvoiceInv, Books!TypeOK
<1>4. Books!InvoicesBooked'
  BY <1>1 DEF InvoiceInv, Books!InvoicesBooked, Books!ledgerVars
<1>5. SavingHolds'
  <2> SUFFICES ASSUME NEW j \in Invoices, saving'[j] # Books!NotSaving
               PROVE  (/\ saving[j].row.status \in Books!Steps[invoice[j].status]
                       /\ saving[j].books = Books!MustBook(j, saving[j].row))'
    BY DEF SavingHolds
  <2>1. journal' = journal /\ invoice' = invoice
    BY <1>1 DEF Books!ledgerVars
  <2>2. CASE j = i
    <3>1. saving'[j] = Books!Posting(row, Books!MustBook(i, row))
      BY <1>1, <2>2 DEF InvoiceInv, Books!TypeOK
    <3> QED
      BY <1>1, <2>1, <2>2, <3>1 DEF Books!Posting, Books!MustBook, Books!ExistsForSource
  <2>3. CASE j # i
    <3>1. saving'[j] = saving[j]
      BY <1>1, <2>3 DEF InvoiceInv, Books!TypeOK
    <3> QED
      BY <2>1, <3>1 DEF InvoiceInv, SavingHolds, Books!MustBook, Books!ExistsForSource
  <2> QED
    BY <2>2, <2>3
<1> QED
  BY <1>3, <1>4, <1>5 DEF InvoiceInv

(* A save that books found no entry, and it has the row since.             *)
LEMMA CommitKeepsInvoices ==
  ASSUME InvoiceInv, NEW i \in Invoices, Books!Commit(i) PROVE InvoiceInv'
<1> DEFINE more == IF saving[i].books THEN 1 ELSE 0
<1>1. /\ saving[i] # Books!NotSaving
      /\ invoice' = [invoice EXCEPT ![i] = saving[i].row]
      /\ journal' = [journal EXCEPT ![i] = @ + more]
      /\ saving' = [saving EXCEPT ![i] = Books!NotSaving]
      /\ UNCHANGED Books!bookVars
  BY DEF Books!Commit
<1>2. saving[i] \in [row : Books!Rows, books : BOOLEAN] /\ journal[i] \in Nat
  BY <1>1 DEF InvoiceInv, Books!TypeOK, Books!LedgerTypeOK
<1>3. more \in Nat /\ DOMAIN journal = Invoices
  BY DEF InvoiceInv, Books!TypeOK, Books!LedgerTypeOK
<1>4. /\ journal'[i] = journal[i] + more /\ invoice'[i] = saving[i].row
      /\ \A j \in Invoices \ {i} : journal'[j] = journal[j] /\ invoice'[j] = invoice[j]
                                  /\ saving'[j] = saving[j]
      /\ saving'[i] = Books!NotSaving
  BY <1>1, <1>3 DEF InvoiceInv, Books!TypeOK
<1>5. Books!TypeOK'
  <2>1. DOMAIN journal' = Invoices /\ \A j \in Invoices : journal'[j] \in Nat
    <3> HIDE DEF more
    <3>1. DOMAIN journal' = Invoices
      BY <1>1, <1>3
    <3>2. \A j \in Invoices : journal[j] \in Nat
      BY DEF InvoiceInv, Books!TypeOK, Books!LedgerTypeOK
    <3> QED
      BY <1>2, <1>3, <1>4, <3>1, <3>2
  <2>2. Books!LedgerTypeOK'
    BY <1>1, <2>1 DEF InvoiceInv, Books!TypeOK, Books!LedgerTypeOK, Books!bookVars
  <2>3. invoice' \in [Invoices -> Books!Rows]
    BY <1>1, <1>2 DEF InvoiceInv, Books!TypeOK
  <2>4. saving' \in [Invoices -> [row : Books!Rows, books : BOOLEAN] \union {Books!NotSaving}]
    BY <1>1 DEF InvoiceInv, Books!TypeOK
  <2> QED
    BY <2>2, <2>3, <2>4 DEF Books!TypeOK
<1>6. /\ saving[i].row.status \in Books!Steps[invoice[i].status]
      /\ saving[i].books = Books!MustBook(i, saving[i].row)
  BY <1>1 DEF InvoiceInv, SavingHolds
<1>7. /\ journal'[i] <= 1
      /\ invoice'[i].status = "issued" /\ invoice'[i].total # 0 => journal'[i] = 1
      /\ invoice'[i].status = "draft" => journal'[i] = 0
  <2>1. CASE saving[i].books
    <3>1. journal'[i] = 1
      BY <1>2, <1>4, <1>6, <2>1 DEF Books!MustBook, Books!ExistsForSource
    <3>2. invoice'[i].status = "issued"
      BY <1>4, <1>6, <2>1 DEF Books!MustBook
    <3> QED
      BY <3>1, <3>2
  <2>2. CASE ~saving[i].books
    <3>1. journal'[i] = journal[i] /\ journal[i] <= 1
      BY <1>2, <1>4, <2>2 DEF InvoiceInv, Books!InvoicesBooked
    <3>2. ASSUME invoice'[i].status = "issued", invoice'[i].total # 0
          PROVE  journal'[i] = 1
      <4>1. journal[i] > 0
        BY <1>4, <1>6, <2>2, <3>2 DEF Books!MustBook, Books!ExistsForSource
      <4> QED
        BY <1>2, <3>1, <4>1
    <3>3. ASSUME invoice'[i].status = "draft" PROVE journal'[i] = 0
      <4>1. invoice[i].status \in DOMAIN Books!Steps
        BY DEF InvoiceInv, Books!TypeOK, Books!Rows
      <4>2. invoice[i].status = "draft"
        BY <1>4, <1>6, <3>3, <4>1, InvoiceStatuses
      <4> QED
        BY <3>1, <4>2 DEF InvoiceInv, Books!InvoicesBooked
    <3> QED
      BY <3>1, <3>2, <3>3
  <2> QED
    BY <2>1, <2>2
<1>8. Books!InvoicesBooked'
  <2> SUFFICES ASSUME NEW j \in Invoices \ {i}
               PROVE  /\ journal'[j] <= 1
                      /\ invoice'[j].status = "issued" /\ invoice'[j].total # 0
                           => journal'[j] = 1
                      /\ invoice'[j].status = "draft" => journal'[j] = 0
    BY <1>7 DEF Books!InvoicesBooked
  <2> QED
    BY <1>4 DEF InvoiceInv, Books!InvoicesBooked
<1>9. SavingHolds'
  BY <1>4 DEF InvoiceInv, SavingHolds, Books!MustBook, Books!ExistsForSource
<1> QED
  BY <1>5, <1>8, <1>9 DEF InvoiceInv

LEMMA RollbackKeepsInvoices ==
  ASSUME InvoiceInv, NEW i \in Invoices, Books!Rollback(i) PROVE InvoiceInv'
<1>1. saving' = [saving EXCEPT ![i] = Books!NotSaving] /\ UNCHANGED <<invoice, Books!ledgerVars>>
  BY DEF Books!Rollback
<1>2. Books!LedgerTypeOK'
  BY <1>1 DEF InvoiceInv, Books!TypeOK, Books!LedgerTypeOK, Books!ledgerVars, Books!bookVars
<1>3. Books!TypeOK'
  BY <1>1, <1>2 DEF InvoiceInv, Books!TypeOK
<1>4. Books!InvoicesBooked'
  BY <1>1 DEF InvoiceInv, Books!InvoicesBooked, Books!ledgerVars
<1>5. SavingHolds'
  BY <1>1 DEF InvoiceInv, Books!TypeOK, SavingHolds, Books!MustBook, Books!ExistsForSource, Books!ledgerVars
<1> QED
  BY <1>3, <1>4, <1>5 DEF InvoiceInv

(* The steps of the books change no entry and no invoice.                  *)
LEMMA BooksKeepInvoices ==
  ASSUME InvoiceInv, Books!BooksNext, UNCHANGED Books!invoiceVars PROVE InvoiceInv'
<1>1. Books!LedgerTypeOK' /\ journal' = journal
  BY BooksKeepTypes DEF InvoiceInv, Books!TypeOK
<1>2. invoice' = invoice /\ saving' = saving
  BY DEF Books!invoiceVars
<1> QED
  BY <1>1, <1>2 DEF InvoiceInv, Books!TypeOK, Books!InvoicesBooked, SavingHolds, Books!MustBook, Books!ExistsForSource

LEMMA InvoicesPreserved ==
  ASSUME InvoiceInv, [Books!Next]_(Books!vars) PROVE InvoiceInv'
<1>1. CASE Books!Next
  BY <1>1, UpdateKeepsInvoices, CommitKeepsInvoices, RollbackKeepsInvoices, BooksKeepInvoices DEF Books!Next
<1>2. CASE UNCHANGED Books!vars
  BY <1>2 DEF Books!vars, Books!invoiceVars, Books!ledgerVars, Books!bookVars, InvoiceInv, Books!TypeOK, Books!LedgerTypeOK,
              Books!InvoicesBooked, SavingHolds, Books!MustBook, Books!ExistsForSource
<1> QED
  BY <1>1, <1>2

(* No invoice changes the chart or the accounts.                           *)
LEMMA ChartPreserved ==
  ASSUME SweepAlone, Books!TypeOK', ChartInv, [Books!Next]_(Books!vars) PROVE ChartInv'
<1>1. CASE Books!BooksNext
  BY <1>1, BooksKeepChart
<1>2. CASE UNCHANGED Books!bookVars
  BY <1>2 DEF Books!TypeOK, ChartInv, Books!ChartAgrees, SweepSaysTheSame, Books!bookVars
<1>3. Books!BooksNext \/ UNCHANGED Books!bookVars
  BY DEF Books!Next, Books!vars, Books!ledgerVars, Books!UpdateInvoice, Books!Commit, Books!Rollback
<1> QED
  BY <1>1, <1>2, <1>3

-----------------------------------------------------------------------------
(* PostCustomerInvoiceToLedger: an issued invoice over something is in the *)
(* ledger once, a draft is not, whatever saves fail and whenever periods   *)
(* close.                                                                  *)
THEOREM InvoicesAreBooked == Books!Spec => []Books!InvoicesBooked
<1>1. Books!Init => InvoiceInv
  BY BooksInit
<1>2. InvoiceInv /\ [Books!Next]_(Books!vars) => InvoiceInv'
  BY InvoicesPreserved
<1>3. InvoiceInv => Books!InvoicesBooked
  BY DEF InvoiceInv
<1> QED
  BY <1>1, <1>2, <1>3, PTL DEF Books!Spec

(* SyncGLAccountOnWrite and SyncGLAccounts: the chart says what the        *)
(* accounts say, if nobody writes an account during a sweep.               *)
THEOREM ChartFollowsAccounts == ASSUME SweepAlone PROVE Books!Spec => []Books!ChartAgrees
<1>1. Books!Init => InvoiceInv /\ ChartInv
  BY BooksInit
<1>2. InvoiceInv /\ ChartInv /\ [Books!Next]_(Books!vars) => (InvoiceInv /\ ChartInv)'
  <2> SUFFICES ASSUME InvoiceInv, ChartInv, [Books!Next]_(Books!vars)
               PROVE  InvoiceInv' /\ ChartInv'
    OBVIOUS
  <2>1. InvoiceInv'
    BY InvoicesPreserved
  <2>2. Books!TypeOK'
    BY <2>1 DEF InvoiceInv
  <2> QED
    BY <2>1, <2>2, ChartPreserved
<1>3. ChartInv => Books!ChartAgrees
  BY DEF ChartInv
<1> QED
  BY <1>1, <1>2, <1>3, PTL DEF Books!Spec

(* A step of the tenant is one of the books, or leaves them alone.         *)
LEMMA BooksStep ==
  ASSUME [WorkNext]_allVars, part = "books"
  PROVE  part' = part /\ (Books!Next \/ UNCHANGED Books!vars)
<1>1. CASE WorkNext
  BY <1>1 DEF WorkNext, ImportStep, SignInStep, AccessStep, MemberStep, TaskStep, BookStep,
              PurchaseStep, AssetStep, SettingsStep, FileStep, OthersRest
<1>2. CASE UNCHANGED allVars
  BY <1>2 DEF allVars, bookVars, Books!vars, Books!ledgerVars, Books!bookVars,
              Books!invoiceVars
<1> QED
  BY <1>1, <1>2

(* In a tenant where no account is written during a sweep, every issued    *)
(* invoice is in the ledger, once, and the chart agrees with the accounts  *)
(* (PostCustomerInvoiceToLedger, SyncGLAccountOnWrite, SyncGLAccounts).    *)
THEOREM TenantInvoicesBooked == ASSUME SweepAlone PROVE WorkSpec => []InvoicesBooked
<1> DEFINE I == part = "books" => InvoiceInv /\ ChartInv
<1>1. WorkInit => I
  BY BooksInit DEF WorkInit
<1>2. I /\ [WorkNext]_allVars => I'
  <2> SUFFICES ASSUME I, [WorkNext]_allVars, part = "books"
               PROVE  InvoiceInv' /\ ChartInv' /\ part' = part
    BY DEF WorkNext, ImportStep, SignInStep, AccessStep, MemberStep, TaskStep, BookStep,
           PurchaseStep, AssetStep, SettingsStep, FileStep, OthersRest, allVars
  <2>1. part' = part /\ [Books!Next]_(Books!vars)
    BY BooksStep
  <2>2. InvoiceInv'
    BY <2>1, InvoicesPreserved
  <2>3. Books!TypeOK'
    BY <2>2 DEF InvoiceInv
  <2> QED
    BY <2>1, <2>2, <2>3, ChartPreserved
<1>3. I => InvoicesBooked
  BY DEF InvoiceInv, ChartInv, InvoicesBooked
<1> QED
  BY <1>1, <1>2, <1>3, PTL DEF WorkSpec

-----------------------------------------------------------------------------
(* Depreciation.                                                           *)

AssetRow == [amount : Nat, posted : BOOLEAN, overridden : BOOLEAN, version : Nat]
AssetRecord ==
  [status : DOMAIN Depreciation!Next_, terms : Schedules \union {<<>>}, counter : Nat, version : Nat]
DueRow == [asset : Assets, gen : Nat, seq : Nat, amount : Nat, version : Nat]
PollerSteps ==
  {"idle", "list", "assets", "row", "read", "lock", "commit", "heal", "transition"}
AssetsType ==
  /\ asset \in [Assets -> AssetRecord] /\ gen \in [Assets -> Nat]
  /\ DOMAIN schedule = Assets
  /\ \A a \in Assets : schedule[a] \in [DOMAIN asset[a].terms -> AssetRow]
  /\ DOMAIN assetJournal \subseteq Assets \X Nat \X Nat
PollersType ==
  /\ host \in [Pollers -> Processes] /\ assetLock \in [Assets -> Pollers \union {Nobody}]
  /\ pc \in [Pollers -> PollerSteps] /\ todo \in [Pollers -> SUBSET DueRow]
  /\ DOMAIN cur = Pollers /\ seen \in [Pollers -> AssetRecord] /\ heal \in [Pollers -> SUBSET Assets]
  /\ inFlight \subseteq Processes

(* An asset that was saved has a schedule to depreciate over.              *)
SavedHasTerms == \A a \in Assets : asset[a].status # "none" => DOMAIN asset[a].terms # {}
Complete(a) == DOMAIN asset[a].terms # {} /\ Depreciation!Posted(a) = DOMAIN asset[a].terms
(* A row that was listed is unposted as long as it has the version listed. *)
Listed(r) ==
  /\ r.gen <= gen[r.asset]
  /\ r.gen = gen[r.asset] =>
       /\ r.seq \in DOMAIN schedule[r.asset]
       /\ r.version <= schedule[r.asset][r.seq].version
       /\ r.version = schedule[r.asset][r.seq].version => ~schedule[r.asset][r.seq].posted
(* A poller that is about to commit holds its asset, and that is as it     *)
(* read it; one about to move an asset has verified its whole schedule.    *)
Batch(p) ==
  /\ \A r \in todo[p] : Listed(r)
  /\ pc[p] \in {"row", "read", "lock", "commit"} => cur[p] \in DueRow /\ Listed(cur[p])
  /\ pc[p] = "lock" =>
       /\ seen[p].version <= asset[cur[p].asset].version
       /\ seen[p].version = asset[cur[p].asset].version => seen[p] = asset[cur[p].asset]
  /\ pc[p] = "commit" => assetLock[cur[p].asset] = p /\ seen[p] = asset[cur[p].asset]
  /\ pc[p] = "transition" => cur[p].asset \in Assets /\ Complete(cur[p].asset)
  /\ \A a \in heal[p] : asset[a].status # "none"
(* A process is marked while one of its pollers, and one only, has a batch. *)
MarkedWhileBusy ==
  /\ \A p, q \in Pollers : pc[p] # "idle" /\ pc[q] # "idle" /\ host[p] = host[q] => p = q
  /\ \A p \in Pollers : pc[p] # "idle" => host[p] \in inFlight
  /\ \A h \in inFlight : \E p \in Pollers : host[p] = h /\ pc[p] # "idle"
AssetsInv ==
  /\ AssetsType /\ PollersType /\ SavedHasTerms /\ saves \in Nat
  /\ Depreciation!CounterCounts /\ Depreciation!BookedOnce
  /\ (\A p \in Pollers : Batch(p)) /\ MarkedWhileBusy

LEMMA TermsCount ==
  ASSUME NEW t \in Schedules \union {<<>>}
  PROVE  /\ \E n \in Nat : DOMAIN t = 1..n /\ Len(t) = n
         /\ t # <<>> => DOMAIN t # {} /\ Len(t) # 0
         /\ \A s \in DOMAIN t : t[s] \in Nat /\ s \in Nat
         /\ t = <<>> => DOMAIN t = {}
<1>1. CASE t = <<>>
  <2>1. DOMAIN t = 1..0 /\ Len(t) = 0 /\ 0 \in Nat /\ 1..0 = {}
    BY <1>1
  <2> QED
    BY <1>1, <2>1
<1>2. CASE t # <<>>
  <2>1. t \in Seq(Nat)
    BY <1>2, AssetsAssumption
  <2>2. /\ Len(t) \in Nat /\ DOMAIN t = 1..Len(t) /\ Len(t) # 0
        /\ \A s \in DOMAIN t : t[s] \in Nat /\ s \in Nat
    BY <1>2, <2>1
  <2>3. 1 \in DOMAIN t
    BY <2>2
  <2> QED
    BY <1>2, <2>2, <2>3
<1> QED
  BY <1>1, <1>2

LEMMA PostedCounts ==
  ASSUME AssetsType, NEW a \in Assets
  PROVE  /\ IsFiniteSet(Depreciation!Posted(a)) /\ Cardinality(Depreciation!Posted(a)) \in Nat
         /\ Depreciation!Posted(a) \subseteq DOMAIN asset[a].terms
         /\ Cardinality(Depreciation!Posted(a)) >= Len(asset[a].terms)
              => Depreciation!Posted(a) = DOMAIN asset[a].terms
<1>1. PICK t \in Schedules \union {<<>>} : t = asset[a].terms
  BY DEF AssetsType, AssetRecord
<1>2. PICK n \in Nat : DOMAIN t = 1..n /\ Len(t) = n
  BY TermsCount
<1>3. PICK P : P = Depreciation!Posted(a)
  OBVIOUS
<1>4. P \subseteq 1..n
  BY <1>1, <1>2, <1>3 DEF AssetsType, Depreciation!Posted
<1>5. IsFiniteSet(1..n) /\ Cardinality(1..n) = n
  BY FS_Interval
<1>6. IsFiniteSet(P) /\ Cardinality(P) <= n /\ (Cardinality(P) = n => P = 1..n)
  BY <1>4, <1>5, FS_Subset
<1>7. Cardinality(P) \in Nat
  BY <1>6, FS_CardinalityType
<1> QED
  BY <1>1, <1>2, <1>3, <1>4, <1>6, <1>7

LEMMA AssetCardinality == \A S : Depreciation!Cardinality(S) = Cardinality(S)
  BY DEF Depreciation!Cardinality, Cardinality

LEMMA NoAssetFacts ==
  /\ Depreciation!NoAsset \in AssetRecord /\ Depreciation!NoAsset.status = "none"
  /\ Depreciation!NoAsset.terms = <<>> /\ Depreciation!NoAsset.counter = 0
  BY DEF Depreciation!NoAsset, AssetRecord, Depreciation!Next_

LEMMA NewVersions ==
  /\ \A x \in AssetRecord :
       LET y == Depreciation!NewVersion(x) IN
       /\ y \in AssetRecord /\ y.status = x.status /\ y.terms = x.terms /\ y.counter = x.counter
       /\ x.version <= y.version /\ x.version # y.version
  /\ \A x \in AssetRow :
       LET y == Depreciation!NewVersion(x) IN
       /\ y \in AssetRow /\ y.posted = x.posted
       /\ x.version <= y.version /\ x.version # y.version
<1>1. ASSUME NEW x \in AssetRecord, NEW y, y = [x EXCEPT !.version = x.version + 1]
      PROVE  /\ y \in AssetRecord /\ y.status = x.status /\ y.terms = x.terms
             /\ y.counter = x.counter /\ x.version <= y.version /\ x.version # y.version
  <2>1. x.version \in Nat /\ x.version + 1 \in Nat
    BY DEF AssetRecord
  <2>2. y \in AssetRecord /\ y.status = x.status /\ y.terms = x.terms /\ y.counter = x.counter
        /\ y.version = x.version + 1
    BY <1>1, <2>1 DEF AssetRecord
  <2> QED
    BY <2>1, <2>2
<1>2. ASSUME NEW x \in AssetRow, NEW y, y = [x EXCEPT !.version = x.version + 1]
      PROVE  /\ y \in AssetRow /\ y.posted = x.posted
             /\ x.version <= y.version /\ x.version # y.version
  <2>1. x.version \in Nat /\ x.version + 1 \in Nat
    BY DEF AssetRow
  <2>2. y \in AssetRow /\ y.posted = x.posted /\ y.version = x.version + 1
    BY <1>2, <2>1 DEF AssetRow
  <2> QED
    BY <2>1, <2>2
<1> QED
  BY <1>1, <1>2 DEF Depreciation!NewVersion

LEMMA AssetsInit == ASSUME Depreciation!Init PROVE AssetsInv
<1>1. \A a \in Assets : asset[a] = Depreciation!NoAsset /\ schedule[a] = <<>> /\ DOMAIN asset[a].terms = {}
  BY NoAssetFacts, TermsCount DEF Depreciation!Init
<1>2. AssetsType
  BY <1>1, NoAssetFacts, TermsCount DEF Depreciation!Init, AssetsType
<1>3. PollersType
  BY NoAssetFacts DEF Depreciation!Init, PollersType, PollerSteps
<1>4. SavedHasTerms
  BY <1>1, NoAssetFacts DEF SavedHasTerms
<1>5. Depreciation!CounterCounts
  <2>1. \A a \in Assets : Depreciation!Posted(a) = {}
    BY <1>1, <1>2, PostedCounts
  <2>2. Cardinality({}) = 0
    BY FS_EmptySet
  <2> QED
    BY <1>1, <2>1, <2>2, NoAssetFacts, AssetCardinality DEF Depreciation!CounterCounts
<1>6. Depreciation!BookedOnce
  BY DEF Depreciation!Init, Depreciation!BookedOnce
<1>7. \A p \in Pollers : Batch(p)
  BY DEF Depreciation!Init, Batch
<1>8. MarkedWhileBusy /\ saves \in Nat
  BY DEF Depreciation!Init, MarkedWhileBusy
<1> QED
  BY <1>2, <1>3, <1>4, <1>5, <1>6, <1>7, <1>8 DEF AssetsInv

-----------------------------------------------------------------------------
LEMMA AssetsAt ==
  ASSUME AssetsInv, NEW a \in Assets
  PROVE  /\ asset[a] \in AssetRecord /\ gen[a] \in Nat /\ asset[a].version \in Nat
         /\ schedule[a] \in [DOMAIN asset[a].terms -> AssetRow]
         /\ DOMAIN schedule[a] = DOMAIN asset[a].terms
         /\ asset[a].terms \in Schedules \union {<<>>}
         /\ asset[a].counter = Cardinality(Depreciation!Posted(a))
         /\ assetLock[a] \in Pollers \union {Nobody}
  BY AssetCardinality DEF AssetsInv, AssetsType, AssetRecord, Depreciation!CounterCounts, PollersType

LEMMA PollersAt ==
  ASSUME AssetsInv, NEW p \in Pollers
  PROVE  /\ pc[p] \in PollerSteps /\ todo[p] \subseteq DueRow /\ seen[p] \in AssetRecord
         /\ heal[p] \subseteq Assets /\ host[p] \in Processes /\ Batch(p)
         /\ pc[p] \in {"row", "read", "lock", "commit"} =>
              cur[p] \in DueRow /\ Listed(cur[p]) /\ cur[p].asset \in Assets
  BY DEF AssetsInv, PollersType, Batch, DueRow

(* What every change of an asset and its schedule keeps: versions rise, a  *)
(* posted row stands, and so does the schedule it is in.                   *)
Forward(a) ==
  /\ gen[a] <= gen'[a]
  /\ gen'[a] = gen[a] =>
       /\ DOMAIN schedule[a] \subseteq DOMAIN schedule'[a]
       /\ \A s \in DOMAIN schedule[a] :
            /\ schedule[a][s].version <= schedule'[a][s].version
            /\ schedule[a][s].version = schedule'[a][s].version
                 => schedule'[a][s].posted = schedule[a][s].posted
  /\ Depreciation!Posted(a) \subseteq Depreciation!Posted(a)'
  /\ Depreciation!Posted(a) # {} =>
       gen'[a] = gen[a] /\ DOMAIN asset'[a].terms = DOMAIN asset[a].terms
  /\ asset[a].version <= asset'[a].version
  /\ asset[a].version = asset'[a].version => asset'[a] = asset[a]
  /\ asset[a].status # "none" => asset'[a].status # "none"

LEMMA ForwardAlike ==
  ASSUME AssetsInv, NEW a \in Assets,
         asset'[a] = asset[a], schedule'[a] = schedule[a], gen'[a] = gen[a]
  PROVE  Forward(a)
<1>1. /\ gen[a] <= gen[a] /\ asset[a].version <= asset[a].version
      /\ \A s \in DOMAIN schedule[a] : schedule[a][s].version <= schedule[a][s].version
  <2>1. \A s \in DOMAIN schedule[a] : schedule[a][s].version \in Nat
    BY AssetsAt DEF AssetRow
  <2> QED
    BY <2>1, AssetsAt
<1>2. Depreciation!Posted(a)' = Depreciation!Posted(a)
  BY DEF Depreciation!Posted
<1> QED
  BY <1>1, <1>2 DEF Forward

LEMMA ListedOn ==
  ASSUME AssetsInv, NEW r \in DueRow, Listed(r), Forward(r.asset), AssetsType'
  PROVE  Listed(r)'
<1>1. PICK a \in Assets : a = r.asset
  BY DEF DueRow
<1>2. r.gen \in Nat /\ r.version \in Nat /\ gen[a] \in Nat /\ gen'[a] \in Nat
  BY <1>1, AssetsAt DEF DueRow, AssetsType
<1>3. r.gen <= gen'[a]
  BY <1>1, <1>2 DEF Listed, Forward
<1>4. ASSUME r.gen = gen'[a]
      PROVE  /\ r.seq \in DOMAIN schedule'[a]
             /\ r.version <= schedule'[a][r.seq].version
             /\ r.version = schedule'[a][r.seq].version => ~schedule'[a][r.seq].posted
  <2>1. gen'[a] = gen[a] /\ r.gen = gen[a]
    BY <1>1, <1>2, <1>4 DEF Listed, Forward
  <2>2. PICK s : s = r.seq
    OBVIOUS
  <2>3. /\ s \in DOMAIN schedule[a] /\ s \in DOMAIN schedule'[a]
        /\ r.version <= schedule[a][s].version
        /\ r.version = schedule[a][s].version => ~schedule[a][s].posted
        /\ schedule[a][s].version <= schedule'[a][s].version
        /\ schedule[a][s].version = schedule'[a][s].version
             => schedule'[a][s].posted = schedule[a][s].posted
    BY <1>1, <2>1, <2>2 DEF Listed, Forward
  <2>4. schedule[a][s].version \in Nat /\ schedule'[a][s].version \in Nat
    <3>1. schedule[a][s] \in AssetRow
      BY <2>3, AssetsAt
    <3>2. schedule'[a][s] \in AssetRow
      BY <2>3 DEF AssetsType
    <3> QED
      BY <3>1, <3>2 DEF AssetRow
  <2> QED
    BY <1>2, <2>2, <2>3, <2>4
<1> QED
  BY <1>1, <1>3, <1>4 DEF Listed

LEMMA CompleteOn ==
  ASSUME AssetsInv, NEW a \in Assets, Complete(a), Forward(a), AssetsType'
  PROVE  Complete(a)'
<1>1. /\ DOMAIN asset'[a].terms = DOMAIN asset[a].terms
      /\ Depreciation!Posted(a) \subseteq Depreciation!Posted(a)'
      /\ DOMAIN asset[a].terms # {} /\ Depreciation!Posted(a) = DOMAIN asset[a].terms
  BY DEF Complete, Forward
<1>2. Depreciation!Posted(a)' \subseteq DOMAIN asset'[a].terms
  BY DEF AssetsType, Depreciation!Posted
<1> QED
  BY <1>1, <1>2 DEF Complete

(* A batch that does not move sees what the others do.                     *)
LEMMA BatchOn ==
  ASSUME AssetsInv, AssetsType', NEW p \in Pollers, \A a \in Assets : Forward(a),
         pc'[p] = pc[p], todo'[p] = todo[p], cur'[p] = cur[p], seen'[p] = seen[p],
         heal'[p] = heal[p],
         \A a \in Assets : assetLock[a] = p => assetLock'[a] = p /\ asset'[a] = asset[a]
  PROVE  Batch(p)'
<1>1. \A r \in todo'[p] : Listed(r)'
  BY PollersAt, ListedOn DEF Batch, DueRow
<1>2. pc'[p] \in {"row", "read", "lock", "commit"} => cur'[p] \in DueRow /\ Listed(cur[p])'
  BY PollersAt, ListedOn
<1>3. pc'[p] = "lock" =>
        /\ seen'[p].version <= asset'[cur[p].asset].version
        /\ seen'[p].version = asset'[cur[p].asset].version => seen'[p] = asset'[cur[p].asset]
  <2> SUFFICES ASSUME pc[p] = "lock"
               PROVE  /\ seen[p].version <= asset'[cur[p].asset].version
                      /\ seen[p].version = asset'[cur[p].asset].version
                           => seen[p] = asset'[cur[p].asset]
    OBVIOUS
  <2>1. PICK a \in Assets : a = cur[p].asset
    BY PollersAt
  <2>2. /\ seen[p].version <= asset[a].version
        /\ seen[p].version = asset[a].version => seen[p] = asset[a]
        /\ asset[a].version <= asset'[a].version
        /\ asset[a].version = asset'[a].version => asset'[a] = asset[a]
    BY <2>1, PollersAt DEF Batch, Forward
  <2>3. seen[p].version \in Nat /\ asset[a].version \in Nat /\ asset'[a].version \in Nat
    BY PollersAt, AssetsAt DEF AssetRecord, AssetsType
  <2> QED
    BY <2>1, <2>2, <2>3
<1>4. pc'[p] = "commit" => assetLock'[cur[p].asset] = p /\ seen'[p] = asset'[cur[p].asset]
  BY PollersAt DEF Batch
<1>5. pc'[p] = "transition" => cur'[p].asset \in Assets /\ Complete(cur[p].asset)'
  BY PollersAt, CompleteOn DEF Batch
<1>6. \A a \in heal'[p] : asset'[a].status # "none"
  BY PollersAt DEF Batch, Forward
<1> QED
  BY <1>1, <1>2, <1>3, <1>4, <1>5, <1>6 DEF Batch

LEMMA BookedOn ==
  ASSUME AssetsInv, \A a \in Assets : Forward(a), assetJournal' = assetJournal
  PROVE  Depreciation!BookedOnce'
<1> SUFFICES ASSUME NEW id \in DOMAIN assetJournal
             PROVE  /\ assetJournal[id] = 1
                    /\ gen'[id[1]] = id[2] /\ id[3] \in Depreciation!Posted(id[1])'
  BY DEF Depreciation!BookedOnce
<1>1. PICK a \in Assets : a = id[1]
  BY DEF AssetsInv, AssetsType
<1>2. assetJournal[id] = 1 /\ gen[a] = id[2] /\ id[3] \in Depreciation!Posted(a)
  BY <1>1 DEF AssetsInv, Depreciation!BookedOnce
<1>3. gen'[a] = gen[a] /\ id[3] \in Depreciation!Posted(a)'
  BY <1>2 DEF Forward
<1> QED
  BY <1>1, <1>2, <1>3

-----------------------------------------------------------------------------
PollersRest ==
  UNCHANGED <<host, assetLock, pc, todo, cur, seen, heal, inFlight>>

(* What a user changes: one asset that no transaction holds.               *)
LEMMA AssetsUser ==
  ASSUME AssetsInv, NEW a \in Assets, AssetsType', Forward(a), PollersRest,
         \A b \in Assets : b # a => asset'[b] = asset[b] /\ schedule'[b] = schedule[b]
                                    /\ gen'[b] = gen[b],
         assetJournal' = assetJournal, DOMAIN asset'[a].terms # {}, saves' \in Nat,
         assetLock[a] = Nobody \/ asset'[a] = asset[a],
         asset'[a].counter = Cardinality(Depreciation!Posted(a)')
  PROVE  AssetsInv' /\ \A b \in Assets : Forward(b)
<1>1. \A b \in Assets : Forward(b)
  BY ForwardAlike
<1>2. \A b \in Assets : assetLock[b] \in Pollers => asset'[b] = asset[b]
  BY AssetsAssumption
<1>3. PollersType' /\ MarkedWhileBusy'
  BY DEF PollersRest, AssetsInv, PollersType, MarkedWhileBusy
<1>4. SavedHasTerms'
  BY DEF AssetsInv, SavedHasTerms
<1>5. Depreciation!CounterCounts'
  <2>1. ASSUME NEW b \in Assets, b # a
        PROVE  asset'[b].counter = Cardinality(Depreciation!Posted(b)')
    <3>1. Depreciation!Posted(b)' = Depreciation!Posted(b)
      BY <2>1 DEF Depreciation!Posted
    <3> QED
      BY <2>1, <3>1, AssetsAt
  <2> QED
    BY <2>1, AssetCardinality DEF Depreciation!CounterCounts
<1>6. Depreciation!BookedOnce'
  BY <1>1, BookedOn
<1>7. \A p \in Pollers : Batch(p)'
  BY <1>1, <1>2, BatchOn DEF PollersRest
<1> QED
  BY <1>1, <1>3, <1>4, <1>5, <1>6, <1>7 DEF AssetsInv

(* The hook accepts a posted schedule only as it is, and what it inserts   *)
(* has nothing posted.                                                     *)
LEMMA AssetsGenerate ==
  ASSUME AssetsInv, NEW a \in Assets, NEW t \in Schedules,
         Depreciation!GenerateDepreciationScheduleOnWrite(a, t)
  PROVE  /\ \/ schedule' = schedule /\ gen' = gen /\ DOMAIN t = DOMAIN asset[a].terms
            \/ /\ Depreciation!Posted(a) = {}
               /\ gen' = [gen EXCEPT ![a] = gen[a] + 1]
               /\ \E x \in [DOMAIN t -> AssetRow] :
                     /\ schedule' = [schedule EXCEPT ![a] = x]
                     /\ \A s \in DOMAIN x : ~x[s].posted
<1>1. CASE Depreciation!ScheduleMatches(a, t)
  BY <1>1, AssetsAt
     DEF Depreciation!GenerateDepreciationScheduleOnWrite, Depreciation!ScheduleMatches
<1>2. CASE ~Depreciation!ScheduleMatches(a, t)
  <2>1. PICK x : x = Depreciation!InsertSchedule(t)
    OBVIOUS
  <2>2. /\ schedule' = [schedule EXCEPT ![a] = x] /\ gen' = [gen EXCEPT ![a] = gen[a] + 1]
        /\ Depreciation!Posted(a) = {}
    BY <1>2, <2>1
       DEF Depreciation!GenerateDepreciationScheduleOnWrite, Depreciation!HookAccepts,
           Depreciation!AnyPosted
  <2>3. x = [s \in DOMAIN t |->
               [amount |-> t[s], posted |-> FALSE, overridden |-> FALSE, version |-> 1]]
    BY <2>1 DEF Depreciation!InsertSchedule
  <2>4. \A s \in DOMAIN t : t[s] \in Nat
    BY TermsCount
  <2>5. x \in [DOMAIN t -> AssetRow] /\ \A s \in DOMAIN x : ~x[s].posted
    BY <2>3, <2>4 DEF AssetRow
  <2> QED
    BY <2>2, <2>5
<1> QED
  BY <1>1, <1>2

LEMMA AssetsSave ==
  ASSUME AssetsInv, NEW a \in Assets, NEW t \in Schedules,
         NEW status \in DOMAIN Depreciation!Next_, Depreciation!SaveAsset(a, status, t)
  PROVE  AssetsInv' /\ \A b \in Assets : Forward(b)
<1>1. PICK o : o = asset[a]
  OBVIOUS
<1>2. PICK z, x : /\ z = [o EXCEPT !.status = status, !.terms = t]
                  /\ x = Depreciation!NewVersion(z)
  OBVIOUS
<1>3. /\ o \in AssetRecord /\ o.counter = Cardinality(Depreciation!Posted(a))
      /\ o.counter \in Nat
  BY <1>1, AssetsAt DEF AssetRecord
<1>4. /\ x \in AssetRecord /\ x.status = status /\ x.terms = t /\ x.counter = o.counter
      /\ o.version <= x.version /\ o.version # x.version
  <2>1. t \in Schedules \union {<<>>}
    OBVIOUS
  <2>2. /\ z \in AssetRecord /\ z.status = status /\ z.terms = t /\ z.counter = o.counter
        /\ z.version = o.version
    BY <1>2, <1>3, <2>1 DEF AssetRecord
  <2> QED
    BY <1>2, <2>2, NewVersions
<1>5. /\ asset' = [asset EXCEPT ![a] = x] /\ assetLock[a] = Nobody /\ status # "none"
      /\ Depreciation!GenerateDepreciationScheduleOnWrite(a, t)
      /\ assetJournal' = assetJournal /\ PollersRest /\ saves' \in Nat
  <2>1. asset' = [asset EXCEPT ![a] = x]
    BY <1>1, <1>2 DEF Depreciation!SaveAsset
  <2>2. status # "none"
    <3>1. \/ status \in Depreciation!Next_[asset[a].status]
          \/ status = asset[a].status /\ status # "none"
      BY Zenon DEF Depreciation!SaveAsset
    <3>2. asset[a].status \in DOMAIN Depreciation!Next_
      BY AssetsAt DEF AssetRecord
    <3>3. \A st \in DOMAIN Depreciation!Next_ : "none" \notin Depreciation!Next_[st]
      BY DEF Depreciation!Next_
    <3> QED
      BY <3>1, <3>2, <3>3
  <2>3. saves' \in Nat
    <3>1. saves \in Nat
      BY DEF AssetsInv
    <3>2. saves' = saves + 1
      BY Zenon DEF Depreciation!SaveAsset
    <3> QED
      BY <3>1, <3>2
  <2> QED
    BY <2>1, <2>2, <2>3
       DEF Depreciation!SaveAsset, Depreciation!pollVars, Depreciation!runnerVars,
           Depreciation!envVars, PollersRest
<1>6. /\ asset'[a] = x /\ \A b \in Assets : b # a => asset'[b] = asset[b]
  BY <1>5 DEF AssetsInv, AssetsType
<1>7. t \in Schedules \union {<<>>} /\ t # <<>> /\ DOMAIN t # {}
  BY TermsCount, AssetsAssumption
<1>9. CASE schedule' = schedule /\ gen' = gen /\ DOMAIN t = DOMAIN asset[a].terms
  <2>1. AssetsType'
    BY <1>4, <1>5, <1>6, <1>9 DEF AssetsInv, AssetsType
  <2>2. Depreciation!Posted(a)' = Depreciation!Posted(a)
    BY <1>9 DEF Depreciation!Posted
  <2>3. Forward(a)
    <3>1. /\ gen[a] <= gen[a]
          /\ \A s \in DOMAIN schedule[a] : schedule[a][s].version <= schedule[a][s].version
      <4>1. \A s \in DOMAIN schedule[a] : schedule[a][s].version \in Nat
        BY AssetsAt DEF AssetRow
      <4> QED
        BY <4>1, AssetsAt
    <3> QED
      BY <1>1, <1>4, <1>5, <1>6, <1>9, <2>2, <3>1 DEF Forward
  <2> QED
    BY <1>1, <1>3, <1>4, <1>5, <1>6, <1>7, <1>9, <2>1, <2>2, <2>3, AssetsUser
<1>10. ASSUME Depreciation!Posted(a) = {}, gen' = [gen EXCEPT ![a] = gen[a] + 1],
              NEW y \in [DOMAIN t -> AssetRow], schedule' = [schedule EXCEPT ![a] = y],
              \A s \in DOMAIN y : ~y[s].posted
       PROVE  AssetsInv' /\ \A b \in Assets : Forward(b)
  <2>1. /\ schedule'[a] = y /\ \A b \in Assets : b # a => schedule'[b] = schedule[b]
        /\ gen'[a] = gen[a] + 1 /\ \A b \in Assets : b # a => gen'[b] = gen[b]
    BY <1>10 DEF AssetsInv, AssetsType
  <2>2. gen[a] \in Nat /\ gen[a] <= gen'[a] /\ gen'[a] # gen[a]
    BY <2>1, AssetsAt
  <2>3. AssetsType'
    <3>1. asset' \in [Assets -> AssetRecord] /\ gen' \in [Assets -> Nat]
      BY <1>4, <1>5, <1>10, <2>2 DEF AssetsInv, AssetsType
    <3>2. DOMAIN schedule' = Assets
      BY <1>10 DEF AssetsInv, AssetsType
    <3>3. \A b \in Assets : schedule'[b] \in [DOMAIN asset'[b].terms -> AssetRow]
      BY <1>4, <1>6, <1>10, <2>1 DEF AssetsInv, AssetsType
    <3> QED
      BY <1>5, <3>1, <3>2, <3>3 DEF AssetsInv, AssetsType
  <2>4. Depreciation!Posted(a)' = {}
    BY <1>10, <2>1 DEF Depreciation!Posted
  <2>5. Forward(a)
    BY <1>1, <1>4, <1>5, <1>6, <1>10, <2>2 DEF Forward
  <2> QED
    BY <1>1, <1>3, <1>4, <1>5, <1>6, <1>7, <1>10, <2>1, <2>3, <2>4, <2>5, AssetsUser
<1> QED
  BY <1>5, <1>9, <1>10, AssetsGenerate

LEMMA AssetsEdit ==
  ASSUME AssetsInv, NEW a \in Assets, NEW s, NEW amount \in Nat,
         Depreciation!EditRow(a, s, amount)
  PROVE  AssetsInv' /\ \A b \in Assets : Forward(b)
<1>1. PICK T, r, term : T = schedule[a] /\ r = T[s] /\ term = asset[a].terms[s]
  OBVIOUS
<1>2. PICK f, z, y : /\ f = (amount # term) /\ z = [r EXCEPT !.amount = amount, !.overridden = f]
                     /\ y = Depreciation!NewVersion(z)
  OBVIOUS
<1>3. PICK x : x = [T EXCEPT ![s] = y]
  OBVIOUS
<1>4. /\ s \in DOMAIN T /\ T \in [DOMAIN asset[a].terms -> AssetRow]
      /\ DOMAIN T = DOMAIN asset[a].terms
  BY <1>1, AssetsAt DEF Depreciation!EditRow
<1>5. r \in AssetRow /\ r.version \in Nat
  BY <1>1, <1>4 DEF AssetRow
<1>6. y \in AssetRow /\ y.posted = r.posted /\ r.version <= y.version /\ r.version # y.version
  <2>1. f \in BOOLEAN
    BY <1>2
  <2>2. z \in AssetRow /\ z.posted = r.posted /\ z.version = r.version
    BY <1>2, <1>5, <2>1 DEF AssetRow
  <2> QED
    BY <1>2, <2>2, NewVersions
<1>7. /\ schedule' = [schedule EXCEPT ![a] = x] /\ PollersRest
      /\ UNCHANGED <<asset, gen, assetJournal>> /\ saves' \in Nat
  BY <1>1, <1>2, <1>3
     DEF AssetsInv, Depreciation!EditRow, Depreciation!Correct, Depreciation!pollVars,
         Depreciation!runnerVars, Depreciation!envVars, PollersRest
<1>8. /\ x \in [DOMAIN asset[a].terms -> AssetRow] /\ DOMAIN x = DOMAIN T /\ x[s] = y
      /\ \A k \in DOMAIN T : k # s => x[k] = T[k]
  BY <1>3, <1>4, <1>6
<1>9. /\ schedule'[a] = x /\ \A b \in Assets : b # a => schedule'[b] = schedule[b]
      /\ DOMAIN schedule' = Assets
  BY <1>7 DEF AssetsInv, AssetsType
<1>10. AssetsType'
  BY <1>7, <1>8, <1>9 DEF AssetsInv, AssetsType
<1>11. Depreciation!Posted(a)' = Depreciation!Posted(a)
  BY <1>1, <1>6, <1>8, <1>9 DEF Depreciation!Posted
<1>12. Forward(a)
  <2>1. gen[a] <= gen[a] /\ asset[a].version <= asset[a].version
    BY AssetsAt
  <2>2. \A k \in DOMAIN T : T[k].version <= x[k].version
                            /\ (T[k].version = x[k].version => x[k].posted = T[k].posted)
    <3>1. \A k \in DOMAIN T : T[k].version \in Nat
      BY <1>4 DEF AssetRow
    <3> QED
      BY <1>1, <1>6, <1>8, <3>1
  <2> QED
    BY <1>1, <1>7, <1>8, <1>9, <1>11, <2>1, <2>2 DEF Forward
<1>13. DOMAIN asset'[a].terms # {}
  BY <1>4, <1>7
<1> QED
  BY <1>7, <1>9, <1>10, <1>11, <1>12, <1>13, AssetsAt, AssetsUser

-----------------------------------------------------------------------------
(* A poller that a step leaves alone, and what it has locked with it.      *)
Rests(q) ==
  /\ pc'[q] = pc[q] /\ todo'[q] = todo[q] /\ cur'[q] = cur[q] /\ seen'[q] = seen[q]
  /\ heal'[q] = heal[q]
  /\ \A a \in Assets : assetLock[a] = q => assetLock'[a] = q /\ asset'[a] = asset[a]

LEMMA AssetsMove ==
  ASSUME AssetsInv, AssetsType', PollersType', SavedHasTerms', saves' = saves,
         Depreciation!CounterCounts', Depreciation!BookedOnce', MarkedWhileBusy',
         \A a \in Assets : Forward(a), \A q \in Pollers : Batch(q)' \/ Rests(q)
  PROVE  AssetsInv'
<1>1. ASSUME NEW q \in Pollers, Rests(q) PROVE Batch(q)'
  BY <1>1, BatchOn DEF Rests
<1> QED
  BY <1>1 DEF AssetsInv

(* Most steps of a poller change no asset and no schedule.                 *)
LEMMA AssetsStill ==
  ASSUME AssetsInv, UNCHANGED <<asset, schedule, gen, assetJournal, saves>>,
         PollersType', MarkedWhileBusy', \A q \in Pollers : Batch(q)' \/ Rests(q)
  PROVE  AssetsInv' /\ \A b \in Assets : Forward(b)
<1>1. \A b \in Assets : Forward(b)
  BY ForwardAlike
<1>2. AssetsType' /\ SavedHasTerms'
  BY DEF AssetsInv, AssetsType, SavedHasTerms
<1>3. Depreciation!CounterCounts'
  <2>1. \A b \in Assets : Depreciation!Posted(b)' = Depreciation!Posted(b)
    BY DEF Depreciation!Posted
  <2> QED
    BY <2>1, AssetsAt, AssetCardinality DEF Depreciation!CounterCounts
<1>4. Depreciation!BookedOnce'
  BY <1>1, BookedOn
<1> QED
  BY <1>1, <1>2, <1>3, <1>4, AssetsMove

(* The step of one poller that has a batch.                                *)
Alone(p) ==
  /\ UNCHANGED <<host, inFlight, saves>> /\ pc[p] # "idle" /\ pc'[p] # "idle" /\ PollersType'
  /\ \A q \in Pollers : q # p =>
       /\ pc'[q] = pc[q] /\ todo'[q] = todo[q] /\ cur'[q] = cur[q] /\ seen'[q] = seen[q]
       /\ heal'[q] = heal[q]
  /\ \A a \in Assets :
       assetLock[a] \in Pollers /\ assetLock[a] # p =>
         assetLock'[a] = assetLock[a] /\ asset'[a] = asset[a]

LEMMA AloneMarks ==
  ASSUME AssetsInv, NEW p \in Pollers, Alone(p)
  PROVE  MarkedWhileBusy' /\ \A q \in Pollers : q # p => Rests(q)
<1>1. \A q \in Pollers : pc'[q] # "idle" <=> pc[q] # "idle"
  BY DEF Alone
<1>2. MarkedWhileBusy'
  BY <1>1 DEF Alone, AssetsInv, MarkedWhileBusy
<1> QED
  BY <1>2 DEF Alone, Rests

(* What a batch has to satisfy when its poller moved and no data did.      *)
LEMMA BatchAt ==
  ASSUME AssetsInv, NEW p \in Pollers, UNCHANGED <<asset, schedule, gen>>,
         NEW c, c = cur'[p], \A r \in todo'[p] : Listed(r),
         pc'[p] \in {"row", "read", "lock", "commit"} => c \in DueRow /\ Listed(c),
         pc'[p] \in {"lock", "commit"} => seen'[p] = asset[c.asset],
         pc'[p] = "commit" => assetLock'[c.asset] = p,
         pc'[p] = "transition" => c.asset \in Assets /\ Complete(c.asset),
         \A a \in heal'[p] : asset[a].status # "none"
  PROVE  Batch(p)'
<1>1. \A r : Listed(r)' <=> Listed(r)
  BY DEF Listed
<1>2. \A a \in Assets : Complete(a)' <=> Complete(a)
  BY DEF Complete, Depreciation!Posted
<1>3. c \in DueRow /\ seen'[p] = asset[c.asset]
        => seen'[p].version <= asset[c.asset].version
  <2>1. c \in DueRow => asset[c.asset].version \in Nat
    BY AssetsAt DEF DueRow
  <2> QED
    BY <2>1
<1> QED
  BY <1>1, <1>2, <1>3 DEF Batch

LEMMA AssetsAlone ==
  ASSUME AssetsInv, NEW p \in Pollers, Alone(p), Batch(p)',
         UNCHANGED <<asset, schedule, gen, assetJournal>>
  PROVE  AssetsInv' /\ \A b \in Assets : Forward(b)
<1>1. \A q \in Pollers : Batch(q)' \/ Rests(q)
  BY AloneMarks
<1> QED
  BY <1>1, AloneMarks, AssetsStill DEF Alone

-----------------------------------------------------------------------------
LEMMA AssetsClaim ==
  ASSUME AssetsInv, NEW p \in Pollers, Depreciation!Claim(p)
  PROVE  AssetsInv' /\ \A b \in Assets : Forward(b)
<1>1. /\ pc[p] = "idle" /\ host[p] \notin inFlight /\ pc' = [pc EXCEPT ![p] = "list"]
      /\ inFlight' = inFlight \union {host[p]}
      /\ UNCHANGED <<asset, schedule, gen, assetJournal, saves, host, assetLock, todo, cur,
                     seen, heal>>
  BY DEF Depreciation!Claim, Depreciation!ShouldPostDepreciation, Depreciation!userVars,
         Depreciation!envVars
<1>2. pc'[p] = "list" /\ \A q \in Pollers : q # p => pc'[q] = pc[q]
  BY <1>1 DEF AssetsInv, PollersType
<1>3. PollersType'
  BY <1>1 DEF AssetsInv, PollersType, PollerSteps
<1>4. MarkedWhileBusy'
  BY <1>1, <1>2 DEF AssetsInv, MarkedWhileBusy
<1>5. Batch(p)'
  <2>1. \A r \in todo'[p] : Listed(r)
    BY <1>1 DEF AssetsInv, Batch
  <2>2. \A a \in heal'[p] : asset[a].status # "none"
    BY <1>1 DEF AssetsInv, Batch
  <2> QED
    BY <1>1, <1>2, <2>1, <2>2, BatchAt
<1>6. \A q \in Pollers : q # p => Rests(q)
  BY <1>1, <1>2 DEF Rests
<1> QED
  BY <1>1, <1>3, <1>4, <1>5, <1>6, AssetsStill

LEMMA WindowsWithin == \A S : \A w \in Depreciation!Windows(S) : w \subseteq S
  BY DEF Depreciation!Windows

LEMMA DueUnpostedListed ==
  ASSUME AssetsInv, NEW r \in Depreciation!DueUnposted
  PROVE  r \in DueRow /\ Listed(r)
<1>1. PICK x \in Assets \X (1..today) :
        /\ x[2] \in Depreciation!Due(x[1])
        /\ r = [asset |-> x[1], gen |-> gen[x[1]], seq |-> x[2],
                amount |-> schedule[x[1]][x[2]].amount,
                version |-> schedule[x[1]][x[2]].version]
  BY Zenon DEF Depreciation!DueUnposted
<1>2. PICK a, s : a \in Assets /\ a = x[1] /\ s = x[2]
  BY <1>1
<1>3. s \in DOMAIN schedule[a] /\ ~schedule[a][s].posted
  BY <1>1, <1>2 DEF Depreciation!Due
<1>4. PICK w : w = schedule[a][s]
  OBVIOUS
<1>5. w \in AssetRow /\ gen[a] \in Nat
  BY <1>2, <1>3, <1>4, AssetsAt
<1>6. s \in Nat
  <2>1. s \in DOMAIN asset[a].terms /\ asset[a].terms \in Schedules \union {<<>>}
    BY <1>2, <1>3, AssetsAt
  <2> QED
    BY <2>1, TermsCount
<1>7. r = [asset |-> a, gen |-> gen[a], seq |-> s, amount |-> w.amount, version |-> w.version]
  BY <1>1, <1>2, <1>4
<1>8. r \in DueRow
  BY <1>2, <1>5, <1>6, <1>7 DEF DueRow, AssetRow
<1>9. Listed(r)
  BY <1>3, <1>4, <1>5, <1>7 DEF Listed, AssetRow
<1> QED
  BY <1>8, <1>9

LEMMA AssetsList ==
  ASSUME AssetsInv, NEW p \in Pollers, Depreciation!ListDueUnposted(p)
  PROVE  AssetsInv' /\ \A b \in Assets : Forward(b)
<1>1. PICK batch : /\ batch \subseteq Depreciation!DueUnposted
                   /\ todo' = [todo EXCEPT ![p] = batch]
  BY WindowsWithin, Zenon DEF Depreciation!ListDueUnposted
<1>2. /\ pc[p] = "list" /\ pc' = [pc EXCEPT ![p] = "assets"]
      /\ UNCHANGED <<asset, schedule, gen, assetJournal, saves, host, assetLock, cur,
                     seen, heal, inFlight>>
  BY DEF Depreciation!ListDueUnposted, Depreciation!userVars, Depreciation!envVars,
         Depreciation!runnerVars
<1>3. batch \subseteq DueRow /\ \A r \in batch : Listed(r)
  BY <1>1, DueUnpostedListed
<1>4. /\ pc'[p] = "assets" /\ todo'[p] = batch
      /\ \A q \in Pollers : q # p => pc'[q] = pc[q] /\ todo'[q] = todo[q]
  BY <1>1, <1>2 DEF AssetsInv, PollersType
<1>5. Alone(p)
  <2>1. PollersType'
    BY <1>1, <1>2, <1>3 DEF AssetsInv, PollersType, PollerSteps
  <2> QED
    BY <1>2, <1>4, <2>1 DEF Alone
<1>6. Batch(p)'
  <2>1. \A a \in heal'[p] : asset[a].status # "none"
    BY <1>2 DEF AssetsInv, Batch
  <2> QED
    BY <1>2, <1>3, <1>4, <2>1, BatchAt
<1> QED
  BY <1>2, <1>5, <1>6, AssetsAlone

LEMMA AssetsCheck ==
  ASSUME AssetsInv, NEW p \in Pollers, NEW r \in todo[p], Depreciation!CheckAsset(p, r)
  PROVE  AssetsInv' /\ \A b \in Assets : Forward(b)
<1>1. /\ pc[p] = "assets"
      /\ UNCHANGED <<asset, schedule, gen, assetJournal, saves, host, assetLock, seen, heal,
                     inFlight>>
  BY DEF Depreciation!CheckAsset, Depreciation!userVars, Depreciation!envVars,
         Depreciation!runnerVars
<1>2. PICK left, s :
        /\ left \subseteq todo[p] /\ s \in {"row", "assets"} /\ DOMAIN cur' = Pollers
        /\ s = "row" => cur'[p] = r
        /\ todo' = [todo EXCEPT ![p] = left] /\ pc' = [pc EXCEPT ![p] = s]
        /\ \A q \in Pollers : q # p => cur'[q] = cur[q]
  <2>1. CASE asset[r.asset].status = "in_service"
    <3>1. /\ cur' = [cur EXCEPT ![p] = r] /\ pc' = [pc EXCEPT ![p] = "row"] /\ todo' = todo
      BY <2>1, Zenon DEF Depreciation!CheckAsset
    <3>2. todo' = [todo EXCEPT ![p] = todo[p]]
      BY <3>1 DEF AssetsInv, PollersType
    <3>3. DOMAIN cur' = Pollers /\ cur'[p] = r /\ \A q \in Pollers : q # p => cur'[q] = cur[q]
      BY <3>1 DEF AssetsInv, PollersType
    <3> QED
      BY <3>1, <3>2, <3>3
  <2>2. CASE asset[r.asset].status # "in_service"
    <3>1. UNCHANGED <<cur, pc>>
      BY <2>2, Zenon DEF Depreciation!CheckAsset
    <3>2. pc' = [pc EXCEPT ![p] = "assets"] /\ DOMAIN cur' = Pollers
      BY <1>1, <3>1 DEF AssetsInv, PollersType
    <3>3. PICK left : left = todo[p] \ Depreciation!OfAsset(p, r.asset)
      OBVIOUS
    <3>4. todo' = [todo EXCEPT ![p] = left] /\ left \subseteq todo[p]
      BY <2>2, <3>3, Zenon DEF Depreciation!CheckAsset
    <3> QED
      BY <3>1, <3>2, <3>4
  <2> QED
    BY <2>1, <2>2
<1>3. /\ pc'[p] = s /\ todo'[p] = left
      /\ \A q \in Pollers : q # p => pc'[q] = pc[q] /\ todo'[q] = todo[q] /\ cur'[q] = cur[q]
  BY <1>2 DEF AssetsInv, PollersType
<1>4. todo[p] \subseteq DueRow /\ \A x \in todo[p] : Listed(x)
  BY PollersAt DEF Batch
<1>5. Alone(p)
  <2>1. left \subseteq DueRow
    BY <1>2, <1>4
  <2>2. PollersType'
    BY <1>1, <1>2, <2>1 DEF AssetsInv, PollersType, PollerSteps
  <2> QED
    BY <1>1, <1>2, <1>3, <2>2 DEF Alone
<1>6. Batch(p)'
  <2>1. \A a \in heal'[p] : asset[a].status # "none"
    BY <1>1 DEF AssetsInv, Batch
  <2>2. PICK c : c = cur'[p]
    OBVIOUS
  <2> QED
    BY <1>1, <1>2, <1>3, <1>4, <2>1, <2>2, BatchAt
<1> QED
  BY <1>1, <1>5, <1>6, AssetsAlone

(* The next of the rows that remain, or the next asset.                    *)
LEMMA AssetsNextRow ==
  ASSUME AssetsInv, NEW p \in Pollers, NEW left \in SUBSET todo[p],
         Depreciation!NextRow(p, left), pc[p] # "idle",
         UNCHANGED <<host, heal, inFlight, saves>>,
         assetLock' \in [Assets -> Pollers \union {Nobody}],
         \A a \in Assets :
           assetLock[a] \in Pollers /\ assetLock[a] # p =>
             assetLock'[a] = assetLock[a] /\ asset'[a] = asset[a]
  PROVE  /\ Alone(p) /\ todo'[p] = left /\ pc'[p] \in {"row", "assets"}
         /\ pc'[p] = "row" => cur'[p] \in left
<1>1. PICK s, c :
        /\ s \in {"row", "assets"} /\ (s = "row" => c \in left)
        /\ pc' = [pc EXCEPT ![p] = s] /\ cur' = [cur EXCEPT ![p] = c]
  <2>1. CASE \E r \in left : r.asset = cur[p].asset
    <3>1. PICK c : c = CHOOSE r \in left : r.asset = cur[p].asset
      OBVIOUS
    <3>2. c \in left
      BY <2>1, <3>1, Zenon
    <3>3. pc' = [pc EXCEPT ![p] = "row"] /\ cur' = [cur EXCEPT ![p] = c]
      BY <2>1, <3>1, Zenon DEF Depreciation!NextRow
    <3> QED
      BY <3>2, <3>3
  <2>2. CASE ~\E r \in left : r.asset = cur[p].asset
    BY <2>2, Zenon DEF Depreciation!NextRow
  <2> QED
    BY <2>1, <2>2
<1>2. /\ todo' = [todo EXCEPT ![p] = left]
      /\ seen' = [seen EXCEPT ![p] = Depreciation!NoAsset]
  BY DEF Depreciation!NextRow
<1>3. /\ pc'[p] = s /\ todo'[p] = left /\ cur'[p] = c
      /\ \A q \in Pollers : q # p =>
           pc'[q] = pc[q] /\ todo'[q] = todo[q] /\ cur'[q] = cur[q] /\ seen'[q] = seen[q]
  BY <1>1, <1>2 DEF AssetsInv, PollersType
<1>4. PollersType'
  <2>1. left \subseteq DueRow
    BY PollersAt
  <2>2. pc' \in [Pollers -> PollerSteps] /\ todo' \in [Pollers -> SUBSET DueRow]
    BY <1>1, <1>2, <2>1 DEF AssetsInv, PollersType, PollerSteps
  <2>3. DOMAIN cur' = Pollers /\ seen' \in [Pollers -> AssetRecord]
    BY <1>1, <1>2, NoAssetFacts DEF AssetsInv, PollersType
  <2> QED
    BY <2>2, <2>3 DEF AssetsInv, PollersType
<1>5. Alone(p)
  BY <1>1, <1>3, <1>4 DEF Alone
<1> QED
  BY <1>1, <1>3, <1>5

(* A row that is skipped, or whose posting failed: the batch goes on.      *)
LEMMA AssetsSkip ==
  ASSUME AssetsInv, NEW p \in Pollers, NEW left \in SUBSET todo[p],
         Depreciation!NextRow(p, left), pc[p] # "idle",
         UNCHANGED <<asset, schedule, gen, assetJournal, host, heal, inFlight, saves>>,
         assetLock' \in [Assets -> Pollers \union {Nobody}],
         \A a \in Assets :
           assetLock[a] \in Pollers /\ assetLock[a] # p => assetLock'[a] = assetLock[a]
  PROVE  AssetsInv' /\ \A b \in Assets : Forward(b)
<1>1. /\ Alone(p) /\ todo'[p] = left /\ pc'[p] \in {"row", "assets"}
      /\ pc'[p] = "row" => cur'[p] \in left
  BY AssetsNextRow
<1>2. todo[p] \subseteq DueRow /\ \A x \in todo[p] : Listed(x)
  BY PollersAt DEF Batch
<1>3. \A a \in heal'[p] : asset[a].status # "none"
  BY DEF AssetsInv, Batch
<1>4. PICK c : c = cur'[p]
  OBVIOUS
<1>5. Batch(p)'
  BY <1>1, <1>2, <1>3, <1>4, BatchAt
<1> QED
  BY <1>1, <1>5, AssetsAlone

LEMMA AssetsStartRow ==
  ASSUME AssetsInv, NEW p \in Pollers, Depreciation!StartRow(p)
  PROVE  AssetsInv' /\ \A b \in Assets : Forward(b)
<1>1. /\ pc[p] = "row"
      /\ UNCHANGED <<asset, schedule, gen, assetJournal, saves, host, assetLock, heal, inFlight>>
  BY DEF Depreciation!StartRow, Depreciation!userVars, Depreciation!envVars,
         Depreciation!runnerVars
<1>2. assetLock' \in [Assets -> Pollers \union {Nobody}]
  BY <1>1 DEF AssetsInv, PollersType
<1>3. CASE Depreciation!NextRow(p, todo[p] \ {cur[p]})
  <2>1. PICK left \in SUBSET todo[p] : left = todo[p] \ {cur[p]}
    OBVIOUS
  <2>2. Depreciation!NextRow(p, left)
    BY <1>3, <2>1
  <2> QED
    BY <1>1, <1>2, <2>2, AssetsSkip
<1>4. CASE pc' = [pc EXCEPT ![p] = "read"] /\ UNCHANGED <<todo, cur, seen>>
  <2>1. pc'[p] = "read" /\ \A q \in Pollers : q # p => pc'[q] = pc[q]
    BY <1>4 DEF AssetsInv, PollersType
  <2>2. Alone(p)
    <3>1. PollersType'
      BY <1>1, <1>4 DEF AssetsInv, PollersType, PollerSteps
    <3> QED
      BY <1>1, <1>4, <2>1, <3>1 DEF Alone
  <2>3. Batch(p)'
    <3>1. \A r \in todo'[p] : Listed(r)
      BY <1>4 DEF AssetsInv, Batch
    <3>2. \A a \in heal'[p] : asset[a].status # "none"
      BY <1>1 DEF AssetsInv, Batch
    <3>3. PICK c : c = cur[p]
      OBVIOUS
    <3>4. c = cur'[p] /\ c \in DueRow /\ Listed(c)
      BY <1>1, <1>4, <3>3, PollersAt
    <3> QED
      BY <1>1, <2>1, <3>1, <3>2, <3>4, BatchAt
  <2> QED
    BY <1>1, <2>2, <2>3, AssetsAlone
<1> QED
  BY <1>3, <1>4, Zenon DEF Depreciation!StartRow

LEMMA AssetsRead ==
  ASSUME AssetsInv, NEW p \in Pollers, Depreciation!ReadAsset(p)
  PROVE  AssetsInv' /\ \A b \in Assets : Forward(b)
<1>1. /\ pc[p] = "read" /\ pc' = [pc EXCEPT ![p] = "lock"]
      /\ seen' = [seen EXCEPT ![p] = asset[cur[p].asset]]
      /\ UNCHANGED <<asset, schedule, gen, assetJournal, saves, host, assetLock, todo, cur,
                     heal, inFlight>>
  BY DEF Depreciation!ReadAsset, Depreciation!userVars, Depreciation!envVars,
         Depreciation!runnerVars
<1>2. PICK c : c = cur[p]
  OBVIOUS
<1>3. c = cur'[p] /\ c \in DueRow /\ Listed(c) /\ c.asset \in Assets
  BY <1>1, <1>2, PollersAt
<1>4. asset[c.asset] \in AssetRecord
  BY <1>3, AssetsAt
<1>5. /\ pc'[p] = "lock" /\ seen'[p] = asset[c.asset]
      /\ \A q \in Pollers : q # p => pc'[q] = pc[q] /\ seen'[q] = seen[q]
  BY <1>1, <1>2 DEF AssetsInv, PollersType
<1>6. Alone(p)
  <2>1. PollersType'
    BY <1>1, <1>2, <1>4 DEF AssetsInv, PollersType, PollerSteps
  <2> QED
    BY <1>1, <1>5, <2>1 DEF Alone
<1>7. Batch(p)'
  <2>1. \A r \in todo'[p] : Listed(r)
    BY <1>1 DEF AssetsInv, Batch
  <2>2. \A a \in heal'[p] : asset[a].status # "none"
    BY <1>1 DEF AssetsInv, Batch
  <2> QED
    BY <1>1, <1>3, <1>5, <2>1, <2>2, BatchAt
<1> QED
  BY <1>1, <1>6, <1>7, AssetsAlone

LEMMA AssetsLock ==
  ASSUME AssetsInv, NEW p \in Pollers, Depreciation!LockAsset(p)
  PROVE  AssetsInv' /\ \A b \in Assets : Forward(b)
<1>1. PICK c, a : c = cur[p] /\ a = c.asset
  OBVIOUS
<1>2. /\ pc[p] = "lock" /\ assetLock[a] = Nobody
      /\ UNCHANGED <<asset, schedule, gen, assetJournal, saves, host, heal, inFlight>>
  BY <1>1 DEF Depreciation!LockAsset, Depreciation!userVars, Depreciation!envVars,
              Depreciation!runnerVars
<1>3. c \in DueRow /\ Listed(c) /\ a \in Assets
  BY <1>1, <1>2, PollersAt
<1>4. CASE Depreciation!RowFails(p) /\ UNCHANGED assetLock
  <2>1. PICK left \in SUBSET todo[p] : left = todo[p] \ Depreciation!OfAsset(p, cur[p].asset)
    OBVIOUS
  <2>2. Depreciation!NextRow(p, left)
    BY <1>4, <2>1 DEF Depreciation!RowFails
  <2>3. assetLock' \in [Assets -> Pollers \union {Nobody}]
    BY <1>4 DEF AssetsInv, PollersType
  <2> QED
    BY <1>2, <1>4, <2>2, <2>3, AssetsSkip
<1>5. CASE /\ Depreciation!SameVersion(p) /\ assetLock' = [assetLock EXCEPT ![a] = p]
           /\ pc' = [pc EXCEPT ![p] = "commit"] /\ UNCHANGED <<todo, cur, seen>>
  <2>1. seen[p] = asset[a]
    BY <1>1, <1>2, <1>5, PollersAt DEF Batch, Depreciation!SameVersion
  <2>2. /\ pc'[p] = "commit" /\ \A q \in Pollers : q # p => pc'[q] = pc[q]
        /\ assetLock'[a] = p /\ \A b \in Assets : b # a => assetLock'[b] = assetLock[b]
    BY <1>3, <1>5 DEF AssetsInv, PollersType
  <2>3. Alone(p)
    <3>1. PollersType'
      BY <1>2, <1>5 DEF AssetsInv, PollersType, PollerSteps
    <3> QED
      BY <1>2, <1>5, <2>2, <3>1, AssetsAssumption DEF Alone
  <2>4. Batch(p)'
    <3>1. \A r \in todo'[p] : Listed(r)
      BY <1>5 DEF AssetsInv, Batch
    <3>2. \A b \in heal'[p] : asset[b].status # "none"
      BY <1>2 DEF AssetsInv, Batch
    <3>3. c = cur'[p] /\ seen'[p] = asset[c.asset] /\ assetLock'[c.asset] = p
      BY <1>1, <1>5, <2>1, <2>2
    <3> QED
      BY <1>2, <1>3, <2>2, <3>1, <3>2, <3>3, BatchAt
  <2> QED
    BY <1>2, <2>3, <2>4, AssetsAlone
<1> QED
  BY <1>1, <1>4, <1>5, Zenon DEF Depreciation!LockAsset

(* The posting of a row that is as it was listed: the asset is locked and  *)
(* as it was read, so the counter counts the row too.                      *)
LEMMA AssetsPost ==
  ASSUME AssetsInv, NEW a \in Assets, NEW s \in Nat,
         s \in DOMAIN schedule[a], ~schedule[a][s].posted,
         NEW y \in AssetRow, y.posted, schedule[a][s].version <= y.version,
         schedule[a][s].version # y.version,
         NEW z \in AssetRecord, z.status = asset[a].status, z.terms = asset[a].terms,
         z.counter = asset[a].counter + 1, asset[a].version <= z.version,
         asset[a].version # z.version,
         schedule' = [schedule EXCEPT ![a] = [schedule[a] EXCEPT ![s] = y]],
         asset' = [asset EXCEPT ![a] = z], gen' = gen,
         \/ assetJournal' = assetJournal
         \/ /\ DOMAIN assetJournal' = DOMAIN assetJournal \union {<<a, gen[a], s>>}
            /\ \A id \in DOMAIN assetJournal' :
                 assetJournal'[id] = Depreciation!Booked(id)
                                       + IF id = <<a, gen[a], s>> THEN 1 ELSE 0
  PROVE  /\ AssetsType' /\ SavedHasTerms' /\ Depreciation!CounterCounts'
         /\ Depreciation!BookedOnce' /\ \A b \in Assets : Forward(b)
<1>1. PICK o, T, i : o = asset[a] /\ T = schedule[a] /\ i = <<a, gen[a], s>>
  OBVIOUS
<1>2. /\ o \in AssetRecord /\ T \in [DOMAIN o.terms -> AssetRow] /\ DOMAIN T = DOMAIN o.terms
      /\ o.counter = Cardinality(Depreciation!Posted(a)) /\ gen[a] \in Nat
  BY <1>1, AssetsAt
<1>3. PICK X : X = [T EXCEPT ![s] = y]
  OBVIOUS
<1>4. /\ s \in DOMAIN T /\ ~T[s].posted /\ T[s].version <= y.version
      /\ T[s].version # y.version
  BY <1>1
<1>5. /\ z.status = o.status /\ z.terms = o.terms /\ z.counter = o.counter + 1
      /\ o.version <= z.version /\ o.version # z.version
  BY <1>1
<1>6. /\ X \in [DOMAIN o.terms -> AssetRow] /\ DOMAIN X = DOMAIN T /\ X[s] = y
      /\ \A k \in DOMAIN T : k # s => X[k] = T[k]
  BY <1>2, <1>3, <1>4
<1>7. /\ schedule'[a] = X /\ \A b \in Assets : b # a => schedule'[b] = schedule[b]
      /\ asset'[a] = z /\ \A b \in Assets : b # a => asset'[b] = asset[b]
      /\ DOMAIN schedule' = Assets /\ asset' \in [Assets -> AssetRecord]
  BY <1>1, <1>3 DEF AssetsInv, AssetsType
<1>8. /\ Depreciation!Posted(a)' = Depreciation!Posted(a) \union {s}
      /\ s \notin Depreciation!Posted(a)
  <2>1. Depreciation!Posted(a)' = {k \in DOMAIN X : X[k].posted}
    BY <1>1, <1>4, <1>5, <1>6, <1>7 DEF Depreciation!Posted
  <2>2. Depreciation!Posted(a) = {k \in DOMAIN T : T[k].posted}
    BY <1>1, <1>4, <1>5, <1>6 DEF Depreciation!Posted
  <2> QED
    BY <1>1, <1>4, <1>5, <1>6, <2>1, <2>2
<1>9. \A b \in Assets : Forward(b)
  <2>1. Forward(a)
    <3>1. gen[a] <= gen[a]
      BY <1>1, <1>4, <1>5, <1>6, <1>2
    <3>2. \A k \in DOMAIN T : T[k].version <= X[k].version
                              /\ (T[k].version = X[k].version => X[k].posted = T[k].posted)
      <4>1. \A k \in DOMAIN T : T[k].version \in Nat
        BY <1>1, <1>4, <1>5, <1>6, <1>2 DEF AssetRow
      <4> QED
        BY <1>1, <1>4, <1>5, <1>6, <4>1
    <3> QED
      BY <1>1, <1>4, <1>5, <1>6, <1>7, <1>8, <3>1, <3>2 DEF Forward
  <2> QED
    BY <1>1, <1>4, <1>5, <1>6, <1>7, <2>1, ForwardAlike
<1>11. i \in Assets \X Nat \X Nat
  BY <1>1, <1>4, <1>5, <1>6, <1>2
<1>12. AssetsType'
  <2>1. DOMAIN assetJournal' \subseteq Assets \X Nat \X Nat
    <3>1. DOMAIN assetJournal' \subseteq DOMAIN assetJournal \union {i}
      BY <1>1
    <3> QED
      BY <1>1, <1>4, <1>5, <1>6, <1>11, <3>1 DEF AssetsInv, AssetsType
  <2>2. \A b \in Assets : schedule'[b] \in [DOMAIN asset'[b].terms -> AssetRow]
    BY <1>1, <1>4, <1>5, <1>6, <1>7, AssetsAt
  <2> QED
    BY <1>1, <1>4, <1>5, <1>6, <1>7, <2>1, <2>2 DEF AssetsInv, AssetsType
<1>13. SavedHasTerms'
  BY <1>1, <1>4, <1>5, <1>6, <1>7 DEF AssetsInv, SavedHasTerms
<1>14. Depreciation!CounterCounts'
  <2>1. asset'[a].counter = Cardinality(Depreciation!Posted(a)')
    <3>1. PICK P : P = Depreciation!Posted(a)
      BY <1>1
    <3>2. IsFiniteSet(P) /\ s \notin P
      BY <1>1, <1>4, <1>5, <1>6, <1>8, <3>1, PostedCounts DEF AssetsInv
    <3>3. Cardinality(P \union {s}) = Cardinality(P) + 1
      BY <1>1, <1>4, <1>5, <1>6, <3>2, FS_AddElement
    <3> QED
      BY <1>1, <1>4, <1>5, <1>6, <1>2, <1>7, <1>8, <3>1, <3>3
  <2>2. ASSUME NEW b \in Assets, b # a
        PROVE  asset'[b].counter = Cardinality(Depreciation!Posted(b)')
    <3>1. Depreciation!Posted(b)' = Depreciation!Posted(b)
      BY <1>1, <1>4, <1>5, <1>6, <1>7, <2>2 DEF Depreciation!Posted
    <3> QED
      BY <1>1, <1>4, <1>5, <1>6, <1>7, <2>2, <3>1, AssetsAt
  <2> QED
    BY <1>1, <1>4, <1>5, <1>6, <2>1, <2>2, AssetCardinality DEF Depreciation!CounterCounts
<1>15. Depreciation!BookedOnce'
  <2>1. CASE assetJournal' = assetJournal
    BY <1>1, <1>4, <1>5, <1>6, <1>9, <2>1, BookedOn
  <2>2. CASE assetJournal' # assetJournal
    <3> SUFFICES ASSUME NEW id \in DOMAIN assetJournal'
                 PROVE  /\ assetJournal'[id] = 1
                        /\ gen'[id[1]] = id[2] /\ id[3] \in Depreciation!Posted(id[1])'
      BY <1>1, <1>4, <1>5, <1>6 DEF Depreciation!BookedOnce
    <3>1. /\ id \in DOMAIN assetJournal \union {i}
          /\ assetJournal'[id] = Depreciation!Booked(id) + IF id = i THEN 1 ELSE 0
      BY <1>1, <1>4, <1>5, <1>6, <2>2
    <3>2. \A d \in DOMAIN assetJournal :
            /\ assetJournal[d] = 1 /\ gen[d[1]] = d[2]
            /\ d[3] \in Depreciation!Posted(d[1]) /\ d[1] \in Assets
      BY <1>1, <1>4, <1>5, <1>6 DEF AssetsInv, AssetsType, Depreciation!BookedOnce
    <3>3. i \notin DOMAIN assetJournal
      BY <1>1, <1>4, <1>5, <1>6, <1>8, <1>11, <3>2
    <3>4. CASE id = i
      BY <1>1, <1>4, <1>5, <1>6, <1>8, <1>11, <3>1, <3>3, <3>4 DEF Depreciation!Booked
    <3>5. CASE id # i
      <4>1. assetJournal'[id] = 1
        BY <1>1, <1>4, <1>5, <1>6, <3>1, <3>2, <3>5 DEF Depreciation!Booked
      <4>2. PICK b \in Assets : b = id[1]
        BY <1>1, <1>4, <1>5, <1>6, <3>1, <3>2, <3>5
      <4>3. gen'[b] = id[2] /\ id[3] \in Depreciation!Posted(b)'
        BY <1>1, <1>4, <1>5, <1>6, <1>9, <3>1, <3>2, <3>5, <4>2 DEF Forward
      <4> QED
        BY <1>1, <1>4, <1>5, <1>6, <4>1, <4>2, <4>3
    <3> QED
      BY <1>1, <1>4, <1>5, <1>6, <3>4, <3>5
  <2> QED
    BY <1>1, <1>4, <1>5, <1>6, <2>1, <2>2
<1> QED
  BY <1>1, <1>4, <1>5, <1>6, <1>9, <1>12, <1>13, <1>14, <1>15

LEMMA AssetsCommit ==
  ASSUME AssetsInv, NEW p \in Pollers, Depreciation!CommitRow(p)
  PROVE  AssetsInv' /\ \A b \in Assets : Forward(b)
<1>1. PICK c, a : c = cur[p] /\ a = c.asset
  OBVIOUS
<1>2. /\ pc[p] = "commit" /\ assetLock' = [assetLock EXCEPT ![a] = Nobody]
      /\ UNCHANGED <<gen, saves, host, heal, inFlight>>
  BY <1>1 DEF Depreciation!CommitRow, Depreciation!envVars, Depreciation!runnerVars
<1>3. /\ c \in DueRow /\ Listed(c) /\ a \in Assets /\ assetLock[a] = p /\ seen[p] = asset[a]
  BY <1>1, <1>2, PollersAt DEF Batch
<1>4. /\ assetLock' \in [Assets -> Pollers \union {Nobody}]
      /\ \A b \in Assets : assetLock[b] # p => b # a /\ assetLock'[b] = assetLock[b]
  BY <1>2, <1>3 DEF AssetsInv, PollersType
<1>5. CASE Depreciation!RowFails(p) /\ UNCHANGED <<schedule, asset, assetJournal>>
  <2>1. PICK left \in SUBSET todo[p] : left = todo[p] \ Depreciation!OfAsset(p, cur[p].asset)
    OBVIOUS
  <2>2. Depreciation!NextRow(p, left)
    BY <1>5, <2>1 DEF Depreciation!RowFails
  <2> QED
    BY <1>2, <1>4, <1>5, <2>2, AssetsSkip
<1>6. CASE Depreciation!RowUnchanged(c)
  <2>1. PICK s, o, T, w : s = c.seq /\ o = asset[a] /\ T = schedule[a] /\ w = T[s]
    OBVIOUS
  <2>2. PICK n, v, u : /\ n = o.counter + 1
                       /\ v = [w EXCEPT !.amount = c.amount, !.posted = TRUE]
                       /\ u = [o EXCEPT !.counter = n]
    OBVIOUS
  <2>3. PICK y, z, X : /\ y = Depreciation!NewVersion(v) /\ z = Depreciation!NewVersion(u)
                       /\ X = [T EXCEPT ![s] = y]
    OBVIOUS
  <2>4. schedule' = [schedule EXCEPT ![a] = X] /\ asset' = [asset EXCEPT ![a] = z]
    <3>1. schedule' = [schedule EXCEPT ![a] = X]
      BY <1>1, <1>6, <2>1, <2>2, <2>3 DEF Depreciation!CommitRow
    <3>2. asset' = [asset EXCEPT ![a] = z]
      BY <1>1, <1>3, <1>6, <2>1, <2>2, <2>3 DEF Depreciation!CommitRow
    <3> QED
      BY <3>1, <3>2
  <2>5. assetJournal' = IF c.amount = 0 THEN assetJournal
                        ELSE [id \in DOMAIN assetJournal \union {Depreciation!Id(c)} |->
                                Depreciation!Booked(id)
                                  + IF id = Depreciation!Id(c) THEN 1 ELSE 0]
    BY <1>1, <1>6, Zenon DEF Depreciation!CommitRow
  <2>6. /\ AssetsType' /\ SavedHasTerms' /\ Depreciation!CounterCounts'
        /\ Depreciation!BookedOnce' /\ \A b \in Assets : Forward(b)
    <3>1. /\ gen[a] = c.gen /\ s \in DOMAIN T /\ ~w.posted /\ s \in Nat
      BY <1>1, <1>3, <1>6, <2>1 DEF Depreciation!RowUnchanged, Listed, DueRow
    <3>2. /\ o \in AssetRecord /\ T \in [DOMAIN o.terms -> AssetRow]
          /\ DOMAIN T = DOMAIN o.terms
      BY <1>3, <2>1, AssetsAt
    <3>3. w \in AssetRow
      BY <2>1, <3>1, <3>2
    <3>4. /\ y \in AssetRow /\ y.posted /\ w.version <= y.version /\ w.version # y.version
      <4>1. c.amount \in Nat
        BY <1>3 DEF DueRow
      <4>2. v \in AssetRow /\ v.posted = TRUE /\ v.version = w.version
        BY <2>2, <3>3, <4>1 DEF AssetRow
      <4> QED
        BY <2>3, <4>2, NewVersions
    <3>5. /\ z \in AssetRecord /\ z.status = o.status /\ z.terms = o.terms
          /\ z.counter = o.counter + 1 /\ o.version <= z.version /\ o.version # z.version
      <4>1. n \in Nat
        BY <2>2, <3>2 DEF AssetRecord
      <4>2. /\ u \in AssetRecord /\ u.status = o.status /\ u.terms = o.terms /\ u.counter = n
            /\ u.version = o.version
        BY <2>2, <3>2, <4>1 DEF AssetRecord
      <4> QED
        BY <2>2, <2>3, <4>2, NewVersions
    <3>8. Depreciation!Id(c) = <<a, gen[a], s>>
      BY <1>1, <2>1, <3>1 DEF Depreciation!Id
    <3>9. \/ assetJournal' = assetJournal
          \/ /\ DOMAIN assetJournal' = DOMAIN assetJournal \union {<<a, gen[a], s>>}
             /\ \A id \in DOMAIN assetJournal' :
                  assetJournal'[id] = Depreciation!Booked(id)
                                        + IF id = <<a, gen[a], s>> THEN 1 ELSE 0
      BY <2>5, <3>8
    <3>10. gen' = gen /\ schedule' = [schedule EXCEPT ![a] = [schedule[a] EXCEPT ![s] = y]]
           /\ asset' = [asset EXCEPT ![a] = z]
      BY <1>2, <2>1, <2>3, <2>4
    <3>11. /\ s \in DOMAIN schedule[a] /\ ~schedule[a][s].posted
           /\ schedule[a][s].version <= y.version /\ schedule[a][s].version # y.version
      BY <2>1, <3>1, <3>4
    <3>12. /\ z.status = asset[a].status /\ z.terms = asset[a].terms
           /\ z.counter = asset[a].counter + 1 /\ asset[a].version <= z.version
           /\ asset[a].version # z.version
      BY <2>1, <3>5
    <3> QED
      BY <1>3, <3>1, <3>4, <3>5, <3>9, <3>10, <3>11, <3>12, AssetsPost
  <2>7. PICK left \in SUBSET todo[p] : left = todo[p] \ {c}
    OBVIOUS
  <2>8. Depreciation!NextRow(p, left)
    BY <1>1, <1>6, <2>7, Zenon DEF Depreciation!CommitRow
  <2>9. \A b \in Assets : assetLock[b] \in Pollers /\ assetLock[b] # p =>
          assetLock'[b] = assetLock[b] /\ asset'[b] = asset[b]
    BY <1>4, <2>4 DEF AssetsInv, AssetsType
  <2>10. /\ Alone(p) /\ todo'[p] = left /\ pc'[p] \in {"row", "assets"}
         /\ pc'[p] = "row" => cur'[p] \in left
    BY <1>2, <1>4, <2>8, <2>9, AssetsNextRow
  <2>11. \A r \in left : r \in DueRow /\ Listed(r)'
    BY <2>6, PollersAt, ListedOn DEF Batch, DueRow
  <2>12. \A b \in heal'[p] : asset'[b].status # "none"
    BY <1>2, <2>6, PollersAt DEF Batch, Forward
  <2>13. PICK d : d = cur'[p]
    OBVIOUS
  <2>14. pc'[p] = "row" => d \in DueRow /\ Listed(d)'
    BY <2>10, <2>11, <2>13
  <2>15. Batch(p)'
    BY <2>10, <2>11, <2>12, <2>13, <2>14 DEF Batch, Listed
  <2>16. \A q \in Pollers : Batch(q)' \/ Rests(q)
    BY <2>10, <2>15, AloneMarks
  <2> QED
    BY <2>6, <2>10, <2>16, AloneMarks, AssetsMove DEF Alone
<1> QED
  BY <1>1, <1>5, <1>6, Zenon DEF Depreciation!CommitRow

LEMMA AssetsListHeal ==
  ASSUME AssetsInv, NEW p \in Pollers, Depreciation!ListHeal(p)
  PROVE  AssetsInv' /\ \A b \in Assets : Forward(b)
<1>1. PICK found : /\ found \subseteq Depreciation!LifeCompleteGroupIDs
                   /\ heal' = [heal EXCEPT ![p] = found]
  BY WindowsWithin, Zenon DEF Depreciation!ListHeal
<1>2. /\ pc[p] = "assets" /\ pc' = [pc EXCEPT ![p] = "heal"]
      /\ UNCHANGED <<asset, schedule, gen, assetJournal, saves, host, assetLock, todo, cur,
                     seen, inFlight>>
  BY DEF Depreciation!ListHeal, Depreciation!userVars, Depreciation!envVars,
         Depreciation!runnerVars
<1>3. found \subseteq Assets /\ \A a \in found : asset[a].status # "none"
  BY <1>1 DEF Depreciation!LifeCompleteGroupIDs
<1>4. /\ pc'[p] = "heal" /\ heal'[p] = found
      /\ \A q \in Pollers : q # p => pc'[q] = pc[q] /\ heal'[q] = heal[q]
  BY <1>1, <1>2 DEF AssetsInv, PollersType
<1>5. Alone(p)
  <2>1. PollersType'
    BY <1>1, <1>2, <1>3 DEF AssetsInv, PollersType, PollerSteps
  <2> QED
    BY <1>2, <1>4, <2>1 DEF Alone
<1>6. Batch(p)'
  <2>1. \A r \in todo'[p] : Listed(r)
    BY <1>2 DEF AssetsInv, Batch
  <2>2. PICK c : c = cur'[p]
    OBVIOUS
  <2> QED
    BY <1>2, <1>3, <1>4, <2>1, <2>2, BatchAt
<1> QED
  BY <1>2, <1>5, <1>6, AssetsAlone

(* An asset with as many posted rows as periods has its schedule posted.   *)
LEMMA AssetsVerify ==
  ASSUME AssetsInv, NEW p \in Pollers, NEW a \in Assets, Depreciation!Verify(p, a)
  PROVE  AssetsInv' /\ \A b \in Assets : Forward(b)
<1>1. /\ pc[p] = "heal" /\ a \in heal[p] /\ heal' = [heal EXCEPT ![p] = heal[p] \ {a}]
      /\ UNCHANGED <<asset, schedule, gen, assetJournal, saves, host, assetLock, todo, seen,
                     inFlight>>
  BY DEF Depreciation!Verify, Depreciation!userVars, Depreciation!envVars,
         Depreciation!runnerVars
<1>2. PICK s : /\ s \in {"heal", "transition"} /\ pc' = [pc EXCEPT ![p] = s]
               /\ DOMAIN cur' = Pollers /\ \A q \in Pollers : q # p => cur'[q] = cur[q]
               /\ s = "transition" =>
                    /\ cur' = [cur EXCEPT ![p] = [Depreciation!NoRow EXCEPT !.asset = a]]
                    /\ Depreciation!VerifyLifeComplete(a)
  <2>1. CASE Depreciation!VerifyLifeComplete(a)
    <3>1. /\ cur' = [cur EXCEPT ![p] = [Depreciation!NoRow EXCEPT !.asset = a]]
          /\ pc' = [pc EXCEPT ![p] = "transition"]
      BY <2>1, Zenon DEF Depreciation!Verify
    <3>2. DOMAIN cur' = Pollers /\ \A q \in Pollers : q # p => cur'[q] = cur[q]
      <4>1. PICK c : c = [Depreciation!NoRow EXCEPT !.asset = a]
        OBVIOUS
      <4>2. cur' = [cur EXCEPT ![p] = c]
        BY <3>1, <4>1
      <4> QED
        BY <4>2 DEF AssetsInv, PollersType
    <3> QED
      BY <2>1, <3>1, <3>2, Zenon
  <2>2. CASE ~Depreciation!VerifyLifeComplete(a)
    <3>1. UNCHANGED <<cur, pc>>
      BY <2>2, Zenon DEF Depreciation!Verify
    <3>2. pc' = [pc EXCEPT ![p] = "heal"] /\ DOMAIN cur' = Pollers
      BY <1>1, <3>1 DEF AssetsInv, PollersType
    <3> QED
      BY <3>1, <3>2
  <2> QED
    BY <2>1, <2>2
<1>3. /\ pc'[p] = s /\ heal'[p] = heal[p] \ {a}
      /\ \A q \in Pollers : q # p => pc'[q] = pc[q] /\ heal'[q] = heal[q] /\ cur'[q] = cur[q]
  BY <1>1, <1>2 DEF AssetsInv, PollersType
<1>4. Alone(p)
  <2>1. PollersType'
    BY <1>1, <1>2 DEF AssetsInv, PollersType, PollerSteps
  <2> QED
    BY <1>1, <1>2, <1>3, <2>1 DEF Alone
<1>5. asset[a].status # "none"
  BY <1>1, PollersAt DEF Batch
<1>6. Depreciation!VerifyLifeComplete(a) => Complete(a)
  <2>1. DOMAIN asset[a].terms # {}
    BY <1>5 DEF AssetsInv, SavedHasTerms
  <2>2. Depreciation!VerifyLifeComplete(a)
          => Cardinality(Depreciation!Posted(a)) >= Len(asset[a].terms)
    BY AssetCardinality DEF Depreciation!VerifyLifeComplete
  <2> QED
    BY <2>1, <2>2, PostedCounts DEF AssetsInv, Complete
<1>7. PICK c : c = cur'[p]
  OBVIOUS
<1>8. s = "transition" => c.asset = a
  <2>1. PICK d : d = [Depreciation!NoRow EXCEPT !.asset = a]
    OBVIOUS
  <2>2. d.asset = a
    BY <2>1 DEF Depreciation!NoRow
  <2>3. s = "transition" => cur' = [cur EXCEPT ![p] = d]
    BY <1>2, <2>1
  <2> QED
    BY <1>7, <2>2, <2>3 DEF AssetsInv, PollersType
<1>9. Batch(p)'
  <2>1. \A r \in todo'[p] : Listed(r)
    BY <1>1 DEF AssetsInv, Batch
  <2>2. \A b \in heal'[p] : asset[b].status # "none"
    BY <1>3 DEF AssetsInv, Batch
  <2>3. pc'[p] \notin {"row", "read", "lock", "commit"}
    BY <1>2, <1>3
  <2>4. pc'[p] = "transition" => c.asset \in Assets /\ Complete(c.asset)
    BY <1>2, <1>3, <1>6, <1>8
  <2> QED
    BY <1>1, <1>7, <2>1, <2>2, <2>3, <2>4, BatchAt
<1> QED
  BY <1>1, <1>4, <1>9, AssetsAlone

LEMMA AssetsTransition ==
  ASSUME AssetsInv, NEW p \in Pollers, Depreciation!TransitionToFullyDepreciated(p)
  PROVE  /\ AssetsInv' /\ \A b \in Assets : Forward(b)
         /\ Depreciation!EndsPosted
<1>1. PICK a : a = cur[p].asset
  OBVIOUS
<1>2. /\ pc[p] = "transition" /\ assetLock[a] = Nobody /\ pc' = [pc EXCEPT ![p] = "heal"]
      /\ cur' = [cur EXCEPT ![p] = Depreciation!NoRow]
      /\ UNCHANGED <<schedule, gen, assetJournal, saves, host, assetLock, todo, seen, heal,
                     inFlight>>
  BY <1>1 DEF Depreciation!TransitionToFullyDepreciated, Depreciation!envVars,
              Depreciation!runnerVars
<1>3. a \in Assets /\ Complete(a)
  BY <1>1, <1>2, PollersAt DEF Batch
<1>4. PICK o, u, z : /\ o = asset[a] /\ u = [o EXCEPT !.status = "fully_depreciated"]
                     /\ z = Depreciation!NewVersion(u)
  OBVIOUS
<1>5. \/ asset' = asset
      \/ asset[a].status = "in_service" /\ asset' = [asset EXCEPT ![a] = z]
  BY <1>1, <1>4
     DEF Depreciation!TransitionToFullyDepreciated, Depreciation!StillInService
<1>6. o \in AssetRecord
  BY <1>3, <1>4, AssetsAt
<1>7. /\ z \in AssetRecord /\ z.status = "fully_depreciated" /\ z.terms = o.terms
      /\ z.counter = o.counter /\ o.version <= z.version /\ o.version # z.version
  <2>1. "fully_depreciated" \in DOMAIN Depreciation!Next_
    BY DEF Depreciation!Next_
  <2>2. /\ u \in AssetRecord /\ u.status = "fully_depreciated" /\ u.terms = o.terms
        /\ u.counter = o.counter /\ u.version = o.version
    BY <1>4, <1>6, <2>1 DEF AssetRecord
  <2> QED
    BY <1>4, <2>2, NewVersions
<1>8. /\ asset' \in [Assets -> AssetRecord] /\ \A b \in Assets : b # a => asset'[b] = asset[b]
      /\ asset'[a] = o \/ (asset'[a] = z /\ o.status = "in_service")
  BY <1>3, <1>4, <1>5, <1>6, <1>7 DEF AssetsInv, AssetsType
<1>9. \A b \in Assets : asset'[b].terms = asset[b].terms /\ asset'[b].counter = asset[b].counter
  BY <1>4, <1>7, <1>8
<1>10. AssetsType' /\ SavedHasTerms'
  <2>1. AssetsType'
    BY <1>2, <1>8, <1>9 DEF AssetsInv, AssetsType
  <2>2. SavedHasTerms'
    <3>1. DOMAIN asset'[a].terms # {}
      BY <1>3, <1>9 DEF Complete
    <3> QED
      BY <1>8, <3>1 DEF AssetsInv, SavedHasTerms
  <2> QED
    BY <2>1, <2>2
<1>11. \A b \in Assets : Depreciation!Posted(b)' = Depreciation!Posted(b)
  BY <1>2 DEF Depreciation!Posted
<1>12. \A b \in Assets : Forward(b)
  <2>1. CASE asset'[a] = o
    BY <1>2, <1>4, <1>8, <2>1, ForwardAlike
  <2>2. CASE asset'[a] = z
    <3>1. gen[a] <= gen[a]
      BY <1>3, AssetsAt
    <3>2. \A s \in DOMAIN schedule[a] : schedule[a][s].version <= schedule[a][s].version
      <4>1. \A s \in DOMAIN schedule[a] : schedule[a][s].version \in Nat
        BY <1>3, AssetsAt DEF AssetRow
      <4> QED
        BY <4>1
    <3>3. Forward(a)
      BY <1>2, <1>4, <1>7, <1>3, <1>9, <1>11, <2>2, <3>1, <3>2 DEF Forward
    <3> QED
      BY <1>2, <1>8, <3>3, ForwardAlike
  <2> QED
    BY <1>8, <2>1, <2>2
<1>13. Depreciation!CounterCounts'
  BY <1>9, <1>11, AssetsAt, AssetCardinality DEF Depreciation!CounterCounts
<1>14. Depreciation!BookedOnce'
  BY <1>2, <1>12, BookedOn
<1>15. /\ pc'[p] = "heal" /\ DOMAIN cur' = Pollers
       /\ \A q \in Pollers : q # p => pc'[q] = pc[q] /\ cur'[q] = cur[q]
  BY <1>2 DEF AssetsInv, PollersType
<1>16. Alone(p)
  <2>1. PollersType'
    BY <1>2, <1>15 DEF AssetsInv, PollersType, PollerSteps
  <2>2. \A b \in Assets : assetLock[b] \in Pollers => asset'[b] = asset[b]
    BY <1>2, <1>8, AssetsAssumption
  <2> QED
    BY <1>2, <1>15, <2>1, <2>2 DEF Alone
<1>17. Batch(p)'
  <2>1. \A r \in todo'[p] : Listed(r)'
    BY <1>2, <1>10, <1>12, PollersAt, ListedOn DEF Batch, DueRow
  <2>2. \A b \in heal'[p] : asset'[b].status # "none"
    BY <1>2, <1>12, PollersAt DEF Batch, Forward
  <2> QED
    BY <1>15, <2>1, <2>2 DEF Batch
<1>18. \A q \in Pollers : Batch(q)' \/ Rests(q)
  BY <1>16, <1>17, AloneMarks
<1>19. AssetsInv'
  BY <1>2, <1>10, <1>12, <1>13, <1>14, <1>16, <1>18, AloneMarks, AssetsMove DEF Alone
<1>20. Depreciation!EndsPosted
  <2>1. DOMAIN schedule[a] = DOMAIN asset[a].terms
    BY <1>3, AssetsAt
  <2> QED
    BY <1>3, <1>4, <1>8, <2>1 DEF Depreciation!EndsPosted, Complete
<1> QED
  BY <1>12, <1>19, <1>20

-----------------------------------------------------------------------------
(* The batches that end, of one poller or of a process, are all that the   *)
(* processes they run in have.                                             *)
LEMMA AssetsReset ==
  ASSUME AssetsInv, NEW ps \in SUBSET Pollers, NEW h \in Processes, Depreciation!Reset(ps),
         UNCHANGED <<asset, schedule, gen, assetJournal, saves, host>>,
         inFlight' = inFlight \ {h}, \A q \in ps : host[q] = h,
         \A q \in Pollers : host[q] = h /\ pc[q] # "idle" => q \in ps
  PROVE  AssetsInv' /\ \A b \in Assets : Forward(b)
<1>1. \A q \in Pollers :
        IF q \in ps THEN pc'[q] = "idle" /\ todo'[q] = {} /\ heal'[q] = {}
                    ELSE /\ pc'[q] = pc[q] /\ todo'[q] = todo[q] /\ heal'[q] = heal[q]
                         /\ cur'[q] = cur[q] /\ seen'[q] = seen[q]
  BY DEF Depreciation!Reset
<1>2. \A a \in Assets : assetLock'[a] = IF assetLock[a] \in ps THEN Nobody ELSE assetLock[a]
  BY DEF Depreciation!Reset
<1>3. PollersType'
  <2>1. assetLock' \in [Assets -> Pollers \union {Nobody}]
    <3>1. assetLock' = [a \in Assets |-> IF assetLock[a] \in ps THEN Nobody ELSE assetLock[a]]
      BY DEF Depreciation!Reset
    <3> QED
      BY <3>1 DEF AssetsInv, PollersType
  <2>2. pc' \in [Pollers -> PollerSteps]
    BY DEF Depreciation!Reset, AssetsInv, PollersType, PollerSteps
  <2>3. todo' \in [Pollers -> SUBSET DueRow] /\ heal' \in [Pollers -> SUBSET Assets]
    BY DEF Depreciation!Reset, AssetsInv, PollersType
  <2>4. DOMAIN cur' = Pollers /\ seen' \in [Pollers -> AssetRecord]
    BY NoAssetFacts DEF Depreciation!Reset, AssetsInv, PollersType
  <2> QED
    BY <2>1, <2>2, <2>3, <2>4 DEF AssetsInv, PollersType
<1>4. MarkedWhileBusy'
  <2>1. \A q \in Pollers : pc'[q] # "idle" <=> pc[q] # "idle" /\ q \notin ps
    BY <1>1
  <2>2. \A q \in Pollers : pc[q] # "idle" => (q \in ps <=> host[q] = h)
    OBVIOUS
  <2> QED
    BY <2>1, <2>2 DEF AssetsInv, MarkedWhileBusy
<1>5. \A q \in Pollers : Batch(q)' \/ Rests(q)
  <2>1. ASSUME NEW q \in ps PROVE Batch(q)'
    BY <1>1, <2>1 DEF Batch
  <2>2. ASSUME NEW q \in Pollers, q \notin ps PROVE Rests(q)
    BY <1>1, <1>2, <2>2 DEF Rests
  <2> QED
    BY <2>1, <2>2
<1> QED
  BY <1>3, <1>4, <1>5, AssetsStill

LEMMA AssetsEnd ==
  ASSUME AssetsInv, NEW p \in Pollers, Depreciation!Finish(p) \/ Depreciation!Fail(p)
  PROVE  AssetsInv' /\ \A b \in Assets : Forward(b)
<1>1. /\ Depreciation!Reset({p}) /\ pc[p] # "idle" /\ inFlight' = inFlight \ {host[p]}
      /\ UNCHANGED <<asset, schedule, gen, assetJournal, saves, host>>
  BY DEF Depreciation!Finish, Depreciation!Fail, Depreciation!FinishDepreciationPost,
         Depreciation!userVars, Depreciation!envVars
<1>2. PICK ps, h : ps = {p} /\ h = host[p]
  OBVIOUS
<1>3. ps \in SUBSET Pollers /\ h \in Processes
  BY <1>2, PollersAt
<1>4. /\ \A q \in ps : host[q] = h
      /\ \A q \in Pollers : host[q] = h /\ pc[q] # "idle" => q \in ps
  BY <1>1, <1>2 DEF AssetsInv, MarkedWhileBusy
<1>5. Depreciation!Reset(ps) /\ inFlight' = inFlight \ {h}
  BY <1>1, <1>2
<1> QED
  BY <1>1, <1>3, <1>4, <1>5, AssetsReset

LEMMA AssetsRestart ==
  ASSUME AssetsInv, NEW h \in Processes, Depreciation!Restart(h)
  PROVE  AssetsInv' /\ \A b \in Assets : Forward(b)
<1>1. PICK ps : ps = {q \in Pollers : host[q] = h}
  OBVIOUS
<1>2. /\ Depreciation!Reset(ps) /\ inFlight' = inFlight \ {h}
      /\ UNCHANGED <<asset, schedule, gen, assetJournal, saves, host>>
  BY <1>1 DEF Depreciation!Restart, Depreciation!userVars
<1>3. /\ ps \in SUBSET Pollers /\ \A q \in ps : host[q] = h
      /\ \A q \in Pollers : host[q] = h /\ pc[q] # "idle" => q \in ps
  BY <1>1
<1> QED
  BY <1>2, <1>3, AssetsReset

LEMMA AssetsStutter ==
  ASSUME AssetsInv,
         UNCHANGED <<asset, schedule, gen, assetJournal, saves, host, assetLock, pc, todo, cur,
                     seen, heal, inFlight>>
  PROVE  AssetsInv' /\ \A b \in Assets : Forward(b)
<1>1. PollersType' /\ MarkedWhileBusy'
  BY DEF AssetsInv, PollersType, MarkedWhileBusy
<1>2. \A q \in Pollers : Rests(q)
  BY DEF Rests
<1> QED
  BY <1>1, <1>2, AssetsStill

LEMMA AssetsWorld ==
  ASSUME AssetsInv,
         \/ Depreciation!Tick \/ Depreciation!SetLedger
         \/ \E h \in Processes : Depreciation!ThrottleEnds(h)
         \/ UNCHANGED assetVars
  PROVE  AssetsInv' /\ asset' = asset /\ \A b \in Assets : Forward(b)
<1>1. UNCHANGED <<asset, schedule, gen, assetJournal, saves, host, assetLock, pc, todo, cur,
                  seen, heal, inFlight>>
  BY DEF Depreciation!Tick, Depreciation!SetLedger, Depreciation!ThrottleEnds, assetVars,
         Depreciation!userVars, Depreciation!pollVars, Depreciation!runnerVars,
         Depreciation!envVars
<1> QED
  BY <1>1, AssetsStutter

(* Only the transition of a poller, and a save, end an asset's life.       *)
LEMMA SameStatusEndsNothing ==
  ASSUME \/ saves' # saves
         \/ \A a \in Assets : asset'[a].status = asset[a].status
         \/ asset' = asset
  PROVE  Depreciation!EndsPosted
  BY DEF Depreciation!EndsPosted

LEMMA AssetsKept ==
  ASSUME AssetsInv, Depreciation!Next \/ UNCHANGED assetVars
  PROVE  /\ AssetsInv' /\ \A b \in Assets : Forward(b)
         /\ Depreciation!EndsPosted
<1>1. ASSUME NEW a \in Assets, NEW t \in Schedules, NEW status \in DOMAIN Depreciation!Next_,
             Depreciation!SaveAsset(a, status, t)
      PROVE  AssetsInv' /\ (\A b \in Assets : Forward(b)) /\ saves' # saves
  <2>1. saves' = saves + 1
    BY <1>1, Zenon DEF Depreciation!SaveAsset
  <2>2. saves' # saves
    BY <2>1 DEF AssetsInv
  <2> QED
    BY <1>1, <2>2, AssetsSave
<1>2. ASSUME NEW a \in Assets, NEW t \in Schedules, NEW s \in DOMAIN t,
             Depreciation!EditRow(a, s, t[s])
      PROVE  AssetsInv' /\ (\A b \in Assets : Forward(b)) /\ asset' = asset
  <2>1. t[s] \in Nat
    BY TermsCount
  <2>2. asset' = asset
    BY <1>2, Zenon DEF Depreciation!EditRow
  <2> QED
    BY <1>2, <2>1, <2>2, AssetsEdit
<1>3. ASSUME NEW p \in Pollers, Depreciation!CommitRow(p)
      PROVE  /\ AssetsInv' /\ \A b \in Assets : Forward(b)
             /\ \A a \in Assets : asset'[a].status = asset[a].status
  <2>1. AssetsInv' /\ \A b \in Assets : Forward(b)
    BY <1>3, AssetsCommit
  <2>2. CASE asset' = asset
    BY <2>1, <2>2
  <2>3. CASE asset' # asset
    <3>1. PICK a, o, n, u, z :
            /\ a = cur[p].asset /\ o = asset[a] /\ n = seen[p].counter + 1
            /\ u = [o EXCEPT !.counter = n] /\ z = Depreciation!NewVersion(u)
      OBVIOUS
    <3>2. asset' = [asset EXCEPT ![a] = z]
      BY <1>3, <2>3, <3>1 DEF Depreciation!CommitRow
    <3>3. pc[p] = "commit"
      BY <1>3 DEF Depreciation!CommitRow
    <3>4. a \in Assets /\ o \in AssetRecord /\ seen[p] \in AssetRecord
      BY <3>1, <3>3, PollersAt, AssetsAt
    <3>5. n \in Nat
      BY <3>1, <3>4 DEF AssetRecord
    <3>6. u \in AssetRecord /\ u.status = o.status
      BY <3>1, <3>4, <3>5 DEF AssetRecord
    <3>7. z.status = o.status
      BY <3>1, <3>6, NewVersions
    <3> QED
      BY <2>1, <3>1, <3>2, <3>7 DEF AssetsInv, AssetsType
  <2> QED
    BY <2>2, <2>3
<1>4. ASSUME NEW p \in Pollers,
             \/ Depreciation!Claim(p) \/ Depreciation!ListDueUnposted(p)
             \/ \E r \in todo[p] : Depreciation!CheckAsset(p, r)
             \/ Depreciation!StartRow(p) \/ Depreciation!ReadAsset(p)
             \/ Depreciation!LockAsset(p) \/ Depreciation!ListHeal(p)
             \/ \E a \in Assets : Depreciation!Verify(p, a)
             \/ Depreciation!Finish(p) \/ Depreciation!Fail(p)
      PROVE  AssetsInv' /\ (\A b \in Assets : Forward(b)) /\ asset' = asset
  <2>1. asset' = asset
    BY <1>4
       DEF Depreciation!Claim, Depreciation!ListDueUnposted, Depreciation!CheckAsset,
           Depreciation!StartRow, Depreciation!ReadAsset, Depreciation!LockAsset,
           Depreciation!ListHeal, Depreciation!Verify, Depreciation!Finish,
           Depreciation!Fail, Depreciation!userVars
  <2> QED
    BY <1>4, <2>1, AssetsClaim, AssetsList, AssetsCheck, AssetsStartRow, AssetsRead,
       AssetsLock, AssetsListHeal, AssetsVerify, AssetsEnd
<1>5. ASSUME NEW h \in Processes, Depreciation!Restart(h)
      PROVE  AssetsInv' /\ (\A b \in Assets : Forward(b)) /\ asset' = asset
  BY <1>5, AssetsRestart DEF Depreciation!Restart, Depreciation!userVars
<1> QED
  BY <1>1, <1>2, <1>3, <1>4, <1>5, AssetsTransition, AssetsWorld, SameStatusEndsNothing
     DEF Depreciation!Next, Depreciation!Step

LEMMA AssetsImply ==
  ASSUME AssetsInv
  PROVE  /\ Depreciation!TypeOK /\ Depreciation!BookedOnce /\ Depreciation!CounterCounts
         /\ Depreciation!OneBatchPerProcess
<1>1. Depreciation!TypeOK
  BY AssetsAt DEF AssetsInv, AssetRecord, PollersType, PollerSteps, Depreciation!TypeOK
<1>2. Depreciation!OneBatchPerProcess
  <2> SUFFICES ASSUME NEW h \in Processes
               PROVE  Cardinality({p \in Pollers : host[p] = h /\ pc[p] # "idle"})
                        = IF h \in inFlight THEN 1 ELSE 0
    BY AssetCardinality DEF Depreciation!OneBatchPerProcess
  <2>1. CASE h \in inFlight
    <3>1. PICK p \in Pollers : host[p] = h /\ pc[p] # "idle"
      BY <2>1 DEF AssetsInv, MarkedWhileBusy
    <3>2. {q \in Pollers : host[q] = h /\ pc[q] # "idle"} = {p}
      BY <3>1 DEF AssetsInv, MarkedWhileBusy
    <3>3. Cardinality({p}) = 1
      BY FS_Singleton
    <3> QED
      BY <2>1, <3>2, <3>3
  <2>2. CASE h \notin inFlight
    <3>1. {q \in Pollers : host[q] = h /\ pc[q] # "idle"} = {}
      BY <2>2 DEF AssetsInv, MarkedWhileBusy
    <3>2. Cardinality({}) = 0
      BY FS_EmptySet
    <3> QED
      BY <2>2, <3>1, <3>2
  <2> QED
    BY <2>1, <2>2
<1> QED
  BY <1>1, <1>2 DEF AssetsInv

LEMMA ForwardStands ==
  ASSUME \A a \in Assets : Forward(a) PROVE Depreciation!Stands
  BY DEF Forward, Depreciation!Stands, Depreciation!AnyPosted

LEMMA AssetsWorkStep ==
  ASSUME [WorkNext]_allVars, part = "assets"
  PROVE  part' = part /\ (Depreciation!Next \/ UNCHANGED assetVars)
<1>1. CASE WorkNext
  BY <1>1 DEF WorkNext, ImportStep, SignInStep, AccessStep, MemberStep, TaskStep, BookStep,
              PurchaseStep, AssetStep, SettingsStep, FileStep, OthersRest
<1>2. CASE UNCHANGED allVars
  BY <1>2 DEF allVars
<1> QED
  BY <1>1, <1>2

(* PostDueDepreciation, whatever its pollers, restarts and users do at     *)
(* once: no period is booked or counted twice (ExistsForSource, the        *)
(* versions of the row and of the asset), a process never runs two batches *)
(* (shouldPostDepreciation), a posted row stands, and a run ends only the  *)
(* life of an asset whose whole schedule is posted.                        *)
THEOREM TenantDepreciationCounts == WorkSpec => DepreciationCounts
<1> DEFINE I == part = "assets" => AssetsInv
           Counts == part = "assets" =>
                     /\ (/\ Depreciation!TypeOK /\ Depreciation!BookedOnce
                         /\ Depreciation!CounterCounts)'
                     /\ Depreciation!OneBatchPerProcess'
                     /\ Depreciation!Stands /\ Depreciation!EndsPosted
<1>1. WorkInit => I
  BY AssetsInit DEF WorkInit
<1>2. I /\ [WorkNext]_allVars => I' /\ Counts
  <2> SUFFICES ASSUME I, [WorkNext]_allVars, part = "assets"
               PROVE  AssetsInv' /\ Counts /\ part' = part
    BY DEF WorkNext, ImportStep, SignInStep, AccessStep, MemberStep, TaskStep, BookStep,
           PurchaseStep, AssetStep, SettingsStep, FileStep, OthersRest, allVars
  <2>1. part' = part /\ (Depreciation!Next \/ UNCHANGED assetVars)
    BY AssetsWorkStep
  <2>2. AssetsInv' /\ (\A a \in Assets : Forward(a)) /\ Depreciation!EndsPosted
    BY <2>1, AssetsKept
  <2>3. (/\ Depreciation!TypeOK /\ Depreciation!BookedOnce /\ Depreciation!CounterCounts
         /\ Depreciation!OneBatchPerProcess)'
    BY <2>2, AssetsImply, PTL
  <2> QED
    BY <2>1, <2>2, <2>3, ForwardStands
<1> QED
  BY <1>1, <1>2, PTL DEF WorkSpec, DepreciationCounts

-----------------------------------------------------------------------------
(* Receipts, stock and vendor invoices.                                    *)

ReceiptLine ==
  [saved : BOOLEAN, order : Orders, place : Places, qty : Int, credited : Int]
ReceiptSteps == {"new", "find", "update", "insert", "book", "commit", "done", "failed"}
ReceiptTx ==
  [pc : ReceiptSteps, row : SUBSET Lines, version : Int, had : Int,
   holds : SUBSET Lines, attempt : 0..MaxRetries]
StockRow == [live : BOOLEAN, place : Places, qty : Int, version : Int]
VendorRow ==
  [order : Orders, status : DOMAIN Purchasing!Steps, total : Int, reason : BOOLEAN,
   vendorAgrees : BOOLEAN]
ReceiptsType ==
  /\ line \in [Lines -> ReceiptLine] /\ tx \in [Lines -> ReceiptTx]
  /\ stock \in [Lines -> StockRow] /\ key \in [Places -> SUBSET Lines]
  /\ adjusted \in [Places -> Int] /\ vendorInvoice \in [VendorInvoices -> VendorRow]
  /\ receiptEdits \in 0..MaxReceiptEdits

Inserting(l, p) == l \in tx[l].holds /\ line[l].place = p
(* The unique key of a place is held by its row, or by the transaction     *)
(* that is about to create it.                                             *)
KeysGuardPlaces ==
  \A p \in Places :
    /\ \A r \in Lines : stock[r].live /\ stock[r].place = p => key[p] = {r}
    /\ \A r \in key[p] : (stock[r].live /\ stock[r].place = p) \/ Inserting(r, p)
(* A row is created by its own line's transaction, once.                   *)
RowsComeFromLines == \A r \in Lines : stock[r].live => tx[r].pc = "done"
(* What a transaction has written is its own until it ends, and has the    *)
(* quantity it found; the row it creates holds the place's key.            *)
WritersHoldTheirRow ==
  \A l \in Lines : \A r \in tx[l].holds :
    /\ tx[l].pc \in {"book", "commit"} /\ tx[l].holds = {r}
    /\ \A m \in Lines : r \in tx[m].holds => m = l
    /\ \/ stock[r].live /\ stock[r].place = line[l].place /\ tx[l].had = stock[r].qty
       \/ r = l /\ ~stock[r].live /\ tx[l].had = 0 /\ key[line[l].place] = {l}
(* What was found of a row holds as long as its version is the same.       *)
FoundStands ==
  \A l \in Lines : tx[l].pc = "update" => \A r \in tx[l].row :
    /\ tx[l].version <= stock[r].version
    /\ stock[r].live /\ tx[l].version = stock[r].version =>
         stock[r].place = line[l].place /\ tx[l].had = stock[r].qty
(* A line that credits no row credits nothing.                             *)
UncreditedLines ==
  \A l \in Lines :
    /\ tx[l].pc # "done" => ~line[l].saved /\ line[l].credited = 0
    /\ tx[l].pc \in {"book", "commit"} /\ tx[l].holds = {} => line[l].qty = 0
StockAgrees ==
  \A p \in Places :
    /\ \A r \in Lines : stock[r].live /\ stock[r].place = p =>
         stock[r].qty = Purchasing!Credited(p) + adjusted[p]
    /\ Purchasing!AtPlace(p) = {} => Purchasing!Credited(p) + adjusted[p] = 0
ReceiptInv ==
  /\ ReceiptsType /\ KeysGuardPlaces /\ RowsComeFromLines /\ WritersHoldTheirRow
  /\ FoundStands /\ UncreditedLines /\ StockAgrees

-----------------------------------------------------------------------------
(* Sums over finite sets.                                                  *)

(* The smallest of some finite sets: none of the sets strictly inside it is*)
(* one of them.                                                            *)
LEMMA SmallestSet ==
  ASSUME NEW S, IsFiniteSet(S), NEW T \in SUBSET SUBSET S, T # {}
  PROVE  \E s \in T : \A t \in T : ~(t \subseteq s /\ t # s)
<1>1. FiniteSubsetsOf(S) = SUBSET S
  BY FS_FiniteSubsetsOfFinite
<1>2. IsWellFoundedOn(StrictSubsetOrdering(S), SUBSET S)
  BY <1>1, FS_StrictSubsetOrderingWellFounded
<1>3. PICK s \in T : \A t \in T : ~(<<t, s>> \in StrictSubsetOrdering(S))
  BY <1>2, WFMin
<1> QED
  BY <1>3 DEF StrictSubsetOrdering

(* And the smallest of some numbers.                                       *)
LEMMA SmallestNumber ==
  ASSUME NEW N \in SUBSET Nat, N # {}
  PROVE  \E n \in N : \A m \in N : ~(m < n)
<1>1. PICK n \in N : \A m \in N : ~(<<m, n>> \in OpToRel(<, Nat))
  BY WFMin, NatLessThanWellFounded
<1> QED
  BY <1>1 DEF OpToRel

(* g maps each set of D to the sum of f over it, taking one member after   *)
(* the other: SumFunctionOnSet is defined by the choice of such a g.       *)
Chosen(s) == CHOOSE x \in s : TRUE
Adds(g, f, D) ==
  g = [s \in D |-> IF s = {} THEN 0 ELSE f[Chosen(s)] + g[s \ {Chosen(s)}]]
SmallSets(S, n) == {s \in SUBSET S : Cardinality(s) <= n}

(* Such a g exists, for sets of every size.                                *)
LEMMA SumsExist ==
  ASSUME NEW S, IsFiniteSet(S), NEW f
  PROVE  \E g : Adds(g, f, SUBSET S)
<1> DEFINE Bad == {n \in Nat : ~\E g : Adds(g, f, SmallSets(S, n))}
<1>1. \A s \in SUBSET S : IsFiniteSet(s) /\ Cardinality(s) \in Nat /\ Cardinality(s) <= Cardinality(S)
  BY FS_Subset, FS_CardinalityType
<1>2. ASSUME NEW n \in Bad, \A m \in Bad : ~(m < n)
      PROVE  FALSE
  <2>1. CASE n = 0
    <3>1. SmallSets(S, 0) = {{}}
      BY <1>1, FS_EmptySet DEF SmallSets
    <3>2. Adds([s \in {{}} |-> 0], f, {{}})
      BY DEF Adds
    <3> QED
      BY <1>2, <2>1, <3>1, <3>2
  <2>2. CASE n # 0
    <3>1. PICK g : Adds(g, f, SmallSets(S, n - 1))
      BY <1>2, <2>2
    <3> DEFINE h == [s \in SmallSets(S, n) |->
                       IF s = {} THEN 0 ELSE f[Chosen(s)] + g[s \ {Chosen(s)}]]
    <3>2. ASSUME NEW s \in SmallSets(S, n), s # {}
          PROVE  s \ {Chosen(s)} \in SmallSets(S, n - 1)
      <4>1. Chosen(s) \in s
        BY <3>2 DEF Chosen
      <4>2. Cardinality(s \ {Chosen(s)}) = Cardinality(s) - 1
        BY <1>1, <4>1, FS_RemoveElement DEF SmallSets
      <4> QED
        BY <1>1, <3>2, <4>2 DEF SmallSets
    <3>3. SmallSets(S, n - 1) \subseteq SmallSets(S, n)
      BY <1>1 DEF SmallSets
    <3>4. ASSUME NEW s \in SmallSets(S, n - 1)
          PROVE  h[s] = g[s]
      BY <3>1, <3>3 DEF Adds
    <3>5. Adds(h, f, SmallSets(S, n))
      BY <3>2, <3>4 DEF Adds
    <3> QED
      BY <1>2, <3>5
  <2> QED
    BY <2>1, <2>2
<1>3. Bad = {}
  <2>1. Bad \in SUBSET Nat
    OBVIOUS
  <2> HIDE DEF Bad
  <2> QED
    BY <1>2, <2>1, SmallestNumber
<1>4. SUBSET S = SmallSets(S, Cardinality(S))
  BY <1>1 DEF SmallSets
<1>5. Cardinality(S) \in Nat
  BY FS_CardinalityType
<1>6. \A n \in Nat : \E g : Adds(g, f, SmallSets(S, n))
  BY <1>3
<1> QED
  BY <1>4, <1>5, <1>6

(* SumFunctionOnSet adds the summands one after the other.                 *)
LEMMA SumsAdd ==
  ASSUME NEW S, IsFiniteSet(S), NEW f
  PROVE  \E g : Adds(g, f, SUBSET S) /\ Purchasing!SumFunctionOnSet(f, S) = g[S]
<1> DEFINE g == CHOOSE g : Adds(g, f, SUBSET S)
<1>1. Adds(g, f, SUBSET S)
  BY SumsExist
<1>2. Purchasing!SumFunctionOnSet(f, S) = g[S]
  BY DEF Purchasing!SumFunctionOnSet, Purchasing!FoldFunctionOnSet,
         Purchasing!MapThenFoldSet, Adds, Chosen
<1> QED
  BY <1>1, <1>2

(* The order in which a sum takes its summands does not matter.            *)
LEMMA SumsInAnyOrder ==
  ASSUME NEW S, IsFiniteSet(S), NEW f, \A x \in S : f[x] \in Int,
         NEW g, Adds(g, f, SUBSET S)
  PROVE  \A s \in SUBSET S : g[s] \in Int /\ \A x \in s : g[s] = f[x] + g[s \ {x}]
<1> DEFINE Bad == {s \in SUBSET S : ~(g[s] \in Int /\ \A x \in s : g[s] = f[x] + g[s \ {x}])}
<1>1. ASSUME NEW s \in Bad, \A t \in Bad : ~(t \subseteq s /\ t # s)
      PROVE  FALSE
  <2>1. \A t \in SUBSET s : t # s => g[t] \in Int /\ \A x \in t : g[t] = f[x] + g[t \ {x}]
    BY <1>1
  <2>2. s # {}
    BY <1>1 DEF Adds
  <2>3. PICK c \in s : c = Chosen(s)
    BY <2>2 DEF Chosen
  <2>4. g[s] = f[c] + g[s \ {c}]
    BY <1>1, <2>2, <2>3 DEF Adds
  <2>5. g[s] \in Int
    BY <2>1, <2>4
  <2>6. ASSUME NEW x \in s, x # c
        PROVE  g[s] = f[x] + g[s \ {x}]
    <3>1. g[s \ {c}] = f[x] + g[(s \ {c}) \ {x}]
      BY <2>1, <2>6
    <3>2. g[s \ {x}] = f[c] + g[(s \ {x}) \ {c}]
      BY <2>1, <2>6
    <3>3. (s \ {x}) \ {c} = (s \ {c}) \ {x}
      OBVIOUS
    <3>4. PICK n, i, j \in Int : n = g[(s \ {c}) \ {x}] /\ i = f[c] /\ j = f[x]
      BY <1>1, <2>1, <2>6
    <3>5. g[s] = i + (j + n) /\ g[s \ {x}] = i + n
      BY <2>4, <3>1, <3>2, <3>3, <3>4
    <3> QED
      BY <3>4, <3>5
  <2> QED
    BY <1>1, <2>4, <2>5, <2>6
<1>2. Bad \in SUBSET SUBSET S
  OBVIOUS
<1>3. Bad = {}
  <2> HIDE DEF Bad
  <2> QED
    BY <1>1, <1>2, SmallestSet
<1> QED
  BY <1>3

(* A sum depends on its summands only.                                     *)
LEMMA SumsAgree ==
  ASSUME NEW S, IsFiniteSet(S), NEW T, NEW f, NEW h, NEW g, NEW k,
         Adds(g, f, SUBSET S), Adds(k, h, SUBSET T), S \subseteq T,
         \A x \in S : f[x] = h[x]
  PROVE  \A s \in SUBSET S : g[s] = k[s]
<1> DEFINE Bad == {s \in SUBSET S : g[s] # k[s]}
<1>1. ASSUME NEW s \in Bad, \A t \in Bad : ~(t \subseteq s /\ t # s)
      PROVE  FALSE
  <2>1. \A t \in SUBSET s : t # s => g[t] = k[t]
    BY <1>1
  <2>2. s # {}
    BY <1>1 DEF Adds
  <2>3. PICK c \in s : c = Chosen(s)
    BY <2>2 DEF Chosen
  <2>4. g[s] = f[c] + g[s \ {c}] /\ k[s] = h[c] + k[s \ {c}]
    BY <1>1, <2>2, <2>3 DEF Adds
  <2> QED
    BY <1>1, <2>1, <2>4
<1>2. Bad \in SUBSET SUBSET S
  OBVIOUS
<1>3. Bad = {}
  <2> HIDE DEF Bad
  <2> QED
    BY <1>1, <1>2, SmallestSet
<1> QED
  BY <1>3

LEMMA SumOfNone == ASSUME NEW f PROVE Purchasing!SumFunctionOnSet(f, {}) = 0
<1>1. PICK g : Adds(g, f, SUBSET {}) /\ Purchasing!SumFunctionOnSet(f, {}) = g[{}]
  BY SumsAdd, FS_EmptySet
<1> QED
  BY <1>1 DEF Adds

LEMMA SumIsInt ==
  ASSUME NEW S, IsFiniteSet(S), NEW f, \A x \in S : f[x] \in Int
  PROVE  Purchasing!SumFunctionOnSet(f, S) \in Int
<1>1. PICK g : Adds(g, f, SUBSET S) /\ Purchasing!SumFunctionOnSet(f, S) = g[S]
  BY SumsAdd
<1>2. \A s \in SUBSET S : g[s] \in Int
  BY <1>1, SumsInAnyOrder
<1> QED
  BY <1>1, <1>2

LEMMA SumSame ==
  ASSUME NEW S, IsFiniteSet(S), NEW f, NEW h, \A x \in S : f[x] = h[x]
  PROVE  Purchasing!SumFunctionOnSet(f, S) = Purchasing!SumFunctionOnSet(h, S)
<1>1. PICK g : Adds(g, f, SUBSET S) /\ Purchasing!SumFunctionOnSet(f, S) = g[S]
  BY SumsAdd
<1>2. PICK k : Adds(k, h, SUBSET S) /\ Purchasing!SumFunctionOnSet(h, S) = k[S]
  BY SumsAdd
<1> QED
  BY <1>1, <1>2, SumsAgree

LEMMA SumOfMember ==
  ASSUME NEW S, IsFiniteSet(S), NEW f, \A y \in S : f[y] \in Int, NEW x \in S
  PROVE  Purchasing!SumFunctionOnSet(f, S) = f[x] + Purchasing!SumFunctionOnSet(f, S \ {x})
<1>1. PICK g : Adds(g, f, SUBSET S) /\ Purchasing!SumFunctionOnSet(f, S) = g[S]
  BY SumsAdd
<1>2. IsFiniteSet(S \ {x}) /\ S \ {x} \subseteq S
  BY FS_Subset
<1>3. PICK k : Adds(k, f, SUBSET (S \ {x})) /\ Purchasing!SumFunctionOnSet(f, S \ {x}) = k[S \ {x}]
  BY <1>2, SumsAdd
<1>4. \A s \in SUBSET S : g[s] \in Int /\ \A z \in s : g[s] = f[z] + g[s \ {z}]
  <2>1. Adds(g, f, SUBSET S)
    BY <1>1
  <2>2. \A z \in S : f[z] \in Int
    OBVIOUS
  <2>3. IsFiniteSet(S)
    OBVIOUS
  <2> HIDE <1>1
  <2> QED
    BY ONLY <2>1, <2>2, <2>3, SumsInAnyOrder
<1>5. k[S \ {x}] = g[S \ {x}]
  <2> DEFINE R == S \ {x}
  <2>1. Adds(g, f, SUBSET S)
    BY <1>1
  <2>2. Adds(k, f, SUBSET R)
    BY <1>3
  <2>3. IsFiniteSet(R) /\ R \subseteq S
    BY <1>2
  <2>4. \A z \in R : f[z] = f[z]
    OBVIOUS
  <2> HIDE DEF R
  <2>5. \A s \in SUBSET R : k[s] = g[s]
    BY ONLY <2>1, <2>2, <2>3, <2>4, SumsAgree
  <2>6. k[R] = g[R]
    BY <2>5
  <2> QED
    BY <2>6 DEF R
<1>6. g[S] = f[x] + g[S \ {x}]
  BY <1>4
<1> QED
  BY <1>1, <1>3, <1>5, <1>6

LEMMA SumOfZeros ==
  ASSUME NEW S, IsFiniteSet(S), NEW f, \A x \in S : f[x] = 0
  PROVE  Purchasing!SumFunctionOnSet(f, S) = 0
<1>1. PICK g : Adds(g, f, SUBSET S) /\ Purchasing!SumFunctionOnSet(f, S) = g[S]
  BY SumsAdd
<1> DEFINE Bad == {s \in SUBSET S : g[s] # 0}
<1>2. ASSUME NEW s \in Bad, \A t \in Bad : ~(t \subseteq s /\ t # s)
      PROVE  FALSE
  <2>1. s # {}
    BY <1>1, <1>2 DEF Adds
  <2>2. PICK c \in s : c = Chosen(s)
    BY <2>1 DEF Chosen
  <2>3. g[s] = f[c] + g[s \ {c}]
    BY <1>1, <2>1, <2>2 DEF Adds
  <2>4. g[s \ {c}] = 0
    BY <1>2, <2>2
  <2> QED
    BY <1>2, <2>3, <2>4
<1>3. Bad \in SUBSET SUBSET S
  OBVIOUS
<1>4. Bad = {}
  <2> HIDE DEF Bad
  <2> QED
    BY <1>2, <1>3, SmallestSet
<1> QED
  BY <1>1, <1>4

LEMMA SumOfOne ==
  ASSUME NEW f, NEW x, f[x] \in Int
  PROVE  Purchasing!SumFunctionOnSet(f, {x}) = f[x]
<1>1. IsFiniteSet({x}) /\ \A y \in {x} : f[y] \in Int
  BY FS_Singleton
<1>2. x \in {x}
  OBVIOUS
<1>3. Purchasing!SumFunctionOnSet(f, {x}) = f[x] + Purchasing!SumFunctionOnSet(f, {x} \ {x})
  BY ONLY <1>1, <1>2, SumOfMember
<1>4. {x} \ {x} = {}
  OBVIOUS
<1> QED
  BY <1>3, <1>4, SumOfNone

(* A sum follows the one summand that changes.                             *)
LEMMA SumChanges ==
  ASSUME NEW S, IsFiniteSet(S), NEW f \in [S -> Int], NEW h \in [S -> Int],
         NEW x \in S, \A y \in S : y # x => f[y] = h[y]
  PROVE  Purchasing!SumFunction(h) = Purchasing!SumFunction(f) + h[x] - f[x]
<1> DEFINE R == S \ {x}
<1>1. IsFiniteSet(R) /\ \A z \in R : f[z] = h[z]
  BY FS_Subset
<1>2. Purchasing!SumFunctionOnSet(f, S) = f[x] + Purchasing!SumFunctionOnSet(f, R)
  BY SumOfMember
<1>3. Purchasing!SumFunctionOnSet(h, S) = h[x] + Purchasing!SumFunctionOnSet(h, R)
  BY SumOfMember
<1>4. Purchasing!SumFunctionOnSet(f, R) \in Int
  BY <1>1, SumIsInt
<1> HIDE DEF R
<1>5. Purchasing!SumFunctionOnSet(f, R) = Purchasing!SumFunctionOnSet(h, R)
  BY ONLY <1>1, SumSame
<1>6. PICK i \in Int : i = Purchasing!SumFunctionOnSet(f, R)
  BY <1>4
<1>7. Purchasing!SumFunction(h) = h[x] + i /\ Purchasing!SumFunction(f) = f[x] + i
  BY <1>2, <1>3, <1>5, <1>6 DEF Purchasing!SumFunction
<1> QED
  BY <1>6, <1>7

-----------------------------------------------------------------------------
LEMMA VendorStatuses ==
  /\ DOMAIN Purchasing!Steps = {"draft", "matched", "match_exception", "paid", "void"}
  /\ \A s \in DOMAIN Purchasing!Steps :
       /\ Purchasing!Steps[s] \subseteq DOMAIN Purchasing!Steps
       /\ "paid" \in Purchasing!Steps[s] => s \in {"matched", "paid"}
BY DEF Purchasing!Steps

LEMMA CreditedIsInt ==
  ASSUME line \in [Lines -> ReceiptLine]
  PROVE  \A p \in Places : Purchasing!Credited(p) \in Int
<1> TAKE p \in Places
<1> DEFINE f == [l \in Lines |-> IF line[l].place = p THEN line[l].credited ELSE 0]
<1>1. IsFiniteSet(Lines) /\ \A l \in Lines : f[l] \in Int
  BY PurchasingAssumption DEF ReceiptLine
<1>2. DOMAIN f = Lines
  OBVIOUS
<1> HIDE DEF f
<1>3. Purchasing!SumFunctionOnSet(f, Lines) \in Int
  BY ONLY <1>1, SumIsInt
<1> QED
  BY <1>2, <1>3 DEF Purchasing!Credited, Purchasing!SumFunction, f

(* Only what is credited to the lines of a place counts for the place.     *)
LEMMA CreditedStands ==
  ASSUME \A l \in Lines : line'[l].credited = line[l].credited,
         \A l \in Lines : line'[l].place = line[l].place \/ line[l].credited = 0
  PROVE  \A p \in Places : Purchasing!Credited(p)' = Purchasing!Credited(p)
<1> TAKE p \in Places
<1>1. [l \in Lines |-> IF line'[l].place = p THEN line'[l].credited ELSE 0] =
      [l \in Lines |-> IF line[l].place = p THEN line[l].credited ELSE 0]
  OBVIOUS
<1> QED
  BY <1>1 DEF Purchasing!Credited

LEMMA CreditedGrows ==
  ASSUME line \in [Lines -> ReceiptLine], line' \in [Lines -> ReceiptLine], NEW l \in Lines,
         line'[l].place = line[l].place, \A m \in Lines : m # l => line'[m] = line[m],
         NEW p \in Places
  PROVE  Purchasing!Credited(p)' =
           IF line[l].place = p
             THEN Purchasing!Credited(p) + line'[l].credited - line[l].credited
             ELSE Purchasing!Credited(p)
<1> DEFINE f == [m \in Lines |-> IF line[m].place = p THEN line[m].credited ELSE 0]
           h == [m \in Lines |-> IF line'[m].place = p THEN line'[m].credited ELSE 0]
<1>1. IsFiniteSet(Lines) /\ f \in [Lines -> Int] /\ h \in [Lines -> Int]
  BY PurchasingAssumption DEF ReceiptLine
<1>2. \A m \in Lines : m # l => f[m] = h[m]
  OBVIOUS
<1>3. Purchasing!Credited(p) = Purchasing!SumFunction(f)
  BY DEF Purchasing!Credited
<1>4. Purchasing!Credited(p)' = Purchasing!SumFunction(h)
  BY DEF Purchasing!Credited
<1>5. h[l] - f[l] = IF line[l].place = p THEN line'[l].credited - line[l].credited ELSE 0
  BY DEF ReceiptLine
<1>6. f[l] \in Int /\ h[l] \in Int
  BY <1>1
<1> HIDE DEF f, h
<1>7. Purchasing!SumFunction(h) = Purchasing!SumFunction(f) + h[l] - f[l]
  BY ONLY <1>1, <1>2, l \in Lines, SumChanges
<1>8. Purchasing!Credited(p) \in Int
  BY CreditedIsInt
<1>9. line[l].credited \in Int /\ line'[l].credited \in Int
  BY DEF ReceiptLine
<1> QED
  BY <1>3, <1>4, <1>5, <1>6, <1>7, <1>8, <1>9

LEMMA ReceiptsInit == Purchasing!Init => ReceiptInv /\ Purchasing!MatchedIsClean
<1> SUFFICES ASSUME Purchasing!Init PROVE ReceiptInv /\ Purchasing!MatchedIsClean
  OBVIOUS
<1>1. Purchasing!NoLine \in ReceiptLine /\ Purchasing!NoTx \in ReceiptTx /\ Purchasing!NoRow \in StockRow
  BY PurchasingAssumption
  DEF Purchasing!NoLine, Purchasing!NoTx, Purchasing!NoRow, ReceiptLine, ReceiptTx, ReceiptSteps, StockRow
<1>2. /\ \A l \in Lines : line[l] = Purchasing!NoLine /\ ~line[l].saved /\ line[l].credited = 0
      /\ \A l \in Lines : tx[l] = Purchasing!NoTx /\ tx[l].pc = "new" /\ tx[l].holds = {}
      /\ \A l \in Lines : ~stock[l].live
  BY DEF Purchasing!Init, Purchasing!NoLine, Purchasing!NoTx, Purchasing!NoRow
<1>3. \A i \in VendorInvoices : vendorInvoice[i] \in VendorRow /\ vendorInvoice[i].status = "draft"
  <2> TAKE i \in VendorInvoices
  <2>1. PICK w \in [order : Orders, status : {"draft"}, total : {0}, reason : {FALSE},
                    vendorAgrees : {TRUE}] : w = vendorInvoice[i]
    BY DEF Purchasing!Init
  <2>2. w.order \in Orders /\ w.status = "draft" /\ w.total = 0 /\ w.reason = FALSE /\ w.vendorAgrees = TRUE
    OBVIOUS
  <2>3. PICK o \in Orders : w = [order |-> o, status |-> "draft", total |-> 0,
                                 reason |-> FALSE, vendorAgrees |-> TRUE]
    BY <2>2
  <2>4. "draft" \in DOMAIN Purchasing!Steps
    BY VendorStatuses
  <2>5. w \in VendorRow
    BY ONLY <2>3, <2>4 DEF VendorRow
  <2> QED
    BY <2>1, <2>2, <2>5
<1>4. ReceiptsType
  BY <1>1, <1>3, PurchasingAssumption DEF ReceiptsType, Purchasing!Init
<1>5. \A p \in Places : Purchasing!Credited(p) = 0
  <2> TAKE p \in Places
  <2> DEFINE f == [l \in Lines |-> IF line[l].place = p THEN line[l].credited ELSE 0]
  <2>1. DOMAIN f = Lines /\ IsFiniteSet(Lines) /\ \A l \in Lines : f[l] = 0
    BY <1>2, PurchasingAssumption
  <2>2. Purchasing!Credited(p) = Purchasing!SumFunctionOnSet(f, DOMAIN f)
    BY DEF Purchasing!Credited, Purchasing!SumFunction
  <2> HIDE DEF f
  <2>3. Purchasing!SumFunctionOnSet(f, Lines) = 0
    BY ONLY <2>1, SumOfZeros
  <2> QED
    BY <2>1, <2>2, <2>3
<1>6. StockAgrees
  BY <1>2, <1>5 DEF StockAgrees, Purchasing!Init
<1>7. KeysGuardPlaces /\ RowsComeFromLines /\ WritersHoldTheirRow /\ FoundStands /\ UncreditedLines
  BY <1>2 DEF KeysGuardPlaces, RowsComeFromLines, WritersHoldTheirRow, FoundStands,
              UncreditedLines, Purchasing!Init
<1> QED
  BY <1>3, <1>4, <1>6, <1>7 DEF ReceiptInv, Purchasing!MatchedIsClean

(* A step of a transaction that writes no line, no stock and no key.       *)
LEMMA OwnStep ==
  ASSUME ReceiptInv, NEW l \in Lines, NEW n \in ReceiptTx,
         tx' = [tx EXCEPT ![l] = n], tx[l].pc \notin {"new", "done"}, n.pc # "done",
         UNCHANGED <<line, stock, key, adjusted, vendorInvoice, receiptEdits>>,
         n.pc = "update" => \A r \in n.row :
           n.version = stock[r].version /\ stock[r].place = line[l].place /\ n.had = stock[r].qty,
         n.pc \in {"book", "commit"} /\ n.holds = {} => line[l].qty = 0,
         n.holds # {} => n.pc \in {"book", "commit"} /\ n.had = tx[l].had,
         \/ n.holds = tx[l].holds
         \/ /\ tx[l].holds = {}
            /\ \E r \in Lines :
                 /\ n.holds = {r} /\ \A m \in Lines \ {l} : r \notin tx[m].holds
                 /\ stock[r].live /\ stock[r].place = line[l].place /\ n.had = stock[r].qty
  PROVE  ReceiptInv'
<1>1. tx' \in [Lines -> ReceiptTx] /\ tx'[l] = n /\ \A m \in Lines \ {l} : tx'[m] = tx[m]
  BY DEF ReceiptInv, ReceiptsType
<1>2. ReceiptsType'
  BY <1>1 DEF ReceiptInv, ReceiptsType
<1>3. \A r \in Lines, p \in Places : Inserting(r, p) => Inserting(r, p)'
  BY <1>1 DEF Inserting
<1>4. KeysGuardPlaces'
  BY <1>3 DEF ReceiptInv, KeysGuardPlaces, ReceiptsType
<1>5. RowsComeFromLines'
  BY <1>1 DEF ReceiptInv, RowsComeFromLines
<1>6. WritersHoldTheirRow'
  BY <1>1 DEF ReceiptInv, WritersHoldTheirRow
<1>7. FoundStands'
  BY <1>1 DEF ReceiptInv, FoundStands, ReceiptsType, StockRow, ReceiptTx
<1>8. UncreditedLines'
  BY <1>1 DEF ReceiptInv, UncreditedLines
<1>9. StockAgrees'
  <2>1. \A p \in Places : Purchasing!Credited(p)' = Purchasing!Credited(p)
    BY DEF Purchasing!Credited
  <2> QED
    BY <2>1 DEF ReceiptInv, StockAgrees, Purchasing!AtPlace
<1> QED
  BY <1>2, <1>4, <1>5, <1>6, <1>7, <1>8, <1>9 DEF ReceiptInv

LEMMA BeginKeeps ==
  ASSUME ReceiptInv, NEW l \in Lines, NEW o \in Orders, NEW p \in Places, NEW qty \in Int,
         NEW accepted \in Int, NEW rejected \in Int,
         Purchasing!Begin(l, o, p, qty, accepted, rejected)
  PROVE  ReceiptInv'
<1>1. PICK q \in ReceiptTx : q = tx[l]
  BY DEF ReceiptInv, ReceiptsType
<1>2. PICK n : n = [q EXCEPT !.pc = IF qty > 0 THEN "find" ELSE "book"]
  OBVIOUS
<1>3. /\ n \in ReceiptTx /\ n.pc = (IF qty > 0 THEN "find" ELSE "book") /\ n.holds = q.holds
      /\ q.pc = "new" /\ tx' = [tx EXCEPT ![l] = n]
  BY <1>1, <1>2 DEF ReceiptTx, ReceiptSteps, Purchasing!Begin, Purchasing!Advance
<1>4. PICK w \in ReceiptLine :
        /\ line' = [line EXCEPT ![l] = w]
        /\ w.place = p /\ w.qty = qty /\ ~w.saved /\ w.credited = 0
  <2>1. PICK w : w = [saved |-> FALSE, order |-> o, place |-> p, qty |-> qty, credited |-> 0]
    OBVIOUS
  <2>2. w \in ReceiptLine
    BY <2>1 DEF ReceiptLine
  <2>3. line' = [line EXCEPT ![l] = w]
    BY <2>1 DEF Purchasing!Begin
  <2> QED
    BY <2>1, <2>2, <2>3
<1>5. q.holds = {} /\ line[l].credited = 0 /\ ~line[l].saved
  BY <1>1, <1>3 DEF ReceiptInv, WritersHoldTheirRow, UncreditedLines, ReceiptTx
<1>6. /\ tx' \in [Lines -> ReceiptTx] /\ tx'[l] = n /\ \A m \in Lines \ {l} : tx'[m] = tx[m]
      /\ line' \in [Lines -> ReceiptLine] /\ line'[l] = w
      /\ \A m \in Lines \ {l} : line'[m] = line[m]
  BY <1>3, <1>4 DEF ReceiptInv, ReceiptsType
<1>7. UNCHANGED <<stock, key, adjusted, vendorInvoice, receiptEdits>>
  BY DEF Purchasing!Begin
<1>8. ReceiptsType'
  BY <1>6, <1>7 DEF ReceiptInv, ReceiptsType
<1>9. \A r \in Lines, x \in Places : Inserting(r, x) => Inserting(r, x)'
  BY <1>1, <1>5, <1>6 DEF Inserting
<1>10. KeysGuardPlaces'
  BY <1>7, <1>9 DEF ReceiptInv, KeysGuardPlaces, ReceiptsType
<1>11. RowsComeFromLines'
  BY <1>1, <1>3, <1>6, <1>7 DEF ReceiptInv, RowsComeFromLines
<1>12. WritersHoldTheirRow'
  <2>1. tx'[l].holds = {}
    BY <1>3, <1>5, <1>6
  <2> SUFFICES ASSUME NEW m \in Lines, NEW r \in tx'[m].holds
               PROVE  /\ tx'[m].pc \in {"book", "commit"} /\ tx'[m].holds = {r}
                      /\ \A x \in Lines : r \in tx'[x].holds => x = m
                      /\ \/ stock'[r].live /\ stock'[r].place = line'[m].place /\ tx'[m].had = stock'[r].qty
                         \/ r = m /\ ~stock'[r].live /\ tx'[m].had = 0 /\ key'[line'[m].place] = {m}
    BY DEF WritersHoldTheirRow
  <2>2. m # l /\ tx'[m] = tx[m] /\ line'[m] = line[m]
    BY <1>6, <2>1
  <2>3. /\ tx[m].pc \in {"book", "commit"} /\ tx[m].holds = {r}
        /\ \A x \in Lines : r \in tx[x].holds => x = m
        /\ \/ stock[r].live /\ stock[r].place = line[m].place /\ tx[m].had = stock[r].qty
           \/ r = m /\ ~stock[r].live /\ tx[m].had = 0 /\ key[line[m].place] = {m}
    BY <2>2 DEF ReceiptInv, WritersHoldTheirRow
  <2> QED
    BY <1>6, <1>7, <2>1, <2>2, <2>3
<1>13. FoundStands'
  BY <1>3, <1>6, <1>7 DEF ReceiptInv, FoundStands
<1>14. UncreditedLines'
  <2>1. qty > 0 \/ qty = 0
    BY DEF Purchasing!Begin, Purchasing!ValidateGoodsReceiptLineQuality
  <2> QED
    BY <1>3, <1>4, <1>5, <1>6, <2>1 DEF ReceiptInv, UncreditedLines
<1>15. StockAgrees'
  <2>1. \A x \in Places : Purchasing!Credited(x)' = Purchasing!Credited(x)
    <3>1. \A m \in Lines : line'[m].credited = line[m].credited
      BY <1>4, <1>5, <1>6
    <3>2. \A m \in Lines : line'[m].place = line[m].place \/ line[m].credited = 0
      BY <1>5, <1>6
    <3> QED
      BY ONLY <3>1, <3>2, CreditedStands
  <2> QED
    BY <1>7, <2>1 DEF ReceiptInv, StockAgrees, Purchasing!AtPlace
<1> QED
  BY <1>8, <1>10, <1>11, <1>12, <1>13, <1>14, <1>15 DEF ReceiptInv

LEMMA FindKeeps ==
  ASSUME ReceiptInv, NEW l \in Lines, Purchasing!Find(l)
  PROVE  ReceiptInv'
<1>1. PICK q \in ReceiptTx : q = tx[l]
  BY DEF ReceiptInv, ReceiptsType
<1>2. q.pc = "find" /\ q.holds = {}
  BY <1>1 DEF Purchasing!Find, ReceiptInv, WritersHoldTheirRow, ReceiptTx
<1>3. UNCHANGED <<line, stock, key, adjusted, vendorInvoice, receiptEdits>>
  BY DEF Purchasing!Find
<1>4. CASE Purchasing!AtPlace(line[l].place) = {}
  <2>1. PICK n : n = [q EXCEPT !.pc = "insert", !.row = {}]
    OBVIOUS
  <2>2. n \in ReceiptTx /\ n.pc = "insert" /\ n.holds = {} /\ n.had = q.had
    BY <1>2, <2>1 DEF ReceiptTx, ReceiptSteps
  <2>3. tx' = [tx EXCEPT ![l] = n]
    BY <1>1, <1>4, <2>1 DEF Purchasing!Find
  <2> QED
    BY <1>1, <1>2, <1>3, <2>2, <2>3, OwnStep
<1>5. CASE Purchasing!AtPlace(line[l].place) # {}
  <2>1. PICK r \in Lines :
          /\ r = CHOOSE x \in Purchasing!AtPlace(line[l].place) : TRUE
          /\ stock[r].live /\ stock[r].place = line[l].place
    BY <1>5 DEF Purchasing!AtPlace
  <2>2. PICK n : n = [q EXCEPT !.pc = "update", !.row = {r}, !.version = stock[r].version,
                               !.had = stock[r].qty]
    OBVIOUS
  <2>3. stock[r] \in StockRow
    BY DEF ReceiptInv, ReceiptsType
  <2>4. /\ n \in ReceiptTx /\ n.pc = "update" /\ n.holds = {} /\ n.row = {r}
        /\ n.version = stock[r].version /\ n.had = stock[r].qty
    BY <1>2, <2>2, <2>3 DEF ReceiptTx, ReceiptSteps, StockRow
  <2>5. tx' = [tx EXCEPT ![l] = n]
    BY <1>1, <1>5, <2>1, <2>2 DEF Purchasing!Find
  <2> QED
    BY <1>1, <1>2, <1>3, <2>1, <2>4, <2>5, OwnStep
<1> QED
  BY <1>4, <1>5

(* After a conflict a transaction starts over, or gives up.                *)
LEMMA AgainKeeps ==
  ASSUME ReceiptInv, NEW l \in Lines, tx[l].pc \in {"update", "insert"}, Purchasing!Again(l),
         UNCHANGED <<line, stock, key, adjusted, vendorInvoice, receiptEdits>>
  PROVE  ReceiptInv'
<1>1. PICK q \in ReceiptTx : q = tx[l]
  BY DEF ReceiptInv, ReceiptsType
<1>2. q.pc \in {"update", "insert"} /\ q.holds = {}
  BY <1>1 DEF ReceiptInv, WritersHoldTheirRow, ReceiptTx
<1>3. PICK n \in ReceiptTx : /\ n.pc \in {"find", "failed"} /\ n.holds = {}
                             /\ tx' = [tx EXCEPT ![l] = n]
  <2>1. CASE q.attempt >= MaxRetries
    <3>1. PICK n : n = [Purchasing!NoTx EXCEPT !.pc = "failed"]
      OBVIOUS
    <3>2. n \in ReceiptTx /\ n.pc = "failed" /\ n.holds = {}
      BY <3>1, PurchasingAssumption DEF ReceiptTx, ReceiptSteps, Purchasing!NoTx
    <3> QED
      BY <1>1, <2>1, <3>1, <3>2 DEF Purchasing!Again
  <2>2. CASE ~(q.attempt >= MaxRetries)
    <3>1. PICK n : n = [q EXCEPT !.pc = "find", !.attempt = q.attempt + 1]
      OBVIOUS
    <3>2. q.attempt + 1 \in 0..MaxRetries
      BY <2>2, PurchasingAssumption DEF ReceiptTx
    <3>3. n \in ReceiptTx /\ n.pc = "find" /\ n.holds = {}
      BY <1>2, <3>1, <3>2 DEF ReceiptTx, ReceiptSteps
    <3> QED
      BY <1>1, <2>2, <3>1, <3>3 DEF Purchasing!Again
  <2> QED
    BY <2>1, <2>2
<1> QED
  BY <1>1, <1>2, <1>3, OwnStep

LEMMA UpdateStockKeeps ==
  ASSUME ReceiptInv, NEW l \in Lines, Purchasing!UpdateStock(l)
  PROVE  ReceiptInv'
<1>1. UNCHANGED <<line, stock, key, adjusted, vendorInvoice, receiptEdits>>
  BY DEF Purchasing!UpdateStock
<1>2. PICK q \in ReceiptTx : q = tx[l]
  BY DEF ReceiptInv, ReceiptsType
<1>3. q.pc = "update" /\ q.holds = {}
  BY <1>2 DEF Purchasing!UpdateStock, ReceiptInv, WritersHoldTheirRow, ReceiptTx
<1>4. PICK r \in q.row :
        /\ ~Purchasing!HeldByOther(l, r)
        /\ IF Purchasing!Unchanged(l, r)
             THEN tx' = [tx EXCEPT ![l] = [tx[l] EXCEPT !.pc = "book", !.holds = {r}]]
             ELSE Purchasing!Again(l)
  BY <1>2 DEF Purchasing!UpdateStock
<1>5. CASE Purchasing!Unchanged(l, r)
  <2>1. PICK n : n = [q EXCEPT !.pc = "book", !.holds = {r}]
    OBVIOUS
  <2>2. r \in Lines
    BY DEF ReceiptTx
  <2>3. n \in ReceiptTx /\ n.pc = "book" /\ n.holds = {r} /\ n.had = q.had
    BY <2>1, <2>2 DEF ReceiptTx, ReceiptSteps
  <2>4. tx' = [tx EXCEPT ![l] = n]
    BY <1>2, <1>4, <1>5, <2>1
  <2>5. stock[r].live /\ stock[r].place = line[l].place /\ n.had = stock[r].qty
    BY <1>2, <1>3, <1>5, <2>3 DEF ReceiptInv, FoundStands, Purchasing!Unchanged
  <2>6. \A m \in Lines \ {l} : r \notin tx[m].holds
    BY <1>4 DEF Purchasing!HeldByOther
  <2> QED
    BY <1>1, <1>2, <1>3, <2>2, <2>3, <2>4, <2>5, <2>6, OwnStep
<1>6. CASE ~Purchasing!Unchanged(l, r)
  BY <1>1, <1>2, <1>3, <1>4, <1>6, AgainKeeps
<1> QED
  BY <1>5, <1>6

LEMMA InsertStockKeeps ==
  ASSUME ReceiptInv, NEW l \in Lines, Purchasing!InsertStock(l)
  PROVE  ReceiptInv'
<1>1. UNCHANGED <<line, stock, adjusted, vendorInvoice, receiptEdits>>
  BY DEF Purchasing!InsertStock
<1>2. PICK q \in ReceiptTx : q = tx[l]
  BY DEF ReceiptInv, ReceiptsType
<1>3. q.pc = "insert" /\ q.holds = {} /\ ~stock[l].live
  BY <1>2 DEF Purchasing!InsertStock, ReceiptInv, WritersHoldTheirRow, RowsComeFromLines, ReceiptTx
<1>4. CASE Purchasing!KeyTaken(line[l].place)
  BY <1>1, <1>2, <1>3, <1>4, AgainKeeps DEF Purchasing!InsertStock
<1>5. CASE ~Purchasing!KeyTaken(line[l].place)
  <2> DEFINE p == line[l].place
  <2>1. PICK n : n = [q EXCEPT !.pc = "book", !.holds = {l}, !.row = {l}, !.had = 0]
    OBVIOUS
  <2>2. n \in ReceiptTx /\ n.pc = "book" /\ n.holds = {l} /\ n.had = 0
    <3>1. /\ {l} \in SUBSET Lines /\ "book" \in ReceiptSteps /\ 0 \in Int
          /\ q.version \in Int /\ q.attempt \in 0..MaxRetries
      BY DEF ReceiptTx, ReceiptSteps
    <3>2. n = [pc |-> "book", row |-> {l}, version |-> q.version, had |-> 0,
               holds |-> {l}, attempt |-> q.attempt]
      BY <2>1 DEF ReceiptTx
    <3> QED
      BY <3>1, <3>2 DEF ReceiptTx
  <2>3. tx' = [tx EXCEPT ![l] = n] /\ key' = [key EXCEPT ![p] = {l}]
    BY <1>2, <1>5, <2>1 DEF Purchasing!InsertStock
  <2>4. p \in Places /\ key[p] = {}
    BY <1>5 DEF Purchasing!KeyTaken, ReceiptInv, ReceiptsType, ReceiptLine
  <2>5. /\ tx' \in [Lines -> ReceiptTx] /\ tx'[l] = n /\ \A m \in Lines \ {l} : tx'[m] = tx[m]
        /\ key' \in [Places -> SUBSET Lines] /\ key'[p] = {l}
        /\ \A x \in Places \ {p} : key'[x] = key[x]
    BY <2>2, <2>3, <2>4 DEF ReceiptInv, ReceiptsType
  <2> HIDE DEF p
  <2>6. \A r \in Lines : ~(stock[r].live /\ stock[r].place = p)
    BY <2>4 DEF ReceiptInv, KeysGuardPlaces
  <2>7. \A r \in Lines : l \notin tx[r].holds
    BY <1>2, <1>3 DEF ReceiptInv, WritersHoldTheirRow
  <2>8. ReceiptsType'
    BY <1>1, <2>5 DEF ReceiptInv, ReceiptsType
  <2>9. KeysGuardPlaces'
    <3>1. \A r \in Lines, x \in Places : Inserting(r, x) => Inserting(r, x)'
      BY <1>1, <1>2, <1>3, <2>5 DEF Inserting
    <3>2. Inserting(l, p)'
      BY <1>1, <2>2, <2>5 DEF Inserting, p
    <3> SUFFICES ASSUME NEW x \in Places
                 PROVE  /\ \A r \in Lines : stock[r].live /\ stock[r].place = x => key'[x] = {r}
                        /\ \A r \in key'[x] : (stock[r].live /\ stock[r].place = x) \/ Inserting(r, x)'
      BY <1>1 DEF KeysGuardPlaces
    <3>3. CASE x = p
      <4>1. \A r \in Lines : ~(stock[r].live /\ stock[r].place = x)
        BY <2>6, <3>3
      <4>2. \A r \in key'[x] : Inserting(r, x)'
        <5>1. key'[x] = {l} /\ tx'[l].holds = {l} /\ line'[l].place = x
          BY <1>1, <2>2, <2>5, <3>3 DEF p
        <5> QED
          BY <5>1 DEF Inserting
      <4> QED
        BY <4>1, <4>2
    <3>4. CASE x # p
      <4>1. key'[x] = key[x] /\ key[x] \subseteq Lines
        BY <2>5, <3>4 DEF ReceiptInv, ReceiptsType
      <4>2. /\ \A r \in Lines : stock[r].live /\ stock[r].place = x => key[x] = {r}
            /\ \A r \in key[x] : (stock[r].live /\ stock[r].place = x) \/ Inserting(r, x)
        BY DEF ReceiptInv, KeysGuardPlaces
      <4> QED
        BY <3>1, <4>1, <4>2
    <3> QED
      BY <3>3, <3>4
  <2>10. RowsComeFromLines'
    BY <1>1, <1>3, <2>5 DEF ReceiptInv, RowsComeFromLines
  <2>11. WritersHoldTheirRow'
    <3> SUFFICES ASSUME NEW m \in Lines, NEW r \in tx'[m].holds
                 PROVE  /\ tx'[m].pc \in {"book", "commit"} /\ tx'[m].holds = {r}
                        /\ \A x \in Lines : r \in tx'[x].holds => x = m
                        /\ \/ stock[r].live /\ stock[r].place = line[m].place /\ tx'[m].had = stock[r].qty
                           \/ r = m /\ ~stock[r].live /\ tx'[m].had = 0 /\ key'[line[m].place] = {m}
      BY <1>1 DEF WritersHoldTheirRow
    <3>1. CASE m = l
      BY <1>3, <2>2, <2>5, <2>7, <3>1 DEF p
    <3>2. CASE m # l
      <4>1. tx'[m] = tx[m]
        BY <2>5, <3>2
      <4>2. /\ tx[m].pc \in {"book", "commit"} /\ tx[m].holds = {r}
            /\ \A x \in Lines : r \in tx[x].holds => x = m
            /\ \/ stock[r].live /\ stock[r].place = line[m].place /\ tx[m].had = stock[r].qty
               \/ r = m /\ ~stock[r].live /\ tx[m].had = 0 /\ key[line[m].place] = {m}
        BY <4>1 DEF ReceiptInv, WritersHoldTheirRow
      <4>3. r # l
        BY <2>7, <4>1
      <4>4. line[m].place \in Places
        BY DEF ReceiptInv, ReceiptsType, ReceiptLine
      <4>5. key[line[m].place] = {m} => key'[line[m].place] = {m}
        BY <2>4, <2>5, <4>4
      <4> QED
        BY <2>2, <2>5, <4>1, <4>2, <4>3, <4>5
    <3> QED
      BY <3>1, <3>2
  <2>12. FoundStands'
    BY <1>1, <2>2, <2>5 DEF ReceiptInv, FoundStands
  <2>13. UncreditedLines'
    BY <1>1, <1>2, <1>3, <2>2, <2>5 DEF ReceiptInv, UncreditedLines
  <2>14. StockAgrees'
    <3>1. \A x \in Places : Purchasing!Credited(x)' = Purchasing!Credited(x)
      BY <1>1 DEF Purchasing!Credited
    <3> QED
      BY <1>1, <3>1 DEF ReceiptInv, StockAgrees, Purchasing!AtPlace
  <2> QED
    BY <2>8, <2>9, <2>10, <2>11, <2>12, <2>13, <2>14 DEF ReceiptInv
<1> QED
  BY <1>4, <1>5

(* A transaction that fails gives back the key it took.                    *)
LEMMA RollbackKeeps ==
  ASSUME ReceiptInv, NEW l \in Lines, Purchasing!Rollback(l), tx[l].pc \notin {"new", "done"},
         UNCHANGED <<line, stock, adjusted, vendorInvoice, receiptEdits>>
  PROVE  ReceiptInv'
<1>1. PICK n : n = [Purchasing!NoTx EXCEPT !.pc = "failed"]
  OBVIOUS
<1>2. n \in ReceiptTx /\ n.pc = "failed" /\ n.holds = {}
  BY <1>1, PurchasingAssumption DEF ReceiptTx, ReceiptSteps, Purchasing!NoTx
<1>3. tx' = [tx EXCEPT ![l] = n] /\ ~stock[l].live
  BY <1>1 DEF Purchasing!Rollback, ReceiptInv, RowsComeFromLines
<1>4. /\ tx' \in [Lines -> ReceiptTx] /\ tx'[l] = n /\ \A m \in Lines \ {l} : tx'[m] = tx[m]
      /\ key' \in [Places -> SUBSET Lines] /\ \A x \in Places : key'[x] = key[x] \ {l}
  BY <1>2, <1>3 DEF ReceiptInv, ReceiptsType, Purchasing!Rollback, Purchasing!ReleaseKeys
<1>5. ReceiptsType'
  BY <1>4 DEF ReceiptInv, ReceiptsType
<1>6. KeysGuardPlaces'
  <2>1. \A r \in Lines \ {l}, x \in Places : Inserting(r, x) => Inserting(r, x)'
    BY <1>4 DEF Inserting
  <2> QED
    BY <1>3, <1>4, <2>1 DEF ReceiptInv, KeysGuardPlaces, ReceiptsType
<1>7. RowsComeFromLines'
  BY <1>3, <1>4 DEF ReceiptInv, RowsComeFromLines
<1>8. WritersHoldTheirRow'
  <2> SUFFICES ASSUME NEW m \in Lines, NEW r \in tx'[m].holds
               PROVE  /\ tx'[m].pc \in {"book", "commit"} /\ tx'[m].holds = {r}
                      /\ \A x \in Lines : r \in tx'[x].holds => x = m
                      /\ \/ stock[r].live /\ stock[r].place = line[m].place /\ tx'[m].had = stock[r].qty
                         \/ r = m /\ ~stock[r].live /\ tx'[m].had = 0 /\ key'[line[m].place] = {m}
    BY DEF WritersHoldTheirRow
  <2>1. m # l /\ tx'[m] = tx[m] /\ line[m].place \in Places
    BY <1>2, <1>4 DEF ReceiptInv, ReceiptsType, ReceiptLine
  <2>2. /\ tx[m].pc \in {"book", "commit"} /\ tx[m].holds = {r}
        /\ \A x \in Lines : r \in tx[x].holds => x = m
        /\ \/ stock[r].live /\ stock[r].place = line[m].place /\ tx[m].had = stock[r].qty
           \/ r = m /\ ~stock[r].live /\ tx[m].had = 0 /\ key[line[m].place] = {m}
    BY <2>1 DEF ReceiptInv, WritersHoldTheirRow
  <2>3. key[line[m].place] = {m} => key'[line[m].place] = {m}
    BY <1>4, <2>1
  <2> QED
    BY <1>2, <1>4, <2>1, <2>2, <2>3
<1>9. FoundStands'
  BY <1>2, <1>4 DEF ReceiptInv, FoundStands
<1>10. UncreditedLines'
  BY <1>2, <1>4 DEF ReceiptInv, UncreditedLines
<1>11. StockAgrees'
  <2>1. \A x \in Places : Purchasing!Credited(x)' = Purchasing!Credited(x)
    BY DEF Purchasing!Credited
  <2> QED
    BY <2>1 DEF ReceiptInv, StockAgrees, Purchasing!AtPlace
<1> QED
  BY <1>5, <1>6, <1>7, <1>8, <1>9, <1>10, <1>11 DEF ReceiptInv

LEMMA BookKeeps ==
  ASSUME ReceiptInv, NEW l \in Lines, Purchasing!Book(l)
  PROVE  ReceiptInv'
<1>1. UNCHANGED <<line, stock, adjusted, vendorInvoice, receiptEdits>> /\ tx[l].pc = "book"
  BY DEF Purchasing!Book
<1>2. CASE open \/ line[l].qty = 0
  <2>1. PICK q \in ReceiptTx : q = tx[l]
    BY DEF ReceiptInv, ReceiptsType
  <2>2. PICK n : n = [q EXCEPT !.pc = "commit"]
    OBVIOUS
  <2>3. n \in ReceiptTx /\ n.pc = "commit" /\ n.holds = q.holds /\ n.had = q.had
    BY <2>2 DEF ReceiptTx, ReceiptSteps
  <2>4. tx' = [tx EXCEPT ![l] = n] /\ key' = key
    BY <1>2, <2>1, <2>2 DEF Purchasing!Book, Purchasing!Advance
  <2>5. n.holds = {} => line[l].qty = 0
    BY <1>1, <2>1, <2>3 DEF ReceiptInv, UncreditedLines
  <2> QED
    BY <1>1, <2>1, <2>3, <2>4, <2>5, OwnStep
<1>3. CASE ~(open \/ line[l].qty = 0)
  BY <1>1, <1>3, RollbackKeeps DEF Purchasing!Book
<1> QED
  BY <1>2, <1>3

LEMMA AbortKeeps ==
  ASSUME ReceiptInv, NEW l \in Lines, Purchasing!Abort(l)
  PROVE  ReceiptInv'
BY RollbackKeeps DEF Purchasing!Abort

(* A receipt that commits adds its quantity to the row it holds, or        *)
(* creates the row of its place with it.                                   *)
LEMMA CommitKeeps ==
  ASSUME ReceiptInv, NEW l \in Lines, Purchasing!Commit(l)
  PROVE  ReceiptInv'
<1> DEFINE p == line[l].place
           d == line[l].qty
<1>1. UNCHANGED <<key, adjusted, vendorInvoice, receiptEdits>> /\ tx[l].pc = "commit"
  BY DEF Purchasing!Commit
<1>2. PICK n : n = [Purchasing!NoTx EXCEPT !.pc = "done"]
  OBVIOUS
<1>3. n \in ReceiptTx /\ n.pc = "done" /\ n.holds = {}
  BY <1>2, PurchasingAssumption DEF ReceiptTx, ReceiptSteps, Purchasing!NoTx
<1>4. PICK w \in ReceiptLine : w = line[l]
  BY DEF ReceiptInv, ReceiptsType
<1>5. PICK v : v = [w EXCEPT !.saved = TRUE, !.credited = w.credited + w.qty]
  OBVIOUS
<1>6. v \in ReceiptLine /\ v.place = p /\ v.credited = w.credited + d /\ d \in Int /\ p \in Places
  <2>1. v = [saved |-> TRUE, order |-> w.order, place |-> w.place, qty |-> w.qty,
             credited |-> w.credited + w.qty]
    BY <1>5 DEF ReceiptLine
  <2>2. w.order \in Orders /\ w.place \in Places /\ w.qty \in Int /\ w.credited + w.qty \in Int
    BY DEF ReceiptLine
  <2>3. v \in ReceiptLine
    BY ONLY <2>1, <2>2 DEF ReceiptLine
  <2> QED
    BY <1>4, <2>1, <2>2, <2>3
<1>7. line' = [line EXCEPT ![l] = v]
  BY <1>4, <1>5 DEF Purchasing!Commit, ReceiptInv, ReceiptsType
<1>8. tx' = [tx EXCEPT ![l] = n]
  BY <1>2 DEF Purchasing!Commit
<1>9. /\ tx' \in [Lines -> ReceiptTx] /\ tx'[l] = n /\ \A m \in Lines \ {l} : tx'[m] = tx[m]
      /\ line' \in [Lines -> ReceiptLine] /\ line'[l] = v
      /\ \A m \in Lines \ {l} : line'[m] = line[m]
  BY <1>3, <1>6, <1>7, <1>8 DEF ReceiptInv, ReceiptsType
<1>10. \A r \in Lines : stock[r] \in StockRow /\ stock'[r] =
         IF r \in tx[l].holds
           THEN [live |-> TRUE, place |-> p, qty |-> tx[l].had + d, version |-> stock[r].version + 1]
           ELSE stock[r]
  BY DEF Purchasing!Commit, ReceiptInv, ReceiptsType
<1>11. \A r \in Lines : r \notin tx[l].holds => stock'[r] = stock[r]
  BY <1>10
<1>12. \A r \in tx[l].holds :
         /\ r \in Lines /\ stock'[r] \in StockRow /\ stock'[r].live /\ stock'[r].place = p
         /\ stock'[r].qty = tx[l].had + d /\ stock'[r].version = stock[r].version + 1
  <2> TAKE r \in tx[l].holds
  <2>1. r \in Lines /\ tx[l].had \in Int /\ stock[r].version \in Int
    BY <1>10 DEF ReceiptInv, ReceiptsType, ReceiptTx, StockRow
  <2>2. stock'[r] = [live |-> TRUE, place |-> p, qty |-> tx[l].had + d, version |-> stock[r].version + 1]
    BY <1>10, <2>1
  <2> QED
    BY <1>6, <2>1, <2>2 DEF StockRow
<1>13. ReceiptsType'
  <2>1. stock' \in [Lines -> StockRow]
    <3>1. \A r \in Lines : stock'[r] \in StockRow
      BY <1>10, <1>11, <1>12
    <3>2. DOMAIN stock' = Lines /\ stock' = [r \in DOMAIN stock' |-> stock'[r]]
      BY DEF Purchasing!Commit
    <3> QED
      BY <3>1, <3>2
  <2> QED
    BY <1>1, <1>9, <2>1 DEF ReceiptInv, ReceiptsType
<1> HIDE DEF p, d
<1>14. \A r \in tx[l].holds :
         /\ tx[l].holds = {r} /\ \A m \in Lines : r \in tx[m].holds => m = l
         /\ key[p] = {r}
         /\ \/ stock[r].live /\ stock[r].place = p /\ tx[l].had = stock[r].qty
            \/ r = l /\ ~stock[r].live /\ tx[l].had = 0 /\ Purchasing!AtPlace(p) = {}
  <2> TAKE r \in tx[l].holds
  <2>1. /\ tx[l].holds = {r} /\ \A m \in Lines : r \in tx[m].holds => m = l
        /\ \/ stock[r].live /\ stock[r].place = p /\ tx[l].had = stock[r].qty
           \/ r = l /\ ~stock[r].live /\ tx[l].had = 0 /\ key[p] = {l}
    BY DEF ReceiptInv, WritersHoldTheirRow, p
  <2>2. r \in Lines
    BY <1>12
  <2>3. \A x \in Lines : stock[x].live /\ stock[x].place = p => key[p] = {x}
    BY <1>6 DEF ReceiptInv, KeysGuardPlaces
  <2>4. CASE stock[r].live /\ stock[r].place = p /\ tx[l].had = stock[r].qty
    BY <2>1, <2>2, <2>3, <2>4
  <2>5. CASE r = l /\ ~stock[r].live /\ tx[l].had = 0 /\ key[p] = {l}
    BY <2>1, <2>2, <2>3, <2>5 DEF Purchasing!AtPlace
  <2> QED
    BY <2>1, <2>4, <2>5
<1>15. KeysGuardPlaces'
  <2>1. \A r \in Lines, x \in Places : r # l => Inserting(r, x)' = Inserting(r, x)
    BY <1>9 DEF Inserting
  <2>2. \A x \in Places : Inserting(l, x) => x = p /\ stock'[l].live /\ stock'[l].place = p
    BY <1>12 DEF Inserting, p
  <2> SUFFICES ASSUME NEW x \in Places
               PROVE  /\ \A r \in Lines : stock'[r].live /\ stock'[r].place = x => key[x] = {r}
                      /\ \A r \in key[x] : (stock'[r].live /\ stock'[r].place = x) \/ Inserting(r, x)'
    BY <1>1 DEF KeysGuardPlaces
  <2>3. /\ \A r \in Lines : stock[r].live /\ stock[r].place = x => key[x] = {r}
        /\ \A r \in key[x] : (stock[r].live /\ stock[r].place = x) \/ Inserting(r, x)
        /\ key[x] \subseteq Lines
    BY DEF ReceiptInv, KeysGuardPlaces, ReceiptsType
  <2>4. ASSUME NEW r \in Lines, stock'[r].live, stock'[r].place = x
        PROVE  key[x] = {r}
    BY <1>11, <1>12, <1>14, <2>3, <2>4
  <2>5. ASSUME NEW r \in key[x]
        PROVE  (stock'[r].live /\ stock'[r].place = x) \/ Inserting(r, x)'
    <3>1. CASE r \in tx[l].holds
      <4>1. stock[r].live /\ stock[r].place = x => x = p
        BY <1>6, <1>14, <2>3, <2>5, <3>1 DEF ReceiptInv, KeysGuardPlaces
      <4>2. Inserting(r, x) => r = l
        BY <1>14, <2>3, <2>5, <3>1 DEF Inserting
      <4> QED
        BY <1>12, <2>2, <2>3, <2>5, <3>1, <4>1, <4>2
    <3>2. CASE r \notin tx[l].holds
      BY <1>11, <2>1, <2>3, <2>5, <3>2 DEF Inserting
    <3> QED
      BY <3>1, <3>2
  <2> QED
    BY <2>4, <2>5
<1>16. RowsComeFromLines'
  <2> SUFFICES ASSUME NEW r \in Lines, stock'[r].live PROVE tx'[r].pc = "done"
    BY DEF RowsComeFromLines
  <2> QED
    BY <1>3, <1>9, <1>11, <1>14 DEF ReceiptInv, RowsComeFromLines
<1>17. WritersHoldTheirRow'
  <2> SUFFICES ASSUME NEW m \in Lines, NEW r \in tx'[m].holds
               PROVE  /\ tx'[m].pc \in {"book", "commit"} /\ tx'[m].holds = {r}
                      /\ \A x \in Lines : r \in tx'[x].holds => x = m
                      /\ \/ stock'[r].live /\ stock'[r].place = line'[m].place /\ tx'[m].had = stock'[r].qty
                         \/ r = m /\ ~stock'[r].live /\ tx'[m].had = 0 /\ key[line'[m].place] = {m}
    BY <1>1 DEF WritersHoldTheirRow
  <2>1. m # l /\ tx'[m] = tx[m] /\ line'[m] = line[m] /\ r \in Lines
    BY <1>3, <1>9 DEF ReceiptTx
  <2>2. /\ tx[m].pc \in {"book", "commit"} /\ tx[m].holds = {r}
        /\ \A x \in Lines : r \in tx[x].holds => x = m
        /\ \/ stock[r].live /\ stock[r].place = line[m].place /\ tx[m].had = stock[r].qty
           \/ r = m /\ ~stock[r].live /\ tx[m].had = 0 /\ key[line[m].place] = {m}
    BY <2>1 DEF ReceiptInv, WritersHoldTheirRow
  <2>3. stock'[r] = stock[r]
    BY <1>11, <2>1, <2>2
  <2> QED
    BY <1>3, <1>9, <2>1, <2>2, <2>3
<1>18. FoundStands'
  <2> SUFFICES ASSUME NEW m \in Lines, tx'[m].pc = "update", NEW r \in tx'[m].row
               PROVE  /\ tx'[m].version <= stock'[r].version
                      /\ stock'[r].live /\ tx'[m].version = stock'[r].version =>
                           stock'[r].place = line'[m].place /\ tx'[m].had = stock'[r].qty
    BY DEF FoundStands
  <2>1. m # l /\ tx'[m] = tx[m] /\ line'[m] = line[m] /\ r \in Lines /\ tx[m].version \in Int
    BY <1>3, <1>9 DEF ReceiptTx, ReceiptInv, ReceiptsType
  <2>2. /\ tx[m].version <= stock[r].version
        /\ stock[r].live /\ tx[m].version = stock[r].version =>
             stock[r].place = line[m].place /\ tx[m].had = stock[r].qty
    BY <2>1 DEF ReceiptInv, FoundStands
  <2>3. CASE r \in tx[l].holds
    <3>1. stock'[r].version = stock[r].version + 1 /\ stock[r].version \in Int
      BY <1>10, <1>12, <2>3 DEF StockRow
    <3> QED
      BY <2>1, <2>2, <3>1
  <2>4. CASE r \notin tx[l].holds
    BY <1>11, <2>1, <2>2, <2>4
  <2> QED
    BY <2>3, <2>4
<1>19. UncreditedLines'
  BY <1>3, <1>9 DEF ReceiptInv, UncreditedLines
<1>20. StockAgrees'
  <2>1. \A x \in Places : /\ Purchasing!Credited(x) \in Int /\ adjusted[x] \in Int
                          /\ Purchasing!Credited(x)' =
                               IF x = p THEN Purchasing!Credited(x) + d ELSE Purchasing!Credited(x)
    <3> TAKE x \in Places
    <3>1. line \in [Lines -> ReceiptLine] /\ line' \in [Lines -> ReceiptLine]
      BY <1>9 DEF ReceiptInv, ReceiptsType
    <3>2. Purchasing!Credited(x) \in Int /\ adjusted[x] \in Int
      BY <3>1, CreditedIsInt DEF ReceiptInv, ReceiptsType
    <3>3. line'[l].place = line[l].place /\ \A m \in Lines : m # l => line'[m] = line[m]
      BY <1>6, <1>9 DEF p
    <3>4. Purchasing!Credited(x)' = IF line[l].place = x
            THEN Purchasing!Credited(x) + line'[l].credited - line[l].credited
            ELSE Purchasing!Credited(x)
      BY ONLY <3>1, <3>3, l \in Lines, x \in Places, CreditedGrows
    <3>5. line'[l].credited = line[l].credited + d /\ line[l].credited \in Int
      BY <1>4, <1>6, <1>9 DEF ReceiptLine
    <3> QED
      BY <1>6, <3>2, <3>4, <3>5 DEF p
  <2> SUFFICES ASSUME NEW x \in Places
               PROVE  /\ \A r \in Lines : stock'[r].live /\ stock'[r].place = x =>
                           stock'[r].qty = Purchasing!Credited(x)' + adjusted[x]
                      /\ Purchasing!AtPlace(x)' = {} => Purchasing!Credited(x)' + adjusted[x] = 0
    BY <1>1 DEF StockAgrees
  <2>2. /\ \A r \in Lines : stock[r].live /\ stock[r].place = x =>
             stock[r].qty = Purchasing!Credited(x) + adjusted[x]
        /\ Purchasing!AtPlace(x) = {} => Purchasing!Credited(x) + adjusted[x] = 0
    BY DEF ReceiptInv, StockAgrees
  <2>3. tx[l].holds = {} => d = 0
    BY <1>1 DEF ReceiptInv, UncreditedLines, d
  <2>4. tx[l].holds \subseteq Lines
    BY <1>12
  <2>5. ASSUME NEW r \in Lines, stock'[r].live, stock'[r].place = x
        PROVE  stock'[r].qty = Purchasing!Credited(x)' + adjusted[x]
    <3>1. CASE r \in tx[l].holds
      <4>1. x = p /\ stock'[r].qty = tx[l].had + d
        BY <1>12, <2>5, <3>1
      <4>2. tx[l].had = Purchasing!Credited(x) + adjusted[x]
        BY <1>14, <2>2, <3>1, <4>1
      <4> QED
        BY <1>6, <2>1, <4>1, <4>2
    <3>2. CASE r \notin tx[l].holds
      <4>1. stock'[r] = stock[r]
        BY <1>11, <3>2
      <4>2. stock[r].qty = Purchasing!Credited(x) + adjusted[x]
        BY <2>2, <2>5, <4>1
      <4>3. x = p => key[p] = {r}
        BY <1>6, <2>5, <4>1 DEF ReceiptInv, KeysGuardPlaces
      <4>4. x = p => tx[l].holds = {}
        BY <1>14, <3>2, <4>3
      <4> QED
        BY <2>1, <2>3, <4>1, <4>2, <4>4
    <3> QED
      BY <3>1, <3>2
  <2>6. ASSUME Purchasing!AtPlace(x)' = {}
        PROVE  Purchasing!Credited(x)' + adjusted[x] = 0
    <3>1. \A r \in Lines : ~(stock'[r].live /\ stock'[r].place = x)
      BY <2>6 DEF Purchasing!AtPlace
    <3>2. Purchasing!AtPlace(x) = {}
      BY <1>11, <1>12, <1>14, <3>1 DEF Purchasing!AtPlace
    <3>3. x = p => tx[l].holds = {}
      BY <1>12, <3>1
    <3> QED
      BY <2>1, <2>2, <2>3, <3>2, <3>3
  <2> QED
    BY <2>5, <2>6
<1> QED
  BY <1>13, <1>15, <1>16, <1>17, <1>18, <1>19, <1>20 DEF ReceiptInv

(* What other users do to a row that no transaction has written.           *)
LEMMA RowStep ==
  ASSUME ReceiptInv, NEW r \in Lines, NEW w \in StockRow, stock[r].live,
         \A m \in Lines : r \notin tx[m].holds,
         stock' = [stock EXCEPT ![r] = w], w.version = stock[r].version + 1,
         w.place = stock[r].place,
         adjusted' = [adjusted EXCEPT ![stock[r].place] =
                        IF w.live THEN @ + w.qty - stock[r].qty ELSE @ - stock[r].qty],
         key' = IF w.live THEN key ELSE [key EXCEPT ![stock[r].place] = @ \ {r}],
         UNCHANGED <<line, tx, vendorInvoice>>, receiptEdits' \in 0..MaxReceiptEdits
  PROVE  ReceiptInv'
<1> DEFINE p == stock[r].place
<1>1. /\ p \in Places /\ stock[r] \in StockRow
      /\ stock' \in [Lines -> StockRow] /\ stock'[r] = w
      /\ \A x \in Lines \ {r} : stock'[x] = stock[x]
  BY DEF ReceiptInv, ReceiptsType, StockRow
<1>2. key[p] = {r} /\ \A x \in Lines \ {r} : ~(stock[x].live /\ stock[x].place = p)
  <2>1. \A x \in Lines : stock[x].live /\ stock[x].place = p => key[p] = {x}
    BY <1>1 DEF ReceiptInv, KeysGuardPlaces
  <2> QED
    BY <2>1
<1>3. adjusted \in [Places -> Int] /\ key \in [Places -> SUBSET Lines]
  BY DEF ReceiptInv, ReceiptsType
<1>4. w.qty \in Int /\ stock[r].qty \in Int /\ w.version \in Int /\ stock[r].version \in Int
  BY <1>1 DEF StockRow
<1> HIDE DEF p
<1>5. /\ adjusted' = [adjusted EXCEPT ![p] =
                        IF w.live THEN @ + w.qty - stock[r].qty ELSE @ - stock[r].qty]
      /\ key' = IF w.live THEN key ELSE [key EXCEPT ![p] = @ \ {r}]
      /\ w.place = p
  BY DEF p
<1>6. /\ adjusted' \in [Places -> Int]
      /\ adjusted'[p] = IF w.live THEN adjusted[p] + w.qty - stock[r].qty
                                  ELSE adjusted[p] - stock[r].qty
      /\ \A x \in Places \ {p} : adjusted'[x] = adjusted[x]
  <2>1. PICK v \in Int : v = IF w.live THEN adjusted[p] + w.qty - stock[r].qty
                                      ELSE adjusted[p] - stock[r].qty
    BY <1>1, <1>3, <1>4
  <2>2. adjusted' = [adjusted EXCEPT ![p] = v]
    BY <1>5, <2>1
  <2>3. adjusted' \in [Places -> Int] /\ adjusted'[p] = v
        /\ \A x \in Places \ {p} : adjusted'[x] = adjusted[x]
    BY ONLY <1>1, <1>3, <2>1, <2>2
  <2> QED
    BY <2>1, <2>3
<1>7. /\ key' \in [Places -> SUBSET Lines] /\ \A x \in Places \ {p} : key'[x] = key[x]
      /\ key'[p] = IF w.live THEN {r} ELSE {}
  <2>1. CASE w.live
    BY <1>2, <1>3, <1>5, <2>1
  <2>2. CASE ~w.live
    <3>1. key' = [key EXCEPT ![p] = key[p] \ {r}]
      BY <1>5, <2>2
    <3>2. key' = [key EXCEPT ![p] = {}]
      BY <1>2, <3>1
    <3>3. key' \in [Places -> SUBSET Lines] /\ key'[p] = {}
          /\ \A x \in Places \ {p} : key'[x] = key[x]
      BY ONLY <1>1, <1>3, <3>2
    <3> QED
      BY <2>2, <3>3
  <2> QED
    BY <2>1, <2>2
<1>8. ReceiptsType'
  BY <1>1, <1>6, <1>7 DEF ReceiptInv, ReceiptsType
<1>9. KeysGuardPlaces'
  <2> SUFFICES ASSUME NEW x \in Places
               PROVE  /\ \A q \in Lines : stock'[q].live /\ stock'[q].place = x => key'[x] = {q}
                      /\ \A q \in key'[x] : (stock'[q].live /\ stock'[q].place = x) \/ Inserting(q, x)
    BY DEF KeysGuardPlaces, Inserting
  <2>1. CASE x = p
    BY <1>1, <1>2, <1>5, <1>7, <2>1
  <2>2. CASE x # p
    <3>1. /\ \A q \in Lines : stock[q].live /\ stock[q].place = x => key[x] = {q}
          /\ \A q \in key[x] : (stock[q].live /\ stock[q].place = x) \/ Inserting(q, x)
          /\ key[x] \subseteq Lines /\ key'[x] = key[x]
      BY <1>3, <1>7, <2>2 DEF ReceiptInv, KeysGuardPlaces
    <3>2. ~(stock'[r].live /\ stock'[r].place = x) /\ ~(stock[r].live /\ stock[r].place = x)
      BY <1>1, <1>5, <2>2 DEF p
    <3> QED
      BY <1>1, <3>1, <3>2
  <2> QED
    BY <2>1, <2>2
<1>10. RowsComeFromLines'
  BY <1>1 DEF ReceiptInv, RowsComeFromLines
<1>11. WritersHoldTheirRow'
  <2> SUFFICES ASSUME NEW m \in Lines, NEW q \in tx[m].holds
               PROVE  /\ tx[m].pc \in {"book", "commit"} /\ tx[m].holds = {q}
                      /\ \A x \in Lines : q \in tx[x].holds => x = m
                      /\ \/ stock'[q].live /\ stock'[q].place = line[m].place /\ tx[m].had = stock'[q].qty
                         \/ q = m /\ ~stock'[q].live /\ tx[m].had = 0 /\ key'[line[m].place] = {m}
    BY DEF WritersHoldTheirRow
  <2>1. /\ tx[m].pc \in {"book", "commit"} /\ tx[m].holds = {q}
        /\ \A x \in Lines : q \in tx[x].holds => x = m
        /\ \/ stock[q].live /\ stock[q].place = line[m].place /\ tx[m].had = stock[q].qty
           \/ q = m /\ ~stock[q].live /\ tx[m].had = 0 /\ key[line[m].place] = {m}
    BY DEF ReceiptInv, WritersHoldTheirRow
  <2>2. q # r /\ q \in Lines /\ line[m].place \in Places
    BY DEF ReceiptInv, ReceiptsType, ReceiptTx, ReceiptLine
  <2>3. stock'[q] = stock[q]
    BY <1>1, <2>2
  <2>4. q = m /\ key[line[m].place] = {m} => key'[line[m].place] = {m}
    BY <1>2, <1>7, <2>2
  <2> QED
    BY <2>1, <2>3, <2>4
<1>12. FoundStands'
  <2> SUFFICES ASSUME NEW m \in Lines, tx[m].pc = "update", NEW q \in tx[m].row
               PROVE  /\ tx[m].version <= stock'[q].version
                      /\ stock'[q].live /\ tx[m].version = stock'[q].version =>
                           stock'[q].place = line[m].place /\ tx[m].had = stock'[q].qty
    BY DEF FoundStands
  <2>1. q \in Lines /\ tx[m].version \in Int
    BY DEF ReceiptTx, ReceiptInv, ReceiptsType
  <2>2. /\ tx[m].version <= stock[q].version
        /\ stock[q].live /\ tx[m].version = stock[q].version =>
             stock[q].place = line[m].place /\ tx[m].had = stock[q].qty
    BY DEF ReceiptInv, FoundStands
  <2>3. CASE q = r
    BY <1>1, <1>4, <2>1, <2>2, <2>3
  <2>4. CASE q # r
    BY <1>1, <2>1, <2>2, <2>4
  <2> QED
    BY <2>3, <2>4
<1>13. UncreditedLines'
  BY DEF ReceiptInv, UncreditedLines
<1>14. StockAgrees'
  <2>1. \A x \in Places : Purchasing!Credited(x)' = Purchasing!Credited(x)
    BY DEF Purchasing!Credited
  <2>2. Purchasing!Credited(p) \in Int /\ adjusted[p] \in Int
    BY <1>1, <1>3, CreditedIsInt DEF ReceiptInv, ReceiptsType
  <2>3. stock[r].qty = Purchasing!Credited(p) + adjusted[p]
    BY <1>1 DEF ReceiptInv, StockAgrees, p
  <2> SUFFICES ASSUME NEW x \in Places
               PROVE  /\ \A q \in Lines : stock'[q].live /\ stock'[q].place = x =>
                           stock'[q].qty = Purchasing!Credited(x) + adjusted'[x]
                      /\ Purchasing!AtPlace(x)' = {} => Purchasing!Credited(x) + adjusted'[x] = 0
    BY <2>1 DEF StockAgrees
  <2>4. CASE x = p
    <3>1. CASE w.live
      <4>1. adjusted'[p] = adjusted[p] + w.qty - stock[r].qty
        BY <1>6, <3>1
      <4>2. w.qty = Purchasing!Credited(p) + adjusted'[p]
        BY <1>4, <2>2, <2>3, <4>1
      <4>3. stock'[r].live /\ stock'[r].place = x
        BY <1>1, <1>5, <2>4, <3>1
      <4>4. Purchasing!AtPlace(x)' # {}
        BY <4>3 DEF Purchasing!AtPlace
      <4>5. \A q \in Lines : stock'[q].live /\ stock'[q].place = x => q = r
        BY <1>1, <1>2, <2>4
      <4>6. stock'[r].qty = Purchasing!Credited(x) + adjusted'[x]
        BY <1>1, <2>4, <4>2
      <4> QED
        BY <4>4, <4>5, <4>6
    <3>2. CASE ~w.live
      <4>1. adjusted'[p] = adjusted[p] - stock[r].qty
        BY <1>6, <3>2
      <4>2. Purchasing!Credited(p) + adjusted'[p] = 0
        BY <1>4, <2>2, <2>3, <4>1
      <4>3. \A q \in Lines : ~(stock'[q].live /\ stock'[q].place = p)
        BY <1>1, <1>2, <3>2
      <4> QED
        BY <2>4, <4>2, <4>3
    <3> QED
      BY <3>1, <3>2
  <2>5. CASE x # p
    <3>1. /\ \A q \in Lines : stock[q].live /\ stock[q].place = x =>
               stock[q].qty = Purchasing!Credited(x) + adjusted[x]
          /\ Purchasing!AtPlace(x) = {} => Purchasing!Credited(x) + adjusted[x] = 0
          /\ adjusted'[x] = adjusted[x]
      BY <1>6, <2>5 DEF ReceiptInv, StockAgrees
    <3>2. \A q \in Lines : stock'[q].live /\ stock'[q].place = x <=> stock[q].live /\ stock[q].place = x
      BY <1>1, <1>5, <2>5 DEF p
    <3>3. Purchasing!AtPlace(x)' = Purchasing!AtPlace(x)
      BY <3>2 DEF Purchasing!AtPlace
    <3>4. \A q \in Lines : stock[q].live /\ stock[q].place = x => stock'[q] = stock[q]
      BY <1>1, <2>5 DEF p
    <3> QED
      BY <3>1, <3>2, <3>3, <3>4
  <2> QED
    BY <2>4, <2>5
<1> QED
  BY <1>8, <1>9, <1>10, <1>11, <1>12, <1>13, <1>14 DEF ReceiptInv

LEMMA AdjustStockKeeps ==
  ASSUME ReceiptInv, NEW r \in Lines, NEW qty \in Int, Purchasing!AdjustStock(r, qty)
  PROVE  ReceiptInv'
<1>1. PICK q \in StockRow : q = stock[r]
  BY DEF ReceiptInv, ReceiptsType
<1>2. PICK w : w = [q EXCEPT !.qty = qty, !.version = q.version + 1]
  OBVIOUS
<1>3. /\ w \in StockRow /\ w.live = q.live /\ w.place = q.place /\ w.qty = qty
      /\ w.version = q.version + 1
  <2>1. w = [live |-> q.live, place |-> q.place, qty |-> qty, version |-> q.version + 1]
    BY <1>2 DEF StockRow
  <2>2. q.live \in BOOLEAN /\ q.place \in Places /\ q.version + 1 \in Int
    BY DEF StockRow
  <2>3. w \in StockRow
    BY ONLY <2>1, <2>2, qty \in Int DEF StockRow
  <2> QED
    BY <2>1, <2>3
<1>4. stock' = [stock EXCEPT ![r] = w]
  BY <1>1, <1>2 DEF Purchasing!AdjustStock, ReceiptInv, ReceiptsType
<1>5. /\ q.live /\ \A m \in Lines : r \notin tx[m].holds
      /\ adjusted' = [adjusted EXCEPT ![q.place] = @ + qty - q.qty]
      /\ UNCHANGED <<line, tx, key, vendorInvoice>>
  BY <1>1 DEF Purchasing!AdjustStock
<1>6. receiptEdits' \in 0..MaxReceiptEdits
  BY PurchasingAssumption DEF Purchasing!AdjustStock, Purchasing!Edit, ReceiptInv, ReceiptsType
<1>7. adjusted' = [adjusted EXCEPT ![stock[r].place] =
                     IF w.live THEN @ + w.qty - stock[r].qty ELSE @ - stock[r].qty]
  BY <1>1, <1>3, <1>5
<1> QED
  BY <1>1, <1>3, <1>4, <1>5, <1>6, <1>7, RowStep

LEMMA DeleteStockKeeps ==
  ASSUME ReceiptInv, NEW r \in Lines, Purchasing!DeleteStock(r)
  PROVE  ReceiptInv'
<1>1. PICK q \in StockRow : q = stock[r]
  BY DEF ReceiptInv, ReceiptsType
<1>2. PICK w : w = [q EXCEPT !.live = FALSE, !.version = q.version + 1]
  OBVIOUS
<1>3. w \in StockRow /\ ~w.live /\ w.place = q.place /\ w.version = q.version + 1
  <2>1. w = [live |-> FALSE, place |-> q.place, qty |-> q.qty, version |-> q.version + 1]
    BY <1>2 DEF StockRow
  <2>2. q.qty \in Int /\ q.place \in Places /\ q.version + 1 \in Int
    BY DEF StockRow
  <2>3. w \in StockRow
    BY ONLY <2>1, <2>2 DEF StockRow
  <2> QED
    BY <2>1, <2>3
<1>4. stock' = [stock EXCEPT ![r] = w]
  BY <1>1, <1>2 DEF Purchasing!DeleteStock, ReceiptInv, ReceiptsType
<1>5. /\ q.live /\ \A m \in Lines : r \notin tx[m].holds
      /\ adjusted' = [adjusted EXCEPT ![q.place] = @ - q.qty]
      /\ key' = [key EXCEPT ![q.place] = @ \ {r}]
      /\ UNCHANGED <<line, tx, vendorInvoice>>
  BY <1>1 DEF Purchasing!DeleteStock
<1>6. receiptEdits' \in 0..MaxReceiptEdits
  BY PurchasingAssumption DEF Purchasing!DeleteStock, Purchasing!Edit, ReceiptInv, ReceiptsType
<1>7. adjusted' = [adjusted EXCEPT ![stock[r].place] =
                     IF w.live THEN @ + w.qty - stock[r].qty ELSE @ - stock[r].qty]
  BY <1>1, <1>3, <1>5
<1> QED
  BY <1>1, <1>3, <1>4, <1>5, <1>6, <1>7, RowStep

LEMMA CorrectLineKeeps ==
  ASSUME ReceiptInv, NEW l \in Lines, NEW qty \in Int, Purchasing!CorrectLine(l, qty)
  PROVE  ReceiptInv'
<1>1. UNCHANGED <<tx, stock, key, adjusted, vendorInvoice>> /\ receiptEdits' \in 0..MaxReceiptEdits
  BY PurchasingAssumption DEF Purchasing!CorrectLine, Purchasing!Edit, ReceiptInv, ReceiptsType
<1>2. PICK w \in ReceiptLine : w = line[l]
  BY DEF ReceiptInv, ReceiptsType
<1>3. PICK v : v = [w EXCEPT !.qty = qty]
  OBVIOUS
<1>4. /\ v \in ReceiptLine /\ v.place = w.place /\ v.credited = w.credited
      /\ line' = [line EXCEPT ![l] = v]
  <2>1. v = [saved |-> w.saved, order |-> w.order, place |-> w.place, qty |-> qty,
             credited |-> w.credited]
    BY <1>3 DEF ReceiptLine
  <2>2. /\ w.saved \in BOOLEAN /\ w.order \in Orders /\ w.place \in Places
        /\ w.credited \in Int
    BY DEF ReceiptLine
  <2>3. v \in ReceiptLine
    BY ONLY <2>1, <2>2, qty \in Int DEF ReceiptLine
  <2>4. line' = [line EXCEPT ![l] = v]
    BY <1>2, <1>3 DEF Purchasing!CorrectLine, Purchasing!Correct, ReceiptInv, ReceiptsType
  <2> QED
    BY <2>1, <2>3, <2>4
<1>5. line' \in [Lines -> ReceiptLine] /\ line'[l] = v /\ \A m \in Lines \ {l} : line'[m] = line[m]
  BY <1>4 DEF ReceiptInv, ReceiptsType
<1>6. tx[l].pc = "done"
  BY DEF Purchasing!CorrectLine, ReceiptInv, UncreditedLines
<1>7. \A m \in Lines : line'[m].place = line[m].place /\ line'[m].credited = line[m].credited
  BY <1>2, <1>4, <1>5
<1>8. ReceiptsType'
  BY <1>1, <1>5 DEF ReceiptInv, ReceiptsType
<1>9. KeysGuardPlaces'
  <2>1. \A m \in Lines, p \in Places : Inserting(m, p)' <=> Inserting(m, p)
    BY <1>1, <1>7 DEF Inserting
  <2> QED
    BY <1>1, <2>1 DEF ReceiptInv, KeysGuardPlaces, ReceiptsType
<1>10. RowsComeFromLines'
  BY <1>1 DEF ReceiptInv, RowsComeFromLines
<1>11. WritersHoldTheirRow'
  BY <1>1, <1>7 DEF ReceiptInv, WritersHoldTheirRow
<1>12. FoundStands'
  BY <1>1, <1>7 DEF ReceiptInv, FoundStands
<1>13. UncreditedLines'
  BY <1>1, <1>5, <1>6 DEF ReceiptInv, UncreditedLines
<1>14. StockAgrees'
  <2>1. \A p \in Places : Purchasing!Credited(p)' = Purchasing!Credited(p)
    BY <1>7, CreditedStands
  <2> QED
    BY <1>1, <2>1 DEF ReceiptInv, StockAgrees, Purchasing!AtPlace
<1> QED
  BY <1>8, <1>9, <1>10, <1>11, <1>12, <1>13, <1>14 DEF ReceiptInv

(* Nothing but the invoices, the ledger and the edits.                     *)
LEMMA ReceiptsStand ==
  ASSUME ReceiptInv, UNCHANGED <<line, tx, stock, key, adjusted>>,
         vendorInvoice' \in [VendorInvoices -> VendorRow], receiptEdits' \in 0..MaxReceiptEdits
  PROVE  ReceiptInv'
<1>1. ReceiptsType'
  BY DEF ReceiptInv, ReceiptsType
<1>2. \A p \in Places : Purchasing!Credited(p)' = Purchasing!Credited(p)
  BY DEF Purchasing!Credited
<1>3. KeysGuardPlaces' /\ RowsComeFromLines' /\ WritersHoldTheirRow' /\ FoundStands' /\ UncreditedLines'
  BY DEF ReceiptInv, KeysGuardPlaces, RowsComeFromLines, WritersHoldTheirRow, FoundStands,
         UncreditedLines, Inserting
<1>4. StockAgrees'
  BY <1>2 DEF ReceiptInv, StockAgrees, Purchasing!AtPlace
<1> QED
  BY <1>1, <1>3, <1>4 DEF ReceiptInv

(* A saved invoice is matched without its exception, or not matched.       *)
LEMMA SaveInvoiceKeeps ==
  ASSUME ReceiptInv, Purchasing!MatchedIsClean, NEW i \in VendorInvoices,
         NEW s \in DOMAIN Purchasing!Steps, NEW total \in Int, NEW agrees \in BOOLEAN,
         Purchasing!SaveInvoice(i, s, total, agrees)
  PROVE  ReceiptInv' /\ Purchasing!MatchedIsClean'
<1>1. PICK q \in VendorRow : q = vendorInvoice[i]
  BY DEF ReceiptInv, ReceiptsType
<1>2. PICK w : w = [q EXCEPT !.status = s, !.total = total, !.vendorAgrees = agrees]
  OBVIOUS
<1>3. w \in VendorRow /\ w.status = s /\ w.reason = q.reason
  <2>1. w = [order |-> q.order, status |-> s, total |-> total, reason |-> q.reason,
             vendorAgrees |-> agrees]
    BY <1>2 DEF VendorRow
  <2>2. q.order \in Orders /\ q.reason \in BOOLEAN
    BY DEF VendorRow
  <2>3. w \in VendorRow
    BY ONLY <2>1, <2>2, s \in DOMAIN Purchasing!Steps, total \in Int, agrees \in BOOLEAN DEF VendorRow
  <2> QED
    BY <2>1, <2>3
<1>4. s \in Purchasing!Steps[q.status] /\ (q.status \in {"matched", "paid"} => ~q.reason)
  BY <1>1 DEF Purchasing!SaveInvoice, Purchasing!MatchedIsClean
<1>5. PICK n : n = Purchasing!MatchVendorInvoiceOnUpdate(w)
  OBVIOUS
<1>6. n \in VendorRow /\ (n.status \in {"matched", "paid"} => ~n.reason)
  <2>1. CASE w.status # "matched"
    <3>1. n = w
      BY <1>5, <2>1 DEF Purchasing!MatchVendorInvoiceOnUpdate
    <3>2. s = "paid" => q.status \in {"matched", "paid"}
      BY <1>4, VendorStatuses DEF VendorRow
    <3> QED
      BY <1>3, <1>4, <2>1, <3>1, <3>2
  <2>2. CASE w.status = "matched" /\ Purchasing!MatchAgrees(w)
    <3>1. n = [w EXCEPT !.reason = FALSE]
      BY <1>5, <2>2 DEF Purchasing!MatchVendorInvoiceOnUpdate
    <3> QED
      BY <1>3, <3>1 DEF VendorRow
  <2>3. CASE w.status = "matched" /\ ~Purchasing!MatchAgrees(w)
    <3>1. n = [w EXCEPT !.status = "match_exception", !.reason = TRUE]
      BY <1>5, <2>3 DEF Purchasing!MatchVendorInvoiceOnUpdate
    <3>2. "match_exception" \in DOMAIN Purchasing!Steps
      BY VendorStatuses
    <3> QED
      BY <1>3, <3>1, <3>2 DEF VendorRow
  <2> QED
    BY <2>1, <2>2, <2>3
<1>7. vendorInvoice' = [vendorInvoice EXCEPT ![i] = n]
  BY <1>1, <1>2, <1>5 DEF Purchasing!SaveInvoice
<1>8. /\ vendorInvoice' \in [VendorInvoices -> VendorRow] /\ vendorInvoice'[i] = n
      /\ \A x \in VendorInvoices \ {i} : vendorInvoice'[x] = vendorInvoice[x]
  BY <1>6, <1>7 DEF ReceiptInv, ReceiptsType
<1>9. UNCHANGED <<line, tx, stock, key, adjusted>> /\ receiptEdits' \in 0..MaxReceiptEdits
  BY PurchasingAssumption DEF Purchasing!SaveInvoice, Purchasing!Edit, ReceiptInv, ReceiptsType
<1>10. Purchasing!MatchedIsClean'
  BY <1>6, <1>8 DEF Purchasing!MatchedIsClean
<1> QED
  BY <1>8, <1>9, <1>10, ReceiptsStand

LEMMA ReceiptsPreserved ==
  ASSUME ReceiptInv, Purchasing!MatchedIsClean, [Purchasing!Next]_(Purchasing!vars)
  PROVE  ReceiptInv' /\ Purchasing!MatchedIsClean'
<1>1. CASE UNCHANGED Purchasing!vars
  <2>1. UNCHANGED <<line, tx, stock, key, adjusted, vendorInvoice, receiptEdits>>
    BY <1>1 DEF Purchasing!vars
  <2>2. ReceiptInv'
    BY <2>1, ReceiptsStand DEF ReceiptInv, ReceiptsType
  <2> QED
    BY <2>1, <2>2 DEF Purchasing!MatchedIsClean
<1>2. ASSUME NEW l \in Lines, Purchasing!Receive(l)
      PROVE  ReceiptInv' /\ Purchasing!MatchedIsClean'
  <2>1. ReceiptInv'
    <3>1. ASSUME NEW o \in Orders, NEW p \in Places, NEW qty \in Quantities,
                 NEW accepted \in Quantities, NEW rejected \in Quantities,
                 Purchasing!Begin(l, o, p, qty, accepted, rejected)
          PROVE  ReceiptInv'
      <4>1. qty \in Int /\ accepted \in Int /\ rejected \in Int
        BY PurchasingAssumption
      <4> QED
        BY <3>1, <4>1, BeginKeeps
    <3>2. CASE \/ Purchasing!Find(l) \/ Purchasing!UpdateStock(l) \/ Purchasing!InsertStock(l)
               \/ Purchasing!Book(l) \/ Purchasing!Commit(l) \/ Purchasing!Abort(l)
      BY <3>2, FindKeeps, UpdateStockKeeps, InsertStockKeeps, BookKeeps, CommitKeeps, AbortKeeps
    <3> QED
      BY <1>2, <3>1, <3>2 DEF Purchasing!Receive
  <2>2. UNCHANGED vendorInvoice
    BY <1>2 DEF Purchasing!Receive, Purchasing!Begin, Purchasing!Find, Purchasing!UpdateStock,
                Purchasing!InsertStock, Purchasing!Book, Purchasing!Commit, Purchasing!Abort
  <2> QED
    BY <2>1, <2>2 DEF Purchasing!MatchedIsClean
<1>3. ASSUME NEW r \in Lines, NEW qty \in Quantities, Purchasing!AdjustStock(r, qty)
      PROVE  ReceiptInv' /\ Purchasing!MatchedIsClean'
  <2>1. qty \in Int
    BY PurchasingAssumption
  <2> QED
    BY <1>3, <2>1, AdjustStockKeeps DEF Purchasing!AdjustStock, Purchasing!MatchedIsClean
<1>4. ASSUME NEW r \in Lines, Purchasing!DeleteStock(r)
      PROVE  ReceiptInv' /\ Purchasing!MatchedIsClean'
  BY <1>4, DeleteStockKeeps DEF Purchasing!DeleteStock, Purchasing!MatchedIsClean
<1>5. ASSUME NEW l \in Lines, NEW qty \in Quantities, Purchasing!CorrectLine(l, qty)
      PROVE  ReceiptInv' /\ Purchasing!MatchedIsClean'
  <2>1. qty \in Int
    BY PurchasingAssumption
  <2> QED
    BY <1>5, <2>1, CorrectLineKeeps DEF Purchasing!CorrectLine, Purchasing!MatchedIsClean
<1>6. CASE Purchasing!SetLedger
  <2>1. UNCHANGED <<line, tx, stock, key, adjusted, vendorInvoice>>
        /\ receiptEdits' \in 0..MaxReceiptEdits
    BY <1>6, PurchasingAssumption
    DEF Purchasing!SetLedger, Purchasing!Edit, ReceiptInv, ReceiptsType
  <2>2. vendorInvoice' \in [VendorInvoices -> VendorRow]
    BY <2>1 DEF ReceiptInv, ReceiptsType
  <2> QED
    BY <2>1, <2>2, ReceiptsStand DEF Purchasing!MatchedIsClean
<1>7. ASSUME NEW i \in VendorInvoices, NEW s \in DOMAIN Purchasing!Steps,
             NEW total \in Quantities, NEW v \in BOOLEAN, Purchasing!SaveInvoice(i, s, total, v)
      PROVE  ReceiptInv' /\ Purchasing!MatchedIsClean'
  <2>1. total \in Int
    BY PurchasingAssumption
  <2> QED
    BY <1>7, <2>1, SaveInvoiceKeeps
<1> QED
  BY <1>1, <1>2, <1>3, <1>4, <1>5, <1>6, <1>7 DEF Purchasing!Next

LEMMA ReceiptsAdd ==
  ASSUME ReceiptInv
  PROVE  Purchasing!TypeOK /\ Purchasing!StockCounts
<1>1. Purchasing!TypeOK
  BY DEF ReceiptInv, ReceiptsType, Purchasing!TypeOK, ReceiptLine, ReceiptTx, ReceiptSteps,
         StockRow, VendorRow
<1>2. ASSUME NEW p \in Places
      PROVE  /\ Purchasing!Cardinality(Purchasing!AtPlace(p)) <= 1
             /\ Purchasing!SumFunctionOnSet([r \in Lines |-> stock[r].qty], Purchasing!AtPlace(p))
                  = Purchasing!Credited(p) + adjusted[p]
  <2>1. \A S : Purchasing!Cardinality(S) = Cardinality(S)
    BY DEF Purchasing!Cardinality, Cardinality
  <2> DEFINE f == [r \in Lines |-> stock[r].qty]
  <2>2. CASE Purchasing!AtPlace(p) = {}
    <3>1. Cardinality({}) = 0 /\ Purchasing!SumFunctionOnSet(f, {}) = 0
      BY FS_EmptySet, SumOfNone
    <3>2. Purchasing!Credited(p) + adjusted[p] = 0
      BY <2>2 DEF ReceiptInv, StockAgrees
    <3> QED
      BY <2>1, <2>2, <3>1, <3>2
  <2>3. CASE Purchasing!AtPlace(p) # {}
    <3>1. PICK r \in Lines : stock[r].live /\ stock[r].place = p
      BY <2>3 DEF Purchasing!AtPlace
    <3>2. \A x \in Lines : stock[x].live /\ stock[x].place = p => key[p] = {x}
      BY DEF ReceiptInv, KeysGuardPlaces
    <3>3. Purchasing!AtPlace(p) = {r}
      BY <3>1, <3>2 DEF Purchasing!AtPlace
    <3>4. f[r] \in Int /\ f[r] = Purchasing!Credited(p) + adjusted[p]
      BY <3>1 DEF ReceiptInv, StockAgrees, ReceiptsType, StockRow
    <3> HIDE DEF f
    <3>5. Purchasing!SumFunctionOnSet(f, {r}) = f[r]
      BY <3>4, SumOfOne
    <3>6. Cardinality({r}) = 1
      BY FS_Singleton
    <3> QED
      BY <2>1, <3>3, <3>4, <3>5, <3>6 DEF f
  <2> QED
    BY <2>2, <2>3
<1> QED
  BY <1>1, <1>2 DEF Purchasing!StockCounts

LEMMA PurchasingSteps ==
  ASSUME [WorkNext]_allVars, part = "purchasing"
  PROVE  part' = part /\ [Purchasing!Next]_(Purchasing!vars)
<1>1. CASE WorkNext
  BY <1>1 DEF WorkNext, ImportStep, SignInStep, AccessStep, MemberStep, TaskStep, BookStep,
              PurchaseStep, AssetStep, SettingsStep, FileStep, OthersRest
<1>2. CASE UNCHANGED allVars
  BY <1>2 DEF allVars, purchaseVars, Purchasing!vars
<1> QED
  BY <1>1, <1>2

(* Receipts of any number at the same time leave one stock row per place   *)
(* with all that was credited there and what users changed by hand, and a  *)
(* matched or paid vendor invoice carries no exception                     *)
(* (creditInventoryOnReceipt, MatchVendorInvoiceOnUpdate).                 *)
THEOREM TenantReceiptsCount == WorkSpec => []ReceiptsCount
<1> DEFINE I == part = "purchasing" => ReceiptInv /\ Purchasing!MatchedIsClean
<1>1. WorkInit => I
  BY ReceiptsInit DEF WorkInit
<1>2. I /\ [WorkNext]_allVars => I'
  <2> SUFFICES ASSUME I, [WorkNext]_allVars, part' = "purchasing"
               PROVE  ReceiptInv' /\ Purchasing!MatchedIsClean'
    OBVIOUS
  <2>1. part = "purchasing"
    BY DEF WorkNext, ImportStep, SignInStep, AccessStep, MemberStep, TaskStep, BookStep,
           PurchaseStep, AssetStep, SettingsStep, FileStep, OthersRest, allVars
  <2> QED
    BY <2>1, PurchasingSteps, ReceiptsPreserved
<1>3. I => ReceiptsCount
  BY ReceiptsAdd DEF ReceiptsCount
<1> QED
  BY <1>1, <1>2, <1>3, PTL DEF WorkSpec
=============================================================================
