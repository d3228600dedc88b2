------------------------------- MODULE Ledger -------------------------------
(***************************************************************************)
(* The double-entry ledger: what a posting needs to succeed, the periods   *)
(* that close, and the chart of accounts (gl_accounts) that follows the    *)
(* Account records.  The modules that post extend this one.                *)
(*                                                                         *)
(* A journal entry belongs to the record it was posted for, its source;    *)
(* journal counts the entries of each.                                     *)
(***************************************************************************)
EXTENDS Integers, Sequences, SequencesExt

CONSTANTS
  Sources,        \* records that are posted
  Periods,        \* finance.Period records
  Span,           \* period -> the dates it covers; periods may overlap
  Accounts,       \* finance.Account records
  Codes,          \* account codes
  NoCode,         \* the code of an account not written yet
  SweepAlone      \* SyncGLAccounts runs while no account is written

VARIABLES
  journal,        \* source -> its journal entries
  period,         \* period -> open, closed or locked
  account,        \* Account record -> [code, active]
  chart,          \* the gl_accounts row of that record
  sweep           \* account -> what a running SyncGLAccounts has listed

bookVars == <<period, account, chart, sweep>>
ledgerVars == <<journal, bookVars>>

PeriodStatuses == {"open", "closed", "locked"}
Listing == [code : Codes \union {NoCode}, active : BOOLEAN]
Unwritten == [code |-> NoCode, active |-> FALSE]

------------------------------------------------------------------------------
(* Posting.                                                                *)

Debit(code, amount) == [code |-> code, debit |-> amount, credit |-> 0]
Credit(code, amount) == [code |-> code, debit |-> 0, credit |-> amount]
Total(lines, side(_)) == FoldSeq(LAMBDA l, sum : sum + side(l), 0, lines)

(* Entry.Validate: every line has exactly one positive side, and the sides *)
(* are equal.                                                              *)
Balanced(lines) ==
  /\ lines # <<>>
  /\ \A i \in DOMAIN lines :
        /\ lines[i].debit >= 0 /\ lines[i].credit >= 0
        /\ (lines[i].debit = 0) # (lines[i].credit = 0)
  /\ Total(lines, LAMBDA l : l.debit) = Total(lines, LAMBDA l : l.credit)

(* Every covering period must be open; none need cover the date.           *)
CheckPeriodOpen(date) ==
  \A p \in Periods : date \in Span[p] => period[p] = "open"

(* IDByCode finds an active row of the chart.                              *)
Resolves(code) == \E a \in Accounts : chart[a] = [code |-> code, active |-> TRUE]

(* PostTx inserts an entry, or fails and with it the caller's transaction. *)
PostTx(date, lines) ==
  /\ Balanced(lines)
  /\ CheckPeriodOpen(date)
  /\ \A i \in DOMAIN lines : Resolves(lines[i].code)

ExistsForSource(source) == journal[source] > 0

------------------------------------------------------------------------------
(* Periods and accounts are records that users write.                      *)

LedgerInit ==
  /\ journal = [s \in Sources |-> 0]
  /\ period = [p \in Periods |-> "open"]
  /\ account = [a \in Accounts |-> Unwritten]
  /\ chart = account
  /\ sweep = [a \in {} |-> Unwritten]

SetPeriodStatus(p, status) ==
  /\ period[p] # status
  /\ period' = [period EXCEPT ![p] = status]
  /\ UNCHANGED <<journal, account, chart, sweep>>

(* gl_accounts.code is unique: the projection of a code another row has    *)
(* fails.                                                                  *)
CodeIsFree(a, code) == \A b \in Accounts \ {a} : chart[b].code # code

(* UpsertBySourceRecord: the row of a renamed account keeps its identity.  *)
UpsertBySourceRecord(a, row) == [chart EXCEPT ![a] = row]

(* An account is created or edited; SyncGLAccountOnWrite projects it in    *)
(* the same transaction.                                                   *)
WriteAccount(a, row) ==
  /\ SweepAlone => DOMAIN sweep = {}
  /\ row.code # NoCode /\ row # account[a]
  /\ CodeIsFree(a, row.code)
  /\ account' = [account EXCEPT ![a] = row]
  /\ chart' = UpsertBySourceRecord(a, row)
  /\ UNCHANGED <<journal, period, sweep>>

(* SyncGLAccounts lists every account, then upserts one after the other.   *)
StartSweep ==
  /\ DOMAIN sweep = {}
  /\ sweep' = [a \in {b \in Accounts : account[b] # Unwritten} |-> account[a]]
  /\ sweep' # sweep
  /\ UNCHANGED <<journal, period, account, chart>>

SweepOne(a) ==
  /\ a \in DOMAIN sweep
  /\ IF CodeIsFree(a, sweep[a].code)
       THEN /\ chart' = UpsertBySourceRecord(a, sweep[a])
            /\ sweep' = [b \in DOMAIN sweep \ {a} |-> sweep[b]]
       ELSE /\ sweep' = [b \in {} |-> Unwritten]
            /\ UNCHANGED chart
  /\ UNCHANGED <<journal, period, account>>

BooksNext ==
  \/ \E p \in Periods, s \in PeriodStatuses : SetPeriodStatus(p, s)
  \/ \E a \in Accounts, row \in Listing : WriteAccount(a, row)
  \/ StartSweep
  \/ \E a \in Accounts : SweepOne(a)

------------------------------------------------------------------------------
LedgerTypeOK ==
  /\ DOMAIN journal = Sources /\ \A s \in Sources : journal[s] \in Nat
  /\ period \in [Periods -> PeriodStatuses]
  /\ account \in [Accounts -> Listing]
  /\ chart \in [Accounts -> Listing]
  /\ DOMAIN sweep \subseteq Accounts /\ \A a \in DOMAIN sweep : sweep[a] \in Listing

(* The chart of accounts always says what the Account records say, through *)
(* renames, deactivations and sweeps (SyncGLAccountOnWrite and             *)
(* SyncGLAccounts), and codes stay unique.                                 *)
ChartAgrees == chart = account

=============================================================================
