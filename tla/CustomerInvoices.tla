-------------------------- MODULE CustomerInvoices --------------------------
(***************************************************************************)
(* Customer invoices are booked to the ledger by the hook of their save,   *)
(* in the transaction of the save.  That transaction holds the lock of     *)
(* the invoice's row from its first statement to its commit; the ledger's  *)
(* tables change meanwhile.                                                *)
(***************************************************************************)
EXTENDS Ledger

CONSTANTS
  Dates, Totals,
  Receivable, Revenue    \* the account codes of the two lines

VARIABLES
  invoice,               \* invoice -> [status, date, total]
  saving                 \* invoice -> the row its open transaction writes

invoiceVars == <<invoice, saving>>
vars == <<ledgerVars, invoiceVars>>

Steps == [draft |-> {"draft", "issued", "void"}, issued |-> {"issued", "paid", "void"},
          paid |-> {"paid"}, void |-> {"void"}]
Rows == [status : DOMAIN Steps, date : Dates, total : Totals]
Draft(date, total) == [status |-> "draft", date |-> date, total |-> total]
Posting(row, books) == [row |-> row, books |-> books]
NotSaving == Posting(Draft(-1, 0), FALSE)

Init ==
  /\ LedgerInit
  /\ invoice \in [Sources -> {Draft(d, t) : d \in Dates, t \in Totals}]
  /\ saving = [i \in Sources |-> NotSaving]

(* Faulty variant: the status alone decides.                               *)
MustBookAgain(i, row) == row.status = "issued" /\ row.total # 0
(* PostCustomerInvoiceToLedger: an update that leaves the invoice issued   *)
(* books it, once; an invoice over nothing is not booked.                  *)
MustBook(i, row) == row.status = "issued" /\ ~ExistsForSource(i) /\ row.total # 0

InvoiceLines(row) == <<Debit(Receivable, row.total), Credit(Revenue, row.total)>>

(* The update and its hook up to ledger.PostTx; when that fails the save   *)
(* is rolled back and nothing happens.                                     *)
UpdateInvoice(i, row) ==
  /\ saving[i] = NotSaving
  /\ row.status \in Steps[invoice[i].status] /\ row # invoice[i]
  /\ MustBook(i, row) => PostTx(row.date, InvoiceLines(row))
  /\ saving' = [saving EXCEPT ![i] = Posting(row, MustBook(i, row))]
  /\ UNCHANGED <<invoice, ledgerVars>>

Commit(i) ==
  /\ saving[i] # NotSaving
  /\ invoice' = [invoice EXCEPT ![i] = saving[i].row]
  /\ journal' = [journal EXCEPT ![i] = @ + IF saving[i].books THEN 1 ELSE 0]
  /\ saving' = [saving EXCEPT ![i] = NotSaving]
  /\ UNCHANGED bookVars

(* The connection is lost, or the commit fails.                            *)
Rollback(i) ==
  /\ saving[i] # NotSaving
  /\ saving' = [saving EXCEPT ![i] = NotSaving]
  /\ UNCHANGED <<invoice, ledgerVars>>

Next ==
  \/ \E i \in Sources, row \in Rows : UpdateInvoice(i, row)
  \/ \E i \in Sources : Commit(i) \/ Rollback(i)
  \/ BooksNext /\ UNCHANGED invoiceVars

Spec == Init /\ [][Next]_vars

------------------------------------------------------------------------------
TypeOK ==
  /\ LedgerTypeOK
  /\ invoice \in [Sources -> Rows]
  /\ saving \in [Sources -> [row : Rows, books : BOOLEAN] \union {NotSaving}]

(* PostCustomerInvoiceToLedger: an issued invoice over something is in the *)
(* ledger, none is in it twice, and a draft never is.                      *)
InvoicesBooked ==
  \A i \in Sources :
     /\ journal[i] <= 1
     /\ invoice[i].status = "issued" /\ invoice[i].total # 0 => journal[i] = 1
     /\ invoice[i].status = "draft" => journal[i] = 0

(* checkPeriodOpen blocks a posting that an explicitly closed or locked    *)
(* period covers; the check is a read, so a period that closes before the  *)
(* commit does not.                                                        *)
NothingBookedWhenClosed ==
  [][\A i \in Sources : journal'[i] > journal[i] => CheckPeriodOpen(invoice'[i].date)]_vars

=============================================================================
