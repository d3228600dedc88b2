----------------------------- MODULE Purchasing -----------------------------
(***************************************************************************)
(* Goods receipts, the stock they credit, and the match of a vendor's      *)
(* invoice with what was received on its purchase order.                   *)
(*                                                                         *)
(* A receipt line is created in a transaction that finds the InventoryItem *)
(* of its item and facility (its place), adds to it or creates it, and     *)
(* books the line.  READ COMMITTED: each statement sees what others have   *)
(* committed; a row that another transaction has written is waited for.    *)
(* One receipt line creates at most one InventoryItem and names it.        *)
(***************************************************************************)
EXTENDS Integers, FiniteSets, Functions

CONSTANTS
  Lines, Orders, Places, Invoices,
  Quantities,       \* quantities received, and what corrections set
  MaxRetries,       \* creditInventoryOnReceiptMaxRetries
  MaxEdits          \* bound on what users do besides receiving

VARIABLES
  line,             \* line -> [saved, order, place, qty, credited]
  tx,               \* line -> the transaction that creates it
  stock,            \* InventoryItem -> [live, place, qty, version]
  key,              \* place -> the transactions or rows holding its unique key
  open,             \* the ledger takes postings
  adjusted,         \* place -> what users added to its stock by hand
  invoice,          \* invoice -> [order, status, total, reason]
  edits

receiptVars == <<line, tx>>
vars == <<line, tx, stock, key, open, adjusted, invoice, edits>>

NoLine == [saved |-> FALSE, order |-> CHOOSE o \in Orders : TRUE,
           place |-> CHOOSE p \in Places : TRUE, qty |-> 0, credited |-> 0]
NoRow == [live |-> FALSE, place |-> NoLine.place, qty |-> 0, version |-> 0]
(* row and version are what the transaction found; holds is the row it has *)
(* written and others wait for.                                            *)
NoTx == [pc |-> "new", row |-> {}, version |-> 0, had |-> 0, holds |-> {}, attempt |-> 0]
Steps == [draft |-> {"draft", "matched", "match_exception", "void"},
          matched |-> {"matched", "paid", "void", "match_exception"},
          match_exception |-> {"match_exception", "matched", "void"},
          paid |-> {"paid"}, void |-> {"void"}]

Init ==
  /\ line = [l \in Lines |-> NoLine]
  /\ tx = [l \in Lines |-> NoTx]
  /\ stock = [l \in Lines |-> NoRow]
  /\ key = [p \in Places |-> {}]
  /\ open = TRUE
  /\ adjusted = [p \in Places |-> 0]
  /\ invoice \in [Invoices -> [order : Orders, status : {"draft"}, total : {0},
                               reason : {FALSE}, vendorAgrees : {TRUE}]]
  /\ edits = 0

------------------------------------------------------------------------------
(* Receiving: PostGoodsReceiptLineToLedger, on create.                     *)

AtPlace(p) == {r \in Lines : stock[r].live /\ stock[r].place = p}
HeldByOther(l, r) == \E m \in Lines \ {l} : r \in tx[m].holds
Advance(l, pc) == tx' = [tx EXCEPT ![l].pc = pc]

(* validateGoodsReceiptLineQuality: what was accepted and what was         *)
(* rejected, if given, add up to what was received.                        *)
ValidateGoodsReceiptLineQuality(received, accepted, rejected) ==
  accepted >= 0 /\ rejected >= 0 /\ accepted + rejected = received

Begin(l, o, p, qty, accepted, rejected) ==
  /\ tx[l].pc = "new"
  /\ ValidateGoodsReceiptLineQuality(qty, accepted, rejected)
  /\ line' = [line EXCEPT ![l] = [saved |-> FALSE, order |-> o, place |-> p,
                                  qty |-> qty, credited |-> 0]]
  /\ Advance(l, IF qty > 0 THEN "find" ELSE "book")
  /\ UNCHANGED <<stock, key, open, adjusted, invoice, edits>>

Find(l) ==
  /\ tx[l].pc = "find"
  /\ tx' = [tx EXCEPT ![l] =
       IF AtPlace(line[l].place) = {}
         THEN [tx[l] EXCEPT !.pc = "insert", !.row = {}]
         ELSE LET r == CHOOSE r \in AtPlace(line[l].place) : TRUE IN
              [tx[l] EXCEPT !.pc = "update", !.row = {r}, !.version = stock[r].version,
                            !.had = stock[r].qty]]
  /\ UNCHANGED <<line, stock, key, open, adjusted, invoice, edits>>

Again(l) ==
  tx' = [tx EXCEPT ![l] =
    IF tx[l].attempt >= MaxRetries THEN [NoTx EXCEPT !.pc = "failed"]
    ELSE [tx[l] EXCEPT !.pc = "find", !.attempt = tx[l].attempt + 1]]

Unchanged(l, r) == stock[r].live /\ stock[r].version = tx[l].version

(* UpdateTx waits for the row's writer, then compares the version.         *)
UpdateStock(l) ==
  /\ tx[l].pc = "update"
  /\ \E r \in tx[l].row :
        /\ ~HeldByOther(l, r)
        /\ IF Unchanged(l, r)
             THEN tx' = [tx EXCEPT ![l] = [tx[l] EXCEPT !.pc = "book", !.holds = {r}]]
             ELSE Again(l)
  /\ UNCHANGED <<line, stock, key, open, adjusted, invoice, edits>>

(* Faulty variant: no savepoint and no key: the row is simply created.     *)
NeverTaken(p) == FALSE
KeyTaken(p) == key[p] # {}

(* CreateTx and WriteUniqueConstraintKeys under a savepoint: an            *)
(* uncommitted key of another is waited for, a committed one means that    *)
(* the row exists by now.                                                  *)
InsertStock(l) ==
  LET p == line[l].place IN
  /\ tx[l].pc = "insert"
  /\ IF ~KeyTaken(p)
       THEN /\ key' = [key EXCEPT ![p] = {l}]
            /\ tx' = [tx EXCEPT ![l] = [tx[l] EXCEPT !.pc = "book", !.holds = {l},
                                                     !.row = {l}, !.had = 0]]
       ELSE /\ \E r \in key[p] : stock[r].live /\ ~HeldByOther(l, r)
            /\ Again(l)
            /\ UNCHANGED key
  /\ UNCHANGED <<line, stock, open, adjusted, invoice, edits>>

ReleaseKeys(l) == [p \in Places |-> IF stock[l].live THEN key[p] ELSE key[p] \ {l}]

Rollback(l) ==
  /\ tx' = [tx EXCEPT ![l] = [NoTx EXCEPT !.pc = "failed"]]
  /\ key' = ReleaseKeys(l)

(* ledger.PostTx.                                                          *)
Book(l) ==
  /\ tx[l].pc = "book"
  /\ IF open \/ line[l].qty = 0
       THEN Advance(l, "commit") /\ UNCHANGED key
       ELSE Rollback(l)
  /\ UNCHANGED <<line, stock, open, adjusted, invoice, edits>>

Commit(l) ==
  /\ tx[l].pc = "commit"
  /\ line' = [line EXCEPT ![l].saved = TRUE, ![l].credited = @ + line[l].qty]
  /\ stock' = [r \in Lines |->
       IF r \in tx[l].holds
         THEN [live |-> TRUE, place |-> line[l].place, qty |-> tx[l].had + line[l].qty,
               version |-> stock[r].version + 1]
         ELSE stock[r]]
  /\ tx' = [tx EXCEPT ![l] = [NoTx EXCEPT !.pc = "done"]]
  /\ UNCHANGED <<key, open, adjusted, invoice, edits>>

(* The request is cancelled or the database fails.                         *)
Abort(l) ==
  /\ tx[l].pc \in {"find", "update", "insert", "book", "commit"}
  /\ Rollback(l)
  /\ UNCHANGED <<line, stock, open, adjusted, invoice, edits>>

------------------------------------------------------------------------------
(* What else users do.                                                     *)

Edit == edits < MaxEdits /\ edits' = edits + 1

(* A stock count sets the quantity of an InventoryItem.                    *)
AdjustStock(r, qty) ==
  /\ Edit /\ stock[r].live /\ stock[r].qty # qty
  /\ \A m \in Lines : r \notin tx[m].holds
  /\ stock' = [stock EXCEPT ![r].qty = qty, ![r].version = @ + 1]
  /\ adjusted' = [adjusted EXCEPT ![stock[r].place] = @ + qty - stock[r].qty]
  /\ UNCHANGED <<line, tx, key, open, invoice>>

DeleteStock(r) ==
  /\ Edit /\ stock[r].live
  /\ \A m \in Lines : r \notin tx[m].holds
  /\ stock' = [stock EXCEPT ![r].live = FALSE, ![r].version = @ + 1]
  /\ adjusted' = [adjusted EXCEPT ![stock[r].place] = @ - stock[r].qty]
  /\ key' = [key EXCEPT ![stock[r].place] = @ \ {r}]
  /\ UNCHANGED <<line, tx, open, invoice>>

(* The hook does nothing on an update: stock and ledger keep what the      *)
(* creation gave them.                                                     *)
Correct(row, qty) == [row EXCEPT !.qty = qty]
CorrectLine(l, qty) ==
  /\ Edit /\ line[l].saved /\ line[l].qty # qty
  /\ line' = [line EXCEPT ![l] = Correct(@, qty)]
  /\ UNCHANGED <<tx, stock, key, open, adjusted, invoice>>

SetLedger ==
  /\ Edit
  /\ open' = ~open
  /\ UNCHANGED <<line, tx, stock, key, adjusted, invoice>>

(* receivedValueForPurchaseOrder, at a unit price of one.                  *)
ReceivedValue(o) ==
  SumFunctionOnSet([l \in Lines |-> line[l].qty], {l \in Lines : line[l].saved /\ line[l].order = o})

(* vendorInvoiceMatchDetail                                                *)
MatchAgrees(row) ==
  row.vendorAgrees /\ ReceivedValue(row.order) # 0 /\ row.total = ReceivedValue(row.order)

(* MatchVendorInvoiceOnUpdate: a match that disagrees is redirected to     *)
(* match_exception with its reason, one that agrees clears the reason.     *)
MatchVendorInvoiceOnUpdate(row) ==
  IF row.status # "matched" THEN row
  ELSE IF MatchAgrees(row) THEN [row EXCEPT !.reason = FALSE]
  ELSE [row EXCEPT !.status = "match_exception", !.reason = TRUE]

SaveInvoice(i, status, total, vendorAgrees) ==
  /\ status \in Steps[invoice[i].status]
  /\ LET row == [invoice[i] EXCEPT !.status = status, !.total = total,
                                   !.vendorAgrees = vendorAgrees]
     IN  /\ row # invoice[i]
         /\ invoice' = [invoice EXCEPT ![i] = MatchVendorInvoiceOnUpdate(row)]
  /\ Edit
  /\ UNCHANGED <<line, tx, stock, key, open, adjusted>>

Receive(l) ==
  \/ \E o \in Orders, p \in Places, qty, accepted, rejected \in Quantities :
        Begin(l, o, p, qty, accepted, rejected)
  \/ Find(l) \/ UpdateStock(l) \/ InsertStock(l) \/ Book(l) \/ Commit(l) \/ Abort(l)

Next ==
  \/ \E l \in Lines : Receive(l)
  \/ \E r \in Lines, qty \in Quantities : AdjustStock(r, qty)
  \/ \E r \in Lines : DeleteStock(r)
  \/ \E l \in Lines, qty \in Quantities : CorrectLine(l, qty)
  \/ SetLedger
  \/ \E i \in Invoices, status \in DOMAIN Steps, total \in Quantities, v \in BOOLEAN :
        SaveInvoice(i, status, total, v)

Spec == Init /\ [][Next]_vars

------------------------------------------------------------------------------
TypeOK ==
  /\ \A l \in Lines :
        /\ line[l].saved \in BOOLEAN /\ line[l].order \in Orders /\ line[l].place \in Places
        /\ tx[l].pc \in {"new", "find", "update", "insert", "book", "commit", "done", "failed"}
        /\ tx[l].row \subseteq Lines /\ tx[l].attempt \in 0..MaxRetries
        /\ stock[l].live \in BOOLEAN
  /\ \A i \in Invoices : invoice[i].status \in DOMAIN Steps
  /\ edits \in 0..MaxEdits

Credited(p) ==
  SumFunction([l \in Lines |-> IF line[l].place = p THEN line[l].credited ELSE 0])

(* creditInventoryOnReceipt: concurrent receipts of one item neither       *)
(* create two InventoryItems nor lose a quantity to each other: the stock  *)
(* of a place is what was credited there, plus what users changed by hand. *)
StockCounts ==
  \A p \in Places :
     /\ Cardinality(AtPlace(p)) <= 1
     /\ SumFunctionOnSet([r \in Lines |-> stock[r].qty], AtPlace(p)) = Credited(p) + adjusted[p]

(* MatchVendorInvoiceOnUpdate: an invoice that can be paid carries no      *)
(* exception, and was in agreement when it was last saved.                 *)
MatchedIsClean ==
  \A i \in Invoices : invoice[i].status \in {"matched", "paid"} => ~invoice[i].reason

(* "so an invoice can't silently drift out of agreement with what's been   *)
(* received after the fact and never be re-validated".                     *)
PaidAgrees ==
  [][\A i \in Invoices :
       invoice[i].status # "paid" /\ invoice'[i].status = "paid" => MatchAgrees(invoice'[i])]_vars

=============================================================================
