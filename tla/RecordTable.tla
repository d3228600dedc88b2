----------------------------- MODULE RecordTable -----------------------------
(***************************************************************************)
(* What the record store promises of one entity type that declares a       *)
(* status graph and a unique field (internal/kernel/crud, entity.          *)
(* Definition): records are created, replaced and deleted one at a time,   *)
(* each version is the successor of the one before, statuses follow the    *)
(* graph, and no two live records hold the same code.                      *)
(***************************************************************************)
EXTENDS Naturals

CONSTANTS Ids, Codes, Blank, Initial, Transitions, Start

VARIABLE table  \* table[r]: [live, version, code, status]; version 0: none yet

CodeIsFree(r, code) ==
  code # Blank => \A q \in Ids \ {r} : table[q].live => table[q].code # code

Statuses == {Initial} \union {t[1] : t \in Transitions} \union {t[2] : t \in Transitions}

TableInit == table = Start

CreateRecord(r, code) ==
  /\ table[r].version = 0
  /\ CodeIsFree(r, code)
  /\ table' = [table EXCEPT ![r] = [live |-> TRUE, version |-> 1, code |-> code, status |-> Initial]]

ReplaceRecord(r, code, status) ==
  /\ table[r].live
  /\ CodeIsFree(r, code)
  /\ <<table[r].status, status>> \in Transitions \/ status = table[r].status
  /\ table' = [table EXCEPT ![r] =
       [live |-> TRUE, version |-> @.version + 1, code |-> code, status |-> status]]

DeleteRecord(r) ==
  /\ table[r].live
  /\ table' = [table EXCEPT ![r].live = FALSE]

TableNext ==
  \E r \in Ids :
    \/ DeleteRecord(r)
    \/ \E code \in Codes \union {Blank} :
         \/ CreateRecord(r, code)
         \/ \E status \in Statuses : ReplaceRecord(r, code, status)

TableSpec == TableInit /\ [][TableNext]_table
=============================================================================
