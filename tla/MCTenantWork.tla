---------------------------- MODULE MCTenantWork ----------------------------
(* A small tenant for TLC.                                                 *)
EXTENDS TenantWork

CONSTANTS i1, i2

(* Imports: two relations with one key, and a relation with an empty key,  *)
(* an invalid row and a valid one.                                         *)
SourceRow(k, n) == [key |-> k, name |-> n]
SameKeys == [customer |-> <<SourceRow("k", "a"), SourceRow("k", "b")>>,
             vendor |-> <<SourceRow("k", "a")>>]
OddRows == [customer |-> <<SourceRow("", "a"), SourceRow("k", "?"), SourceRow("j", "a")>>,
            vendor |-> <<>>]
LegacySources == {SameKeys, OddRows}

(* No tenant names the third organization.                                 *)
LinkedTenant == [o1 |-> "t1", o2 |-> "t2", o3 |-> "none"]

(* An administrator and a clerk of one department, who do not see a field. *)
Granted == {[user |-> "ann", role |-> "admin", dept |-> "any"],
            [user |-> "bob", role |-> "clerk", dept |-> "d1"]}

(* A period of a month inside one of a quarter.                            *)
PeriodSpan == [p1 |-> {1}, p2 |-> {1, 2}]

(* An asset of one period, or of two of which the last amounts to nothing. *)
AssetSchedules == {<<1>>, <<1, 0>>}

(* Two tabs and one login, or two logins from one tab; three tasks that    *)
(* nobody is assigned to, or two that somebody may be; one process for all *)
(* pollers, or two; the forms of the connection with two secrets, or those *)
(* of the sources with three.                                              *)
Small ==
  /\ part = "sign-in" => attempts <= 1 \/ request["y"] = SignIn!Quiet
  /\ part = "tasks" => employee = {} \/ task["c"] = Hierarchy!Absent
  /\ part = "assets" => host["p"] = "g"
  /\ part = "settings" =>
       \/ secrets <= 2 /\ \A t \in FormTabs : tab[t].kind # Source
       \/ \A t \in FormTabs : tab[t].pc = "idle" \/ tab[t].kind = Source
=============================================================================
