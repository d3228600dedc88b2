------------------------------- MODULE Members -------------------------------
(***************************************************************************)
(* The member page of a tenant (internal/api/members.go) and the identity  *)
(* provider it drives (internal/zitadelmgmt): who has an account, who is a *)
(* member, and the UserRole rows of the tenant.                            *)
(*                                                                         *)
(* A request passes the administrators' gate once and then makes its       *)
(* remote calls and its record writes one by one, any of which may fail.   *)
(* A user keeps his session when his membership ends.  The rows are        *)
(* numbered in the order they are created; a deleted one keeps its number. *)
(***************************************************************************)
EXTENDS Integers, FiniteSets

CONSTANTS
  Users, Roles, Admin,  \* Admin is one of Roles
  FirstAdmins,       \* not empty: the members and administrators that provisioning left
  MaxRows,           \* bound on UserRole rows ever created
  MaxGrants,         \* bound on memberships ever granted
  MaxRequests, MaxFaults

VARIABLES
  account,      \* users of the organization
  grant,        \* user -> the number of his tenant_member grant, or 0
  code,         \* user -> the set-password code in force, or 0
  userRole,     \* number -> UserRole row
  signedIn,     \* users with a session
  req,          \* user -> his request
  used,         \* rows, grants, codes and requests so far
  faults,       \* requests that ended early, record calls that failed
  overlapped    \* have two requests been under way at a time (history)

idVars == <<account, grant, code>>
vars == <<idVars, userRole, signedIn, req, used, faults, overlapped>>

Kinds == {"invite", "link", "email", "remove", "assign", "revoke"}
Idle == [pc |-> "idle", kind |-> "invite", target |-> CHOOSE u \in Users : TRUE,
         role |-> Admin, row |-> 0, grant |-> 0, created |-> FALSE,
         left |-> {}]
Free == [user |-> CHOOSE u \in Users : TRUE, role |-> Admin, live |-> FALSE]

Numbers == CHOOSE f \in [FirstAdmins -> 1..Cardinality(FirstAdmins)] :
              \A u, v \in FirstAdmins : u # v => f[u] # f[v]

Init ==
  /\ account = FirstAdmins /\ signedIn = FirstAdmins
  /\ grant = [u \in Users |-> IF u \in FirstAdmins THEN Numbers[u] ELSE 0]
  /\ code = [u \in Users |-> 0]
  /\ userRole = [n \in 1..MaxRows |->
       IF \E u \in FirstAdmins : Numbers[u] = n
         THEN [user |-> CHOOSE u \in FirstAdmins : Numbers[u] = n, role |-> Admin, live |-> TRUE]
         ELSE Free]
  /\ req = [u \in Users |-> Idle]
  /\ used = [row |-> Cardinality(FirstAdmins), grant |-> Cardinality(FirstAdmins),
             code |-> 0, request |-> 0]
  /\ faults = [ended |-> 0, record |-> 0] /\ overlapped = FALSE

------------------------------------------------------------------------------
RowsOf(u) == {n \in DOMAIN userRole : userRole[n].live /\ userRole[n].user = u}
HoldsRole(u, role) == \E n \in RowsOf(u) : userRole[n].role = role
IsTenantAdmin(u) == HoldsRole(u, Admin)

Set(u, r) == req' = [req EXCEPT ![u] = r]
Goto(u, pc) == Set(u, [req[u] EXCEPT !.pc = pc])
Fault(kind) ==
  faults.ended + faults.record < MaxFaults /\ faults' = [faults EXCEPT ![kind] = @ + 1]
Quiet == UNCHANGED <<signedIn, used, faults, overlapped>>

(* What each form begins with; "link" shows a set-password link and        *)
(* "email" has it sent.                                                    *)
FirstStep == [invite |-> "lookup", assign |-> "roles", revoke |-> "read",
              link |-> "validate", email |-> "validate", remove |-> "validate"]
AfterListing(kind) == IF kind = "remove" THEN "leave" ELSE "mint"

(* membersActionScope: the session, then the gate.  Nobody removes         *)
(* himself.  The page, which may be old, names members.                    *)
Start(u, kind, target, role, n) ==
  /\ req[u].pc = "idle" /\ u \in signedIn /\ used.request < MaxRequests
  /\ IsTenantAdmin(u)
  /\ kind = "remove" => target # u
  /\ kind # "invite" => target \in account
  /\ Set(u, [Idle EXCEPT !.pc = FirstStep[kind], !.kind = kind, !.target = target,
                         !.role = role, !.row = n])
  /\ used' = [used EXCEPT !.request = @ + 1]
  /\ overlapped' = (overlapped \/ \E v \in Users \ {u} : req[v].pc # "idle")
  /\ UNCHANGED <<idVars, userRole, signedIn, faults>>

(* membersInvite: find the account or create it, then grant, then mint a   *)
(* link for a new account.  A user name is taken once in an organization.  *)
LookupUserByEmail(u) ==
  /\ req[u].pc = "lookup"
  /\ Goto(u, IF req[u].target \in account THEN "grant" ELSE "create")
  /\ Quiet /\ UNCHANGED <<idVars, userRole>>

CreateUser(u) ==
  /\ req[u].pc = "create"
  /\ IF req[u].target \in account
       THEN Set(u, Idle) /\ UNCHANGED account
       ELSE /\ account' = account \union {req[u].target}
            /\ Set(u, [req[u] EXCEPT !.pc = "grant", !.created = TRUE])
  /\ Quiet /\ UNCHANGED <<grant, code, userRole>>

(* A grant that is there already is as good as a new one.                  *)
GrantTenantMember(u) ==
  LET t == req[u].target IN
  /\ req[u].pc = "grant"
  /\ IF grant[t] # 0
       THEN UNCHANGED <<grant, used>>
       ELSE /\ used.grant < MaxGrants
            /\ used' = [used EXCEPT !.grant = @ + 1]
            /\ grant' = [grant EXCEPT ![t] = used.grant + 1]
  /\ IF req[u].created THEN Goto(u, "mint") ELSE Set(u, Idle)
  /\ UNCHANGED <<account, code, userRole, signedIn, faults, overlapped>>

ListMembers == {u \in Users : grant[u] # 0}

(* memberForAction: the grant to revoke is the one listed here.            *)
MemberForAction(u) ==
  LET r == req[u] IN
  /\ r.pc = "validate"
  /\ Set(u, IF r.target \notin ListMembers THEN Idle
            ELSE [r EXCEPT !.pc = AfterListing(r.kind), !.grant = grant[r.target]])
  /\ Quiet /\ UNCHANGED <<idVars, userRole>>

(* PasswordSetLink, SendPasswordResetEmail: a new code ends the one before. *)
PasswordSetLink(u) ==
  /\ req[u].pc = "mint"
  /\ code' = [code EXCEPT ![req[u].target] = used.code + 1]
  /\ used' = [used EXCEPT !.code = @ + 1]
  /\ Set(u, Idle)
  /\ UNCHANGED <<account, grant, userRole, signedIn, faults, overlapped>>

(* RevokeTenantMember: an error when that very grant is gone.              *)
RevokeTenantMember(u) ==
  LET r == req[u] IN
  /\ r.pc = "leave"
  /\ IF grant[r.target] = r.grant
       THEN grant' = [grant EXCEPT ![r.target] = 0] /\ Goto(u, "rows")
       ELSE Set(u, Idle) /\ UNCHANGED grant
  /\ Quiet /\ UNCHANGED <<account, code, userRole>>

ListRows(u) ==
  LET rows == RowsOf(req[u].target) IN
  /\ req[u].pc = "rows"
  /\ Set(u, IF rows = {} THEN Idle
            ELSE [req[u] EXCEPT !.pc = "clean", !.left = rows])
  /\ Quiet /\ UNCHANGED <<idVars, userRole>>

Die(n) == userRole' = [userRole EXCEPT ![n].live = FALSE]

(* The removal of the other rows goes on, whatever became of this one.     *)
GoesOn(u, n) ==
  Set(u, IF req[u].left = {n} THEN Idle ELSE [req[u] EXCEPT !.left = @ \ {n}])

(* A row that another request has deleted is an error like any other.      *)
CleanRow(u) ==
  \E n \in req[u].left :
     /\ req[u].pc = "clean" /\ Die(n) /\ GoesOn(u, n)
     /\ Quiet /\ UNCHANGED idVars

CleanFails(u) ==
  \E n \in req[u].left :
     /\ req[u].pc = "clean" /\ GoesOn(u, n) /\ Fault("record")
     /\ UNCHANGED <<idVars, userRole, signedIn, used, overlapped>>

(* membersAssignRole: no row when the user has the role.  Its target need  *)
(* not be a member; a list that fails counts as empty.                     *)
ListRoles(u) ==
  LET r == req[u] IN
  /\ r.pc = "roles"
  /\ \/ /\ Set(u, IF HoldsRole(r.target, r.role) THEN Idle ELSE [r EXCEPT !.pc = "insert"])
        /\ UNCHANGED faults
     \/ Goto(u, "insert") /\ Fault("record")
  /\ UNCHANGED <<idVars, userRole, signedIn, used, overlapped>>

InsertRole(u) ==
  LET r == req[u] IN
  /\ r.pc = "insert" /\ used.row < MaxRows
  /\ userRole' = [userRole EXCEPT ![used.row + 1] =
                    [user |-> r.target, role |-> r.role, live |-> TRUE]]
  /\ used' = [used EXCEPT !.row = @ + 1]
  /\ Set(u, Idle)
  /\ UNCHANGED <<idVars, signedIn, faults, overlapped>>

(* membersRevokeRole: not the own role of administrator.                   *)
MayRevoke(u, row) == ~(row.user = u /\ row.role = Admin)

ReadRow(u) ==
  LET n == req[u].row IN
  /\ req[u].pc = "read"
  /\ IF userRole[n].live /\ MayRevoke(u, userRole[n]) THEN Goto(u, "delete") ELSE Set(u, Idle)
  /\ Quiet /\ UNCHANGED <<idVars, userRole>>

DeleteRow(u) ==
  /\ req[u].pc = "delete"
  /\ Die(req[u].row) /\ Set(u, Idle)
  /\ Quiet /\ UNCHANGED idVars

(* A call fails, or the process dies: the request ends where it is.        *)
Fail(u) ==
  /\ req[u].pc # "idle" /\ Set(u, Idle) /\ Fault("ended")
  /\ UNCHANGED <<idVars, userRole, signedIn, used, overlapped>>

LogIn(u) ==
  /\ grant[u] # 0 /\ u \notin signedIn
  /\ signedIn' = signedIn \union {u}
  /\ UNCHANGED <<idVars, userRole, req, used, faults, overlapped>>

SessionEnds(u) ==
  /\ u \in signedIn /\ req[u].pc = "idle"
  /\ signedIn' = signedIn \ {u}
  /\ UNCHANGED <<idVars, userRole, req, used, faults, overlapped>>

Next ==
  \E u \in Users :
     \/ \E target \in Users, role \in Roles :
           \/ \E kind \in {"invite", "link", "email", "remove"} :
                 role = Admin /\ Start(u, kind, target, role, 0)
           \/ Start(u, "assign", target, role, 0)
     \/ \E n \in 1..used.row : Start(u, "revoke", u, Admin, n)
     \/ LookupUserByEmail(u) \/ CreateUser(u) \/ GrantTenantMember(u)
     \/ MemberForAction(u) \/ PasswordSetLink(u)
     \/ RevokeTenantMember(u) \/ ListRows(u) \/ CleanRow(u) \/ CleanFails(u)
     \/ ListRoles(u) \/ InsertRole(u) \/ ReadRow(u) \/ DeleteRow(u)
     \/ Fail(u) \/ LogIn(u) \/ SessionEnds(u)

Spec == Init /\ [][Next]_vars

------------------------------------------------------------------------------
TypeOK ==
  /\ FirstAdmins \subseteq account /\ account \subseteq Users /\ signedIn \subseteq account
  /\ grant \in [Users -> 0..MaxGrants] /\ code \in [Users -> 0..MaxRequests]
  /\ userRole \in [1..MaxRows -> [user : Users, role : Roles, live : BOOLEAN]]
  /\ \A u \in Users : req[u].kind \in Kinds
  /\ used.row <= MaxRows /\ used.grant <= MaxGrants /\ used.request <= MaxRequests
  /\ faults.ended + faults.record <= MaxFaults /\ overlapped \in BOOLEAN

(* membersRemove, membersRevokeRole: as long as requests come one after    *)
(* the other the tenant has an administrator, whatever fails and whoever   *)
(* still has a session.  Two administrators who remove each other at the   *)
(* same time leave none.                                                   *)
AdminStays == overlapped \/ \E u \in Users : IsTenantAdmin(u)

(* What the head of members.go promises without that condition; a removal  *)
(* whose row could not be deleted, and a session that goes on, break it    *)
(* too.                                                                    *)
NeverAdminless == \E u \in ListMembers : IsTenantAdmin(u)

(* membersAssignRole: a user holds a role once, so that one revocation     *)
(* ends it, unless requests overlap or a list failed.                      *)
RolesNotStacked ==
  overlapped \/ faults.record > 0 \/
  \A u \in Users, m, n \in 1..MaxRows :
     m # n /\ m \in RowsOf(u) /\ n \in RowsOf(u) => userRole[m].role # userRole[n].role

(* membersRemove: a removal that runs to its end has tried every row it    *)
(* listed; what is left of them could not be deleted.                      *)
RemovalGoesOn ==
  \A u \in Users :
     req[u].pc = "clean" /\ req'[u].pc = "idle" /\ faults'.ended = faults.ended
     => Cardinality(req[u].left) <= 1
=============================================================================
