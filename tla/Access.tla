------------------------------- MODULE Access -------------------------------
(***************************************************************************)
(* Authorization of one tenant (internal/kernel/authz): the rules a        *)
(* request loads once and keeps, what they allow it on the record types,   *)
(* the fields they hide from it, records that an external source owns,     *)
(* and who may approve a workflow step.                                    *)
(*                                                                         *)
(* One record of the business type has a field that may be hidden; the     *)
(* roles, rules and hidden fields are control-plane records.  A request    *)
(* loads its roles, its rules and the source rules one after the other,    *)
(* outside the transaction of its write.                                   *)
(***************************************************************************)
EXTENDS Integers, FiniteSets

CONSTANTS
  Users, Roles, Admin,
  Departments, NoDepartment,  \* a grant for every department
  Sources, NoSource,
  FirstGrants, FirstRules, FirstHides,    \* what provisioning left
  ApproverRole, JobDepartment, \* what the waiting workflow step requires
  MaxChanges                  \* bound on what is written

VARIABLES
  granted,      \* UserRole rows
  rules,        \* Permission rows
  hides,        \* FieldPermission rows that hide the field: roles
  delegation,   \* active Delegation rows, from and to
  owner,        \* the source the record was imported from
  readOnly,     \* sources that SystemOfRecord rows make read-only
  doc,          \* the record
  req,          \* user -> its request
  approved,     \* users who have approved the step
  adminActed,   \* has an administrator changed the control plane
  changes

policyVars == <<granted, rules, hides, delegation, owner, readOnly>>
vars == <<policyVars, doc, req, approved, adminActed, changes>>

Types == {"business", "control"}
Grant == [user : Users, role : Roles, dept : Departments \union {NoDepartment}]
(* can_write includes can_read.                                            *)
Rule == [role : Roles, type : Types, access : {"none", "read", "write"}]
Idle == [pc |-> "idle", kind |-> "edit", roles |-> {}, can |-> FALSE, hidden |-> FALSE,
         source |-> NoSource, base |-> 0, secret |-> 0]

Init ==
  /\ granted = FirstGrants /\ rules = FirstRules
  /\ hides = FirstHides
  /\ delegation = {}
  /\ owner \in Sources \union {NoSource}
  /\ readOnly = {}
  /\ doc = [plain |-> 0, secret |-> 0, version |-> 0]
  /\ req = [u \in Users |-> Idle]
  /\ approved = {} /\ adminActed = FALSE /\ changes = 0

------------------------------------------------------------------------------
(* What the rules say.                                                     *)

RoleGrantsForUser(u) == {g \in granted : g.user = u}
RoleCodesForUser(u) == {g.role : g \in RoleGrantsForUser(u)}
RoleCodesForUserInDepartment(u, d) ==
  {g.role : g \in {h \in RoleGrantsForUser(u) : h.dept \in {NoDepartment, d}}}

(* Any rule, or a holder of the administrator's role, closes the control   *)
(* plane for good.                                                         *)
RbacConfigured ==
  rules # {} \/ hides # {} \/ \E g \in granted : g.role = Admin

CanRead(roles, type) ==
  \/ Admin \in roles
  \/ ~\E r \in rules : r.type = type
  \/ \E r \in rules : r.type = type /\ r.role \in roles /\ r.access # "none"

CanWrite(roles, type) ==
  \/ Admin \in roles
  \/ /\ ~\E r \in rules : r.type = type
     /\ type = "control" => ~RbacConfigured
  \/ \E r \in rules : r.type = type /\ r.role \in roles /\ r.access = "write"

(* Hidden from a user all of whose roles hide it; from no administrator,   *)
(* and from no user without a role.                                        *)
HiddenFields(roles) == Admin \notin roles /\ roles # {} /\ roles \subseteq hides

(* A source's own import may write what the source owns.                   *)
CheckSoRReadOnly(importing) ==
  owner = NoSource \/ owner \notin readOnly \/ owner = importing

(* Approvals: the role itself, or that of someone who delegated to the     *)
(* user; a delegate's delegate is nobody.                                  *)
ActiveDelegatorsFor(u) == {d[1] : d \in {e \in delegation : e[2] = u}} \ {u}
UserMeetsApproval(u, role, dept) ==
  \E v \in {u} \union ActiveDelegatorsFor(u) :
     role \in IF dept = NoDepartment THEN RoleCodesForUser(v)
              ELSE RoleCodesForUserInDepartment(v, dept)
UserMayApprove(u, role, dept, escalated, escalateRole) ==
  \/ UserMeetsApproval(u, role, dept)
  \/ escalated /\ UserMeetsApproval(u, escalateRole, NoDepartment)

------------------------------------------------------------------------------
(* A request.                                                              *)

Set(u, r) == req' = [req EXCEPT ![u] = r]
Bound == changes < MaxChanges /\ changes' = changes + 1

(* loadRoles; the client has read the record, at its version, before.      *)
LoadRoles(u, kind, source) ==
  /\ req[u].pc = "idle"
  /\ kind = "edit" => CanRead(RoleCodesForUser(u), "business")
  /\ kind = "control" => source = NoSource
  /\ Set(u, [Idle EXCEPT !.pc = "rules", !.kind = kind, !.source = source,
                         !.roles = RoleCodesForUser(u), !.base = doc.version])
  /\ UNCHANGED <<policyVars, doc, approved, adminActed, changes>>

Type(kind) == IF kind = "edit" THEN "business" ELSE "control"

(* loadRules, and with them checkWrite and HiddenFields.                   *)
LoadRules(u) ==
  LET r == req[u] IN
  /\ r.pc = "rules"
  /\ Set(u, IF ~CanWrite(r.roles, Type(r.kind)) THEN Idle
            ELSE [r EXCEPT !.pc = IF r.kind = "edit" THEN "source" ELSE "write",
                           !.can = TRUE, !.hidden = HiddenFields(r.roles)])
  /\ UNCHANGED <<policyVars, doc, approved, adminActed, changes>>

CheckSource(u) ==
  /\ req[u].pc = "source"
  /\ Set(u, IF CheckSoRReadOnly(req[u].source) THEN [req[u] EXCEPT !.pc = "fields"] ELSE Idle)
  /\ UNCHANGED <<policyVars, doc, approved, adminActed, changes>>

Absent == -1     \* a write that leaves the field out
Submitted(value) == IF value = Absent THEN 0 ELSE value
(* Faulty variant: a field the caller does not see is not written back.    *)
DropHidden(u, value) == Submitted(value)
(* EffectiveWriteFields: the stored value of a hidden field goes into the  *)
(* write in place of the submitted one.                                    *)
EffectiveWriteFields(u, value) ==
  IF req[u].hidden THEN doc.secret ELSE Submitted(value)

(* A caller that does not see the field may submit its value only as it    *)
(* is; who does see it may change it.                                      *)
ReadStored(u, value) ==
  /\ req[u].pc = "fields"
  /\ Set(u, IF req[u].hidden /\ value \notin {Absent, doc.secret} THEN Idle
            ELSE [req[u] EXCEPT !.pc = "write", !.secret = EffectiveWriteFields(u, value)])
  /\ UNCHANGED <<policyVars, doc, approved, adminActed, changes>>

(* crud.Engine.Update with the version the client read.                    *)
SameVersion(u) == req[u].base = doc.version

WriteDoc(u) ==
  /\ req[u].pc = "write" /\ req[u].kind = "edit"
  /\ IF SameVersion(u)
       THEN /\ doc' = [plain |-> 1 - doc.plain, secret |-> req[u].secret,
                       version |-> doc.version + 1]
            /\ Bound
       ELSE UNCHANGED <<doc, changes>>
  /\ Set(u, Idle)
  /\ UNCHANGED <<policyVars, approved, adminActed>>

(* Create or delete of a UserRole, Permission, FieldPermission, Delegation *)
(* or SystemOfRecord row.                                                  *)
WriteControl(u) ==
  /\ req[u].pc = "write" /\ req[u].kind = "control"
  /\ \/ \E g \in Grant : /\ granted' \in {granted \union {g}, granted \ {g}}
                         /\ UNCHANGED <<rules, hides, delegation, readOnly>>
     \/ \E r \in Rule : /\ rules' \in {rules \union {r}, rules \ {r}}
                        /\ UNCHANGED <<granted, hides, delegation, readOnly>>
     \/ \E r \in Roles : /\ hides' \in {hides \union {r}, hides \ {r}}
                         /\ UNCHANGED <<granted, rules, delegation, readOnly>>
     \/ \E v, w \in Users : /\ v # w
                            /\ delegation' \in {delegation \union {<<v, w>>}, delegation \ {<<v, w>>}}
                            /\ UNCHANGED <<granted, rules, hides, readOnly>>
     \/ \E s \in Sources : /\ readOnly' \in {readOnly \union {s}, readOnly \ {s}}
                           /\ UNCHANGED <<granted, rules, hides, delegation>>
  /\ Bound
  /\ Set(u, Idle)
  /\ adminActed' = (adminActed \/ Admin \in req[u].roles)
  /\ UNCHANGED <<owner, doc, approved>>

(* approveWorkflowJob, up to the resumption of the job.                    *)
Approve(u, escalated) ==
  /\ UserMayApprove(u, ApproverRole, JobDepartment, escalated, Admin)
  /\ approved' = approved \union {u}
  /\ UNCHANGED <<policyVars, doc, req, adminActed, changes>>

Next ==
  \E u \in Users :
     \/ \E kind \in {"edit", "control"}, s \in Sources \union {NoSource} : LoadRoles(u, kind, s)
     \/ LoadRules(u) \/ CheckSource(u)
     \/ \E value \in {Absent, 0, 1} : ReadStored(u, value)
     \/ WriteDoc(u) \/ WriteControl(u)
     \/ \E escalated \in BOOLEAN : Approve(u, escalated)

Spec == Init /\ [][Next]_vars

------------------------------------------------------------------------------
TypeOK ==
  /\ granted \subseteq Grant /\ rules \subseteq Rule /\ hides \subseteq Roles
  /\ readOnly \subseteq Sources /\ owner \in Sources \union {NoSource}
  /\ \A u \in Users : req[u].pc \in {"idle", "rules", "source", "fields", "write"}

(* rbacConfigured and CanWrite: while no administrator has changed the     *)
(* control plane, nobody has, not even through the types that have no rule *)
(* of their own: no user promotes himself, none lends himself a role by a  *)
(* delegation, and a step is approved by its approvers alone.              *)
NoSelfPromotion ==
  ~adminActed =>
     /\ granted = FirstGrants /\ rules = FirstRules /\ hides = FirstHides /\ delegation = {} /\ readOnly = {}
     /\ \A u \in approved :
           \E g \in FirstGrants :
              /\ g.user = u
              /\ \/ g.role = ApproverRole /\ g.dept \in {NoDepartment, JobDepartment}
                 \/ g.role = Admin

KeepsHidden ==
  \A u \in Users :
     req[u].pc = "write" /\ req'[u].pc = "idle" /\ req[u].kind = "edit" /\ req[u].hidden
     => doc'.secret = doc.secret
(* EffectiveWriteFields: a save by someone who does not see a field leaves *)
(* it as it is at that moment, not as it was when the request read it.     *)
HiddenFieldKept == [][KeepsHidden]_vars

=============================================================================
