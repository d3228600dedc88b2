----------------------------- MODULE TenantSetup -----------------------------
(* A tenant gets its modules (cmd/provision-tenant, and again with          *)
(* cmd/sync-tenant-modules), and its users enter their first records.       *)
(*                                                                          *)
(* A command publishes the entities of a module, then its forms, then its   *)
(* statuses, and may die in between; it is run again for the rest, and      *)
(* modules come in any order.  A user saves a record of a type by its form, *)
(* choosing from pickers that offer the records there are: whether a type   *)
(* can be used at all depends on definitions, forms, statuses and records   *)
(* of several modules that nothing checks against each other.               *)
EXTENDS Catalogue

CONSTANTS
  Licences       \* the sets of modules a tenant may come to have

VARIABLES
  licence,       \* the modules of this tenant
  stage,         \* module -> the steps of its publication that are done
  used           \* the types that have a record

vars == <<licence, stage, used>>

Stages == {"none", "entities", "forms", "statuses"}
Published(m) == stage[m] # "none"
FormsPublished(m) == stage[m] \in {"forms", "statuses"}
Complete(m) == stage[m] = "statuses"

Init ==
  /\ licence \in Licences
  /\ stage = [m \in licence |-> "none"]
  /\ used = {}

------------------------------------------------------------------------------
(* The publication of a module.                                             *)

(* PublishFoundation comes first in both commands.                          *)
FoundationFirst(m) == m # "foundation" => FormsPublished("foundation")

Publish(m) ==
  /\ stage[m] = "none" /\ FoundationFirst(m)
  /\ TypesOf(m) = {t \in TypesOf(m) : ValidEntity(ModuleTypes[m][t])}
  /\ stage' = [stage EXCEPT ![m] = "entities"]
  /\ UNCHANGED <<licence, used>>

PublishForms(m) ==
  /\ stage[m] = "entities"
  /\ {t \in DOMAIN ModuleForms[m] : ~ValidForm(ModuleForms[m][t])} = {}
  /\ stage' = [stage EXCEPT ![m] = "forms"]
  /\ UNCHANGED <<licence, used>>

(* Seeding creates the first StatusType, Status and StatusTransition.       *)
SeedTypes == {"StatusType", "Status", "StatusTransition"}
PublishStatuses(m) ==
  /\ stage[m] = "forms"
  /\ stage' = [stage EXCEPT ![m] = "statuses"]
  /\ used' = IF DOMAIN ModuleStatuses[m] = {} THEN used
             ELSE used \union SeedTypes
  /\ UNCHANGED licence

------------------------------------------------------------------------------
(* Saving a record by a form.                                               *)

(* Types without a form, created by the provider page, the SQL source page  *)
(* and an import keyed to a source.                                         *)
OwnPages == {"AIProviderConnection", "ExternalSQLSource", "ExternalIdentity"}

RoleTypes == {"customer", "vendor", "employee", "contact", "prospect", "own_organization"}

(* The picker of a reference has something to choose: a status of the       *)
(* record's status type, or a record of the target in the role asked for;   *)
(* codes are the status types there are, types those that have a record.    *)
Choice(codes, types, d, f) ==
  IF f = "status_id" /\ d.status # "" THEN d.status \in codes
  ELSE /\ d.target[f] \in types
       /\ f \in DOMAIN d.role => "PartyRole" \in types /\ d.role[f] \in RoleTypes

CodesOf(modules) == UNION {DOMAIN ModuleStatuses[m] : m \in modules}
Seeded == CodesOf({m \in licence : Complete(m)})
Offered(d, f) == Choice(Seeded, used, d, f)
Chosen(d) == d.needed \intersect DOMAIN d.target

(* What a type needs is on its form, unless ApplyDefaults fills it.         *)
OnForm(m, t) ==
  t \in DOMAIN ModuleForms[m] /\ ModuleTypes[m][t].needed \subseteq ModuleForms[m][t].fields
HasForm(m, t) == t \in OwnPages \/ (FormsPublished(m) /\ OnForm(m, t))

(* Faulty variant: a reference that may stay empty must be chosen as well.  *)
CanSaveAll(m, t) ==
  LET d == ModuleTypes[m][t]
  IN  Published(m) /\ HasForm(m, t) /\ \A f \in DOMAIN d.target : Offered(d, f)
CanSave(m, t) ==
  LET d == ModuleTypes[m][t]
  IN  Published(m) /\ HasForm(m, t) /\ \A f \in Chosen(d) : Offered(d, f)

TypesIn(modules) == UNION {TypesOf(m) : m \in modules}
NewlySavable == {t \in TypesIn(licence) \ used :
                   \E m \in licence : t \in TypesOf(m) /\ CanSave(m, t)}

(* The users save a first record of every type they can.                    *)
SaveRecords ==
  /\ NewlySavable # {}
  /\ used' = used \union NewlySavable
  /\ UNCHANGED <<licence, stage>>

Next ==
  \/ \E m \in licence : Publish(m) \/ PublishForms(m) \/ PublishStatuses(m)
  \/ SaveRecords

Spec == Init /\ [][Next]_vars

------------------------------------------------------------------------------
(* The section of a form that lists another type is shown: the entity has   *)
(* the relationship, and the type is published with the field it names.     *)
Lists(m, t, k, child) ==
  /\ child \in TypesOf(k)
  /\ \E list \in ModuleTypes[m][t].lists :
        /\ list[1] = child /\ list[2] \in DOMAIN ModuleTypes[k][child].target
        /\ ModuleTypes[k][child].target[list[2]] = t
SectionShown(m, t, child) == \E k \in licence : Published(k) /\ Lists(m, t, k, child)

(* The modules whose records a record of m must refer to.                   *)
Requires(m) ==
  {k \in DOMAIN ModuleTypes :
     \E t \in TypesOf(m) :
        LET d == ModuleTypes[m][t] IN \E f \in Chosen(d) : d.target[f] \in TypesOf(k)}

(* What can be entered with some modules alone, all of them published: what *)
(* has its form, once there are records for it to choose from.              *)
Entered(modules, types) ==
  types \union
    {t \in TypesIn(modules) :
       \E m \in modules :
          /\ t \in TypesOf(m) /\ (t \in OwnPages \/ OnForm(m, t))
          /\ \A f \in Chosen(ModuleTypes[m][t]) :
               Choice(CodesOf(modules), types, ModuleTypes[m][t], f)}
Rounds(modules) ==
  LET rounds[n \in 0..Cardinality(TypesIn(modules))] ==
        IF n = 0 THEN {} ELSE Entered(modules, rounds[n - 1])
  IN  rounds
Enterable(modules) == Rounds(modules)[Cardinality(TypesIn(modules))]

(* A module can be used with what it requires: all its types can be        *)
(* entered, and what its forms list is there.                               *)
WellEquipped(m) ==
  LET modules == {m} \union Requires(m)
  IN  /\ TypesOf(m) \subseteq Enterable(modules) /\ IsFiniteSet(TypesIn(modules))
      /\ \A t \in DOMAIN ModuleForms[m] : \A child \in ModuleForms[m][t].lists :
            \E k \in modules : Lists(m, t, k, child)

TypeOK ==
  /\ licence \in Licences /\ stage \in [licence -> Stages]
  /\ used \subseteq TypesIn(licence)

(* Whatever the order and the interruptions in which modules come, a module *)
(* that is complete and whose required references are to complete modules   *)
(* (Sales without Purchasing is not) can be used to the last type: every    *)
(* type gets its records, by its form, and every list of a form is shown.   *)
EveryTypeUsable ==
  NewlySavable = {} =>
    \A m \in licence :
       Complete(m) /\ (\A k \in Requires(m) : k \in licence /\ Complete(k)) =>
         /\ TypesOf(m) \subseteq used
         /\ \A t \in DOMAIN ModuleForms[m] :
              \A child \in ModuleForms[m][t].lists : SectionShown(m, t, child)

=============================================================================
