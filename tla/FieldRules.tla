------------------------------ MODULE FieldRules -----------------------------
(* The rules a Definition puts on the fields of one record, from version to  *)
(* version: entity.ValidateRecord on every save, and sync-tenant-modules,    *)
(* which counts the records a new version would refuse and warns of them.    *)
(* References are in Hierarchy, unique keys in RecordStore and ModuleSync.   *)
(*                                                                           *)
(* A value is its JSON shape and a number that stands for what the rules     *)
(* look at: the length of a string (0: blank), the amount, the day of a date *)
(* (0: "", Garbage: no date), the place in an enum's list, the number of     *)
(* translations.  A version declares the fields of the one before it.        *)
EXTENDS Integers, FiniteSetsExt

CONSTANTS
  Fields, NoField,
  Versions,
  Rules,          \* Rules[v][f]: what version v declares of field f
  Submissions     \* what is submitted for a record: field -> value

VARIABLES
  status,         \* version -> "absent", "published" or "rolled_back"
  row,            \* the stored record, [data, under], or NoRow
  told,           \* fields of it a sync has warned of
  slipped         \* fields of it that became invalid without a warning being due

vars == <<status, row, told, slipped>>

Absent == [shape |-> "absent", n |-> 0]
Garbage == -1
Big == 1000           \* a bound of Big, or -Big, is not declared
NoRow == [under |-> 0]

------------------------------------------------------------------------------
(* One field.                                                                *)
FieldTypeJSONShape(type) ==
  CASE type \in {"string", "date", "reference", "enum"} -> "string"
    [] type \in {"number", "money"} -> "number"
    [] type = "bool" -> "boolean"
    [] type = "i18n_text" -> "object"

IsBlankString(v) == v.shape = "string" /\ v.n = 0

(* The kind of error validateFieldValue returns.                             *)
ValueFault(f, v) ==
  IF v.shape # FieldTypeJSONShape(f.type) THEN "type_mismatch"
  ELSE CASE f.type = "string" /\ v.n > f.length -> "too_long"
         [] f.type \in {"number", "money"} /\ v.n < f.min -> "below_minimum"
         [] f.type \in {"number", "money"} /\ v.n > f.max -> "above_maximum"
         [] f.type = "enum" /\ v.n \notin f.enum -> "enum_invalid"
         [] OTHER -> "none"

Fault(f, v) ==
  IF f.required /\ (v = Absent \/ IsBlankString(v)) THEN "required"
  ELSE IF v = Absent THEN "none"
  ELSE IF ValueFault(f, v) = "none" /\ f.required /\ f.type = "i18n_text" /\ v.n = 0
         THEN "no_translation"
  ELSE ValueFault(f, v)

(* The fields not_before leads to from name on; NoField follows the last.    *)
Path(def, name) ==
  LET path[i \in 1..Cardinality(Fields) + 1] ==
        IF i = 1 THEN name
        ELSE IF path[i - 1] = NoField THEN NoField ELSE def[path[i - 1]].notBefore
  IN  path

(* validateNotBefore: a date against the nearest one before it that is set.  *)
IsSet(v) == v.shape = "string" /\ v.n # 0
(* Faulty variant: only the field named by not_before is looked at.          *)
Immediate(def, data, name) == name
Nearest(def, data, name) ==
  LET path == Path(def, name)
  IN  path[Min({i \in DOMAIN path : path[i] = NoField \/ IsSet(data[path[i]])})]
TooEarly(def, data, f) ==
  LET before == Nearest(def, data, def[f].notBefore)
  IN  /\ IsSet(data[f]) /\ data[f].n # Garbage
      /\ before # NoField /\ data[f].n < data[before].n

ValidateRecord(def, data) ==
  \A f \in Fields : Fault(def[f], data[f]) = "none" /\ ~TooEarly(def, data, f)

(* Field.Default, on Create alone.                                           *)
ApplyDefaults(def, data) == [f \in Fields |-> IF data[f] = Absent THEN def[f].default ELSE data[f]]

(* The fields a chain of not_before leads to from f, f not included.         *)
Before(def, f) ==
  LET path == Path(def, def[f].notBefore)
  IN  {path[i] : i \in DOMAIN path} \ {NoField}

(* Definition.Validate, of the rules modelled here.                          *)
DefinitionValidates(def) ==
  \A f \in Fields :
    LET r == def[f]
    IN  /\ r.type = "enum" => r.enum # {}
        /\ r.default # Absent => ValueFault(r, r.default) = "none"
        /\ r.min # -Big \/ r.max # Big => r.type \in {"number", "money"}
        /\ r.min <= r.max /\ r.length >= 0
        /\ r.length # Big => r.type = "string"
        /\ r.notBefore # NoField => r.type = "date" /\ def[r.notBefore].type = "date"
        /\ f \notin Before(def, f)

------------------------------------------------------------------------------
InForceOf(st) ==
  LET up == {v \in Versions : st[v] = "published"}
  IN  IF up = {} THEN 0 ELSE CHOOSE v \in up : \A w \in up : w <= v
InForce == InForceOf(status)

(* What sync-tenant-modules counts in the record, when the definition in     *)
(* force went from version old, or none, to version new.                     *)

(* CountMissingField.                                                        *)
RequiredFieldWarning(new, f) ==
  Rules[new][f].required /\ (row.data[f] = Absent \/ IsBlankString(row.data[f]))

ChangedSince(old, changed) == old = 0 \/ changed

(* CountFieldTypeMismatch.                                                   *)
TypeChangeWarning(old, new, f) ==
  /\ ChangedSince(old, old # 0 => Rules[old][f].type # Rules[new][f].type)
  /\ row.data[f] # Absent
  /\ row.data[f].shape # FieldTypeJSONShape(Rules[new][f].type)

(* Only a bound that is tighter is new.                                      *)
NumericBoundChanged(old, new) == new.min > old.min \/ new.max < old.max
(* CountOutOfRangeField.                                                     *)
NumericBoundWarning(old, new, f) ==
  LET rule == Rules[new][f]
  IN  /\ rule.type = "number"
      /\ ChangedSince(old, old # 0 => NumericBoundChanged(Rules[old][f], rule))
      /\ row.data[f].shape = "number"
      /\ row.data[f].n < rule.min \/ row.data[f].n > rule.max

Warnings(old, new) ==
  {f \in Fields : \/ RequiredFieldWarning(new, f)
                  \/ TypeChangeWarning(old, new, f)
                  \/ NumericBoundWarning(old, new, f)}

(* CountOutOfRangeField is not asked about money.                            *)
BeyondMoneyBound(v) ==
  {f \in Fields : /\ Rules[v][f].type = "money"
                  /\ Fault(Rules[v][f], row.data[f]) \in {"below_minimum", "above_maximum"}}

------------------------------------------------------------------------------
Init ==
  /\ status = [v \in Versions |-> "absent"]
  /\ row = NoRow /\ told = {} /\ slipped = {}

(* syncTenant of a release with version v.                                   *)
Sync(v) ==
  /\ status[v] = "absent" /\ DefinitionValidates(Rules[v])
  /\ status' = [status EXCEPT ![v] = "published"]
  /\ told' = IF row = NoRow \/ InForceOf(status') = InForce THEN told
             ELSE told \union Warnings(InForce, v)
  /\ slipped' = IF row = NoRow \/ InForceOf(status') = InForce THEN slipped
                ELSE slipped \union BeyondMoneyBound(v)
  /\ UNCHANGED row

Refused(v) == {f \in Fields : Fault(Rules[v][f], row.data[f]) # "none"}

Rollback(v) ==
  /\ status[v] = "published"
  /\ status' = [status EXCEPT ![v] = "rolled_back"]
  /\ slipped' = IF row = NoRow \/ InForceOf(status') \in {0, InForce} THEN slipped
                ELSE slipped \union Refused(InForceOf(status'))
  /\ UNCHANGED <<row, told>>

Store(data) ==
  /\ ValidateRecord(Rules[InForce], data)
  /\ row' = [data |-> data, under |-> InForce]
  /\ told' = {} /\ slipped' = {}
  /\ UNCHANGED status

Create(data) == InForce # 0 /\ row = NoRow /\ Store(ApplyDefaults(Rules[InForce], data))
(* Update replaces the whole record.                                         *)
Update(data) == InForce # 0 /\ row # NoRow /\ Store(data)

Delete ==
  /\ row # NoRow
  /\ row' = NoRow /\ told' = {} /\ slipped' = {}
  /\ UNCHANGED status

Next ==
  \/ \E v \in Versions : Sync(v) \/ Rollback(v)
  \/ \E data \in Submissions : Create(data) \/ Update(data)
  \/ Delete

Spec == Init /\ [][Next]_vars

------------------------------------------------------------------------------
TypeOK ==
  /\ status \in [Versions -> {"absent", "published", "rolled_back"}]
  /\ row.under \in Versions \union {0}
  /\ told \subseteq Fields /\ slipped \subseteq Fields

(* What validateNotBefore is for: the dates of a stored record are in order  *)
(* along the whole chain of its definition, stages left out or not, as far   *)
(* as what was entered are dates.                                            *)
DatesInOrder ==
  (row # NoRow /\ \A f \in Fields : row.data[f].n # Garbage) =>
    LET def == Rules[row.under]
    IN  \A f \in Fields : \A g \in Before(def, f) :
          IsSet(row.data[f]) /\ IsSet(row.data[g]) => row.data[g].n <= row.data[f].n

(* What the comment of validateNotBefore says it compares with: the nearest  *)
(* predecessor that is set and is a date.                                    *)
DatesFollowParseable ==
  row # NoRow =>
    LET def == Rules[row.under]
        IsDate(f) == IsSet(row.data[f]) /\ row.data[f].n # Garbage
    IN  \A f \in Fields : \A g \in Before(def, f) :
          (IsDate(f) /\ IsDate(g) /\ ~ \E h \in Before(def, f) : IsDate(h) /\ g \in Before(def, h))
            => row.data[g].n <= row.data[f].n

(* What no warning of a sync is about.                                       *)
Unannounced == {"none", "too_long", "enum_invalid", "no_translation"}

(* No record is stranded in silence: a field for which the next save of the  *)
(* record as it is will be refused was warned of by a sync since the record  *)
(* was saved, unless a rollback did it, or a bound that came when the field  *)
(* was money, or no warning is about that rule.                              *)
StrandedIsAnnounced ==
  (row # NoRow /\ InForce # 0) =>
    \A f \in Fields \ (told \union slipped) :
       Fault(Rules[InForce][f], row.data[f]) \in Unannounced

=============================================================================
