--------------------------- MODULE RecordMigration ---------------------------
(* The one-off migrations of record data: internal/kernel/recordmigrate and  *)
(* the commands cmd/backfill-*, run by an operator against a tenant whose    *)
(* users and workers keep saving the same records.                           *)
(*                                                                           *)
(* A command lists the records once and updates them one by one against the  *)
(* version it listed.  The new Definitions are published already (a command  *)
(* refuses to start otherwise).  An amount is in hundredths of the stored    *)
(* number: 950 is 9.5, which an old record means as 9.50 and no new record   *)
(* can hold; 1900 is 19, old for 19.00 or new for 0.19.                      *)
EXTENDS Integers, Sequences, FiniteSetsExt, Functions

CONSTANTS
  Tenants,        \* sequences of records, oldest first: [type, data, meant,
                  \* posted], the periods posted for an asset
  Operators, Commands,
  WholeToo,       \* -include-whole-numbers
  Codes,          \* purchase order status code -> id of its Status record
  Locales, Translations,   \* Status code -> the locales its module has
  MaxSaves, MaxRuns, MaxCrashes

VARIABLES
  row,            \* record -> [type, version, data]
  meant,          \* record -> the data its last writer meant, in minor units
  posted,         \* asset -> periods posted for it
  facilities,     \* the facilities of code MAIN, oldest first
  run,            \* operator -> the command it is running
  promised, declined,   \* <<command, record, version>>: what a dry run says
                        \* it would migrate, and what a real run skipped
  saves, runs, crashes

vars == <<row, meant, posted, facilities, run, promised, declined, saves, runs,
          crashes>>

Records == DOMAIN row
MoneyFields == {"unit_price", "line_total", "total"}
Money(d) == DOMAIN d \cap MoneyFields
Absent == -1
None == ""
ZeroID == "00000000"

------------------------------------------------------------------------------
(* The transforms.                                                           *)
Migrate(d) == [act |-> "migrate", data |-> d]
AlreadyDone == [act |-> "done", data |-> <<>>]
Skip == [act |-> "skip", data |-> <<>>]

(* ledger.ToMinorUnits, the float taken as exact at two decimals.            *)
ToMinorUnits(n) == 100 * n

Ambiguous(n) == n % 100 = 0 /\ ~WholeToo

(* backfill-poline-money: both fields of the line or neither.                *)
PolineMoney(d) ==
  LET changed == {f \in Money(d) : d[f] > 0}
  IN CASE \E f \in changed : Ambiguous(d[f]) -> Skip
       [] changed = {} -> AlreadyDone
       [] OTHER -> Migrate([f \in DOMAIN d |->
                     IF f \in changed THEN ToMinorUnits(d[f]) ELSE d[f]])

(* backfill-purchase-order-total: no total and zero are the same in both units.*)
OrderTotal(d) ==
  IF d.total \in {Absent, 0} THEN AlreadyDone
  ELSE IF Ambiguous(d.total) THEN Skip
  ELSE Migrate([d EXCEPT !.total = ToMinorUnits(@)])

(* backfill-quote-line-unit-price: zero is a whole number here.              *)
QuoteLinePrice(d) ==
  IF d.unit_price = Absent \/ Ambiguous(d.unit_price) THEN Skip
  ELSE Migrate([d EXCEPT !.unit_price = ToMinorUnits(@)])

OrderStatus(d) ==
  IF d.status_id # None THEN AlreadyDone
  ELSE IF d.status \notin DOMAIN Codes THEN Skip
  ELSE Migrate([d EXCEPT !.status_id = Codes[d.status], !.status = None])

ReceiptFacility(d, id) ==
  IF d.facility_id # None THEN AlreadyDone
  ELSE Migrate([d EXCEPT !.facility_id = id])

StockFacility(d, id) ==
  IF d.facility_id # None THEN AlreadyDone
  ELSE Migrate([d EXCEPT !.facility_id = id])

NameI18n(d) ==
  IF d.plain THEN Migrate([d EXCEPT !.plain = FALSE]) ELSE AlreadyDone

NameTranslations(d) ==
  LET added == {l \in Translations[d.code] : d.name[l] = None}
  IN IF d.plain \/ d.code \notin DOMAIN Translations THEN Skip
     ELSE IF added = {} THEN AlreadyDone
     ELSE Migrate([d EXCEPT !.name = [l \in Locales |->
                     IF l \in added THEN "module" ELSE @[l]]])

PostedPeriodCount(d, n) ==
  IF d.posted_period_count = n THEN AlreadyDone
  ELSE Migrate([d EXCEPT !.posted_period_count = n])

TypeFor(command) ==
  CASE command = "poline-money" -> "POLine"
    [] command \in {"purchase-order-total", "purchase-order-status"} ->
         "PurchaseOrder"
    [] command = "quote-line-unit-price" -> "RequestForQuotationQuoteLine"
    [] command = "goods-receipt-facility" -> "GoodsReceipt"
    [] command = "inventory-facility" -> "InventoryItem"
    [] command \in {"status-name-i18n", "status-name-translations"} -> "Status"
    [] command = "fixedasset-posted-period-count" -> "FixedAsset"

NeedsFacility(command) ==
  command \in {"goods-receipt-facility", "inventory-facility"}

Transform(command, d, facility, counted) ==
  CASE command = "poline-money" -> PolineMoney(d)
    [] command = "purchase-order-total" -> OrderTotal(d)
    [] command = "quote-line-unit-price" -> QuoteLinePrice(d)
    [] command = "purchase-order-status" -> OrderStatus(d)
    [] command = "goods-receipt-facility" -> ReceiptFacility(d, facility)
    [] command = "inventory-facility" -> StockFacility(d, facility)
    [] command = "status-name-i18n" -> NameI18n(d)
    [] command = "status-name-translations" -> NameTranslations(d)
    [] command = "fixedasset-posted-period-count" ->
         PostedPeriodCount(d, counted)

(* ValidateRecord against the published versions: whole amounts, and what is *)
(* required.                                                                 *)
ValidateRecord(t, d) ==
  /\ \A f \in Money(d) : d[f] = Absent \/ d[f] % 100 = 0
  /\ t = "RequestForQuotationQuoteLine" => d.unit_price # Absent
  /\ t = "PurchaseOrder" => d.status_id # None
  /\ t \in {"GoodsReceipt", "InventoryItem"} => d.facility_id # None
  /\ t = "Status" => ~d.plain

(* InventoryItem's Unique (item_id, facility_id), checked by Update.         *)
Taken(r, d) ==
  /\ row[r].type = "InventoryItem" /\ d.facility_id # None
  /\ \E s \in Records \ {r} : row[s].type = "InventoryItem" /\ row[s].data = d

------------------------------------------------------------------------------
Idle == [at |-> "idle", command |-> "", dry |-> FALSE, facility |-> None,
         todo |-> {}, listed |-> <<>>, counted |-> 0]

(* Where the loop looks at its next record: the counter's reads what it      *)
(* counts first.                                                             *)
Loop(command) ==
  IF command = "fixedasset-posted-period-count" THEN "count" ELSE "update"

Init ==
  /\ \E first \in Tenants :
       /\ row = [r \in DOMAIN first |-> [type |-> first[r].type, version |-> 1,
                                         data |-> first[r].data]]
       /\ meant = [r \in DOMAIN first |-> first[r].meant]
       /\ posted = [r \in DOMAIN first |-> first[r].posted]
  /\ facilities = <<>>
  /\ run = [c \in Operators |-> Idle]
  /\ promised = {} /\ declined = {}
  /\ saves = 0 /\ runs = 0 /\ crashes = 0

StartRun(c) ==
  /\ run[c].at \in {"idle", "ended", "conflict", "refused"} /\ runs < MaxRuns
  /\ \E command \in Commands, dry \in BOOLEAN :
       /\ \E r \in Records : row[r].type = TypeFor(command)
       /\ run' = [run EXCEPT ![c] = [Idle EXCEPT !.command = command, !.dry = dry,
                !.at = IF NeedsFacility(command) THEN "facility" ELSE "list"]]
  /\ runs' = runs + 1
  /\ UNCHANGED <<row, meant, posted, facilities, promised, declined, saves,
                 crashes>>

(* GetOrCreateFacility: looks, and creates in a transaction of its own.      *)
FindFacility(c) ==
  /\ run[c].at = "facility"
  /\ run' = [run EXCEPT ![c] =
       CASE facilities # <<>> -> [@ EXCEPT !.at = "list",
                                           !.facility = Head(facilities)]
         [] facilities = <<>> /\ run[c].dry -> [@ EXCEPT !.at = "list", !.facility = ZeroID]
         [] OTHER -> [@ EXCEPT !.at = "create"]]
  /\ UNCHANGED <<row, meant, posted, facilities, promised, declined, saves,
                 runs, crashes>>

CreateFacility(c) ==
  /\ run[c].at = "create"
  /\ facilities' = Append(facilities, c)
  /\ run' = [run EXCEPT ![c].at = "list", ![c].facility = c]
  /\ UNCHANGED <<row, meant, posted, promised, declined, saves, runs, crashes>>

List(c) ==
  /\ run[c].at = "list"
  /\ LET mine == {r \in Records : row[r].type = TypeFor(run[c].command)} IN
       run' = [run EXCEPT ![c].at = Loop(run[c].command), ![c].todo = mine,
                          ![c].listed = [r \in mine |-> row[r]]]
  /\ UNCHANGED <<row, meant, posted, facilities, promised, declined, saves,
                 runs, crashes>>

(* One record of the loop, as listed.                                        *)
Current(c) == Min(run[c].todo)
Listed(c) == run[c].listed[Current(c)]
Outcome(c) ==
  Transform(run[c].command, Listed(c).data, run[c].facility, run[c].counted)
WouldMigrate(c) ==
  /\ Outcome(c).act = "migrate"
  /\ ValidateRecord(row[Current(c)].type, Outcome(c).data)
Entry(c) == <<run[c].command, Current(c), Listed(c).version>>

GoOn(c) ==
  LET left == run[c].todo \ {Current(c)} IN
    run' = [run EXCEPT ![c].todo = left,
                       ![c].counted = 0,
                       ![c].at = IF left = {} THEN "ended"
                                 ELSE Loop(run[c].command)]

(* Faulty variant: the update is not checked against the version listed.     *)
AnyVersion(c) == TRUE
SameVersion(c) == row[Current(c)].version = Listed(c).version

(* The posted periods of the asset, read outside the transaction of Update.  *)
CountPosted(c) ==
  /\ run[c].at = "count"
  /\ run' = [run EXCEPT ![c].at = "update", ![c].counted = posted[Current(c)]]
  /\ UNCHANGED <<row, meant, posted, facilities, promised, declined, saves,
                 runs, crashes>>

SkipRecord(c) ==
  /\ run[c].at = "update" /\ ~WouldMigrate(c)
  /\ declined' = IF run[c].dry \/ Outcome(c).act = "done" THEN declined
                 ELSE declined \cup {Entry(c)}
  /\ GoOn(c)
  /\ UNCHANGED <<row, meant, posted, facilities, promised, saves, runs, crashes>>

PreviewRecord(c) ==
  /\ run[c].at = "update" /\ WouldMigrate(c) /\ run[c].dry
  /\ promised' = promised \cup {Entry(c)}
  /\ GoOn(c)
  /\ UNCHANGED <<row, meant, posted, facilities, declined, saves, runs, crashes>>

UpdateRecord(c) ==
  LET r == Current(c) IN
    /\ run[c].at = "update" /\ WouldMigrate(c) /\ ~run[c].dry
    /\ SameVersion(c) /\ ~Taken(r, Outcome(c).data)
    /\ row' = [row EXCEPT ![r].version = @ + 1, ![r].data = Outcome(c).data]
    /\ GoOn(c)
    /\ UNCHANGED <<meant, posted, facilities, promised, declined, saves, runs,
                   crashes>>

(* An update that fails ends the run, except that the counter's own loop     *)
(* steps over a version conflict.                                            *)
UpdateFails(c) ==
  /\ run[c].at = "update" /\ WouldMigrate(c) /\ ~run[c].dry
  /\ \/ /\ ~SameVersion(c)
        /\ IF run[c].command = "fixedasset-posted-period-count" THEN GoOn(c)
           ELSE run' = [run EXCEPT ![c] = [Idle EXCEPT !.at = "conflict"]]
     \/ /\ SameVersion(c) /\ Taken(Current(c), Outcome(c).data)
        /\ run' = [run EXCEPT ![c] = [Idle EXCEPT !.at = "refused"]]
  /\ UNCHANGED <<row, meant, posted, facilities, promised, declined, saves,
                 runs, crashes>>

Crash(c) ==
  /\ run[c].at \in {"facility", "create", "list", "count", "update"}
  /\ crashes < MaxCrashes /\ crashes' = crashes + 1
  /\ run' = [run EXCEPT ![c] = Idle]
  /\ UNCHANGED <<row, meant, posted, facilities, promised, declined, saves, runs>>

------------------------------------------------------------------------------
(* The users: one field set on the form, the rest sent back as it was.       *)
SavedAs(r, d) ==
  {[d EXCEPT ![f] = 500] : f \in Money(d)}
    \cup (IF row[r].type = "PurchaseOrder"
          THEN {[d EXCEPT !.status_id = i, !.status = None] :
                  i \in {Codes[k] : k \in DOMAIN Codes}} ELSE {})
    \cup (IF row[r].type \in {"GoodsReceipt", "InventoryItem"}
          THEN {[d EXCEPT !.facility_id = "shop"]} ELSE {})
    \cup (IF row[r].type = "Status"
          THEN {[d EXCEPT !.plain = FALSE, !.name = [@ EXCEPT ![l] = "user"]] : l \in Locales}
          ELSE {})

(* What the user means by it: an amount just typed is in minor units.        *)
Means(m, d, new) ==
  [f \in DOMAIN d |-> IF f \in MoneyFields /\ new[f] = d[f] THEN m[f]
                      ELSE IF f \in MoneyFields THEN new[f] \div 100 ELSE new[f]]

UserSaves(r) ==
  /\ saves < MaxSaves /\ saves' = saves + 1
  /\ \E d \in SavedAs(r, row[r].data) :
       /\ ValidateRecord(row[r].type, d) /\ ~Taken(r, d) /\ d # row[r].data
       /\ row' = [row EXCEPT ![r].version = @ + 1, ![r].data = d]
       /\ meant' = [meant EXCEPT ![r] = Means(@, row[r].data, d)]
  /\ UNCHANGED <<posted, facilities, run, promised, declined, runs, crashes>>

(* The depreciation worker, which counts and posts in one transaction.       *)
PostPeriod(r) ==
  /\ row[r].type = "FixedAsset"
  /\ saves < MaxSaves /\ saves' = saves + 1
  /\ posted' = [posted EXCEPT ![r] = @ + 1]
  /\ row' = [row EXCEPT ![r].version = @ + 1,
                        ![r].data.posted_period_count = @ + 1]
  /\ UNCHANGED <<meant, facilities, run, promised, declined, runs, crashes>>

Step(c) ==
  \/ StartRun(c) \/ FindFacility(c) \/ CreateFacility(c) \/ List(c)
  \/ CountPosted(c) \/ SkipRecord(c) \/ PreviewRecord(c) \/ UpdateRecord(c)
  \/ UpdateFails(c) \/ Crash(c)

Next == \/ \E c \in Operators : Step(c)
        \/ \E r \in Records : UserSaves(r) \/ PostPeriod(r)

Spec == Init /\ [][Next]_vars

------------------------------------------------------------------------------
(* What a record says is what its last writer meant: an amount is in one of  *)
(* the two units and never converted twice, and no text, status or facility  *)
(* a user entered is replaced.  Crashes, conflicts, second runs and runs at  *)
(* the same time included (recordmigrate.Run, the package comment).          *)
MeaningKept ==
  \A r \in Records :
    LET d == row[r].data  m == meant[r] IN
      /\ \A f \in Money(d) : d[f] \in {m[f], IF m[f] > 0 THEN 100 * m[f] ELSE m[f]}
      /\ "status_id" \in DOMAIN d =>
           d.status_id \in {m.status_id} \cup
             {Codes[k] : k \in DOMAIN Codes \cap
                               (IF m.status_id = None THEN {m.status} ELSE {})}
      /\ "facility_id" \in DOMAIN d => m.facility_id \in {None, d.facility_id}
      /\ "name" \in DOMAIN d =>
           \A l \in Locales : m.name[l] \in {None, d.name[l]}

Whole ==
  \A r \in Records : row'[r] # row[r] /\ saves' = saves =>
    LET d == row'[r].data  m == meant[r] IN
      /\ ~\E f, g \in Money(d) : d[f] # m[f] /\ d[g] = m[g] /\ d[g] > 0
      /\ row[r].type = "FixedAsset" => d.posted_period_count = posted[r]
(* A migration writes no record with one amount in minor and one in major    *)
(* units (backfill-poline-money, all or nothing), and none of a counter that *)
(* is wrong: what it counted still holds when it is written.                 *)
WritesWhole == [][Whole]_vars

(* A record a dry run has promised to migrate is not skipped by a real run   *)
(* that lists the same version of it (recordmigrate.Run validates before the *)
(* dry-run branch; the zero id of GetOrCreateFacility).                      *)
PromisesKept == promised \cap declined = {}

(* Run returns an error only for a reason other than the record's own        *)
(* content (recordmigrate.Run, its comment).                                 *)
BadRowsStopNothing == \A c \in Operators : run[c].at # "refused"

(* Every variable has its type.                                              *)
TypeOK ==
  /\ \A r \in Records : row[r].version \in Nat \ {0}
  /\ \A c \in Operators :
       /\ run[c].at \in {"idle", "facility", "create", "list", "count", "update",
                         "ended", "conflict", "refused"}
       /\ run[c].todo \subseteq DOMAIN run[c].listed
  /\ facilities \in Seq(Operators) /\ IsInjective(facilities)
  /\ saves \in 0..MaxSaves /\ runs \in 0..MaxRuns /\ crashes \in 0..MaxCrashes
==============================================================================
