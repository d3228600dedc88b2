---------------------------- MODULE Provisioning ----------------------------
(***************************************************************************)
(* How a tenant comes to be and its definitions come and go: the registry  *)
(* and, beside it, tenants, syncs, bundles, the declared modules, status   *)
(* graphs, the rules of fields and the data migrations.  The parts do not  *)
(* share rows, so a behaviour is one of a single part, and the variables   *)
(* of the others are off.                                                  *)
(***************************************************************************)
EXTENDS DefinitionRegistry

CONSTANTS
  \* tenants and their databases
  Makers, Migrators, Callers, Migrations, Slugs, NameOf, MaxFaults, Nobody,
  \* syncs
  SyncedTypes, SyncedVersions, ModuleOfType, UniqueIn, Runs, Release, Grants,
  Registries, MaxSyncFaults,
  \* bundles
  Bundles, Author, BundleModule, BundleItems, Graphs, BundleTypes, BundleVersions,
  Codes, BuiltIn, CodeOf, MaxBundleStops,
  \* modules
  Licences,
  \* status graphs
  GraphSeeders, Documents, MaxCrashes,
  \* rules of fields
  RecordFields, NoField, FieldVersions, FieldRulesOf, Submissions,
  \* data migrations
  OldTenants, Operators, Commands, StatusCodes, Locales, Translations,
  MaxSaves, MaxRuns, MaxMigrationCrashes

(* A command is told apart from the holder of no lock, a goroutine from    *)
(* the flight of no one; bounds are numbers.                               *)
ASSUME TenancyAssumption ==
  /\ Migrators \subseteq Makers /\ Migrations \in Nat /\ Slugs \in Nat \ {0}
  /\ MaxFaults \in Nat
  /\ Nobody \notin (Makers \X {"create", "migrate"}) \union Callers

(* Versions count from 1; 0 stands for a type that is not published.       *)
ASSUME SyncAssumption ==
  /\ SyncedVersions \subseteq Nat \ {0} /\ IsFiniteSet(SyncedVersions)
  /\ Release \in [Runs -> Seq(SyncedTypes \X SyncedVersions)]
  /\ Registries \subseteq SUBSET (SyncedTypes \X SyncedVersions)
  /\ MaxSyncFaults \in Nat

(* Load refuses a bundle without entities and one that names a status type *)
(* twice; the program has a status type for one entity type only.  Who     *)
(* uses a module key is taken to be its author.                            *)
ASSUME BundlesAssumption ==
  /\ Bundles \intersect {"core", "none"} = {} /\ "none" \notin BundleTypes
  /\ BundleVersions \subseteq Nat /\ IsFiniteSet(BundleVersions) /\ MaxBundleStops \in Nat
  /\ BundleItems \in [Bundles -> Seq({"entity", "form"} \X BundleTypes \X BundleVersions)]
  /\ \A b \in Bundles :
        /\ BundleItems[b] # <<>>
        /\ DOMAIN Graphs[b] \subseteq BundleTypes
        /\ \A t \in DOMAIN Graphs[b] : Graphs[b][t] \in Codes
        /\ \A s, t \in DOMAIN Graphs[b] : Graphs[b][s] = Graphs[b][t] => s = t
  /\ \A a, b \in Bundles : BundleModule[a] = BundleModule[b] => Author[a] = Author[b]
  /\ DOMAIN CodeOf \subseteq BundleTypes
  /\ \A s, t \in DOMAIN CodeOf : CodeOf[s] = CodeOf[t] => s = t

(* What the data migrations look at of a record, and the records they find:*)
(* those say what is meant, with amounts in one of the two units.          *)
MigratedFields ==
  [POLine |-> {"unit_price", "line_total"},
   PurchaseOrder |-> {"total", "status", "status_id"},
   RequestForQuotationQuoteLine |-> {"unit_price"},
   GoodsReceipt |-> {"facility_id"},
   InventoryItem |-> {"item_id", "facility_id"},
   Status |-> {"code", "plain", "name"},
   FixedAsset |-> {"posted_period_count"}]
Amounts == {"unit_price", "line_total", "total"}
SaysWhatIsMeant(old) ==
  LET fields == MigratedFields[old.type] IN
  /\ old.type \in DOMAIN MigratedFields /\ old.posted \in Nat
  /\ old.data = [f \in fields |-> old.data[f]] /\ old.meant = [f \in fields |-> old.meant[f]]
  /\ \A f \in fields \ Amounts : old.data[f] = old.meant[f]
  /\ \A f \in fields \intersect Amounts :
       /\ old.meant[f] \in Nat \union {-1}
       /\ old.data[f] \in {old.meant[f], IF old.meant[f] > 0 THEN 100 * old.meant[f] ELSE old.meant[f]}
  /\ "name" \in fields => old.data.name = [l \in Locales |-> old.data.name[l]]

(* Ids are not empty.                                                      *)
ASSUME MigrationAssumption ==
  /\ "" \notin Operators /\ \A k \in DOMAIN StatusCodes : StatusCodes[k] # ""
  /\ Commands \subseteq
       {"poline-money", "purchase-order-total", "purchase-order-status",
        "quote-line-unit-price", "goods-receipt-facility", "inventory-facility",
        "status-name-i18n", "status-name-translations", "fixedasset-posted-period-count"}
  /\ \A first \in OldTenants :
       /\ IsFiniteSet(DOMAIN first) /\ DOMAIN first \subseteq Nat
       /\ \A r \in DOMAIN first : SaysWhatIsMeant(first[r])
  /\ MaxSaves \in Nat /\ MaxRuns \in Nat /\ MaxMigrationCrashes \in Nat

(* A definition declares types there are, numbered bounds and dates after  *)
(* fields of its own.                                                      *)
ASSUME RulesAssumption ==
  /\ IsFiniteSet(RecordFields) /\ NoField \notin RecordFields
  /\ IsFiniteSet(FieldVersions) /\ FieldVersions \subseteq Nat \ {0}
  /\ \A v \in FieldVersions : \A f \in RecordFields :
       LET rule == FieldRulesOf[v][f]
       IN  /\ rule.type \in {"string", "date", "reference", "enum", "number", "money",
                             "bool", "i18n_text"}
           /\ rule.notBefore \in RecordFields \union {NoField}
           /\ rule.min \in Int /\ rule.max \in Int /\ rule.default.n \in Int
  /\ \A data \in Submissions : \A f \in RecordFields : data[f].n \in Int

VARIABLES
  part,
  tenantRow, database, applied, runs, lock, work, pool, opened, flight, call,
  tenantFaults,
  typeStatus, granted, unkeyed, run, lost, syncFaults,
  bundleRow, owners, graph, install, bundleStops,
  licence, stage, used,
  code, rows, committed, seeder, document, crashes,
  ruleStatus, record, told, slipped,
  row, meant, posted, facilities, migration, promised, declined, saves, migrations,
  migrationCrashes

tenancyVars == <<tenantRow, database, applied, runs, lock, work, pool, opened,
                 flight, call, tenantFaults>>
syncVars == <<typeStatus, granted, unkeyed, run, lost, syncFaults>>
bundleVars == <<bundleRow, owners, graph, install, bundleStops>>
setupVars == <<licence, stage, used>>
graphVars == <<code, rows, committed, seeder, document, crashes>>
rulesVars == <<ruleStatus, record, told, slipped>>
migrationVars == <<row, meant, posted, facilities, migration, promised, declined, saves,
                   migrations, migrationCrashes>>
vars == <<part, registryVars, tenancyVars, syncVars, bundleVars, setupVars,
          graphVars, rulesVars, migrationVars>>

Parts == {"registry", "tenancy", "sync", "bundles", "setup", "graphs", "rules",
          "migration"}
Off == "off"

-----------------------------------------------------------------------------
Tenancy == INSTANCE Tenancy WITH row <- tenantRow, faults <- tenantFaults
ModuleSync == INSTANCE ModuleSync WITH
  Types <- SyncedTypes, Versions <- SyncedVersions, Module <- ModuleOfType,
  MaxFaults <- MaxSyncFaults, status <- typeStatus, faults <- syncFaults
BundleInstall == INSTANCE BundleInstall WITH
  Module <- BundleModule, Items <- BundleItems, Types <- BundleTypes,
  Versions <- BundleVersions, InstallAlone <- TRUE, MaxStops <- MaxBundleStops,
  row <- bundleRow, stops <- bundleStops
TenantSetup == INSTANCE TenantSetup
(* A tenant has the foundation, and the modules are as they are declared.  *)
ASSUME SetupAssumption ==
  /\ \A modules \in Licences :
       modules \subseteq DOMAIN TenantSetup!ModuleTypes /\ "foundation" \in modules
  /\ TenantSetup!SeedTypes \subseteq TenantSetup!TypesOf("foundation")
  /\ \A m \in DOMAIN TenantSetup!ModuleTypes : TenantSetup!WellEquipped(m)
StatusGraphs == INSTANCE StatusGraphs WITH Seeders <- GraphSeeders, SeedAlone <- TRUE
FieldRules == INSTANCE FieldRules WITH
  Fields <- RecordFields, Versions <- FieldVersions, Rules <- FieldRulesOf,
  status <- ruleStatus, row <- record
(* The graphs of the modules, evaluated as they are declared.              *)
ASSUME GraphsAssumption ==
  /\ MaxCrashes \in Nat
  /\ \A c \in DOMAIN StatusGraphs!AllGraphs :
       StatusGraphs!WellDeclared(StatusGraphs!AllGraphs[c])

Migration == INSTANCE RecordMigration WITH
  Tenants <- OldTenants, WholeToo <- FALSE, Codes <- StatusCodes,
  MaxCrashes <- MaxMigrationCrashes,
  run <- migration, runs <- migrations, crashes <- migrationCrashes

-----------------------------------------------------------------------------
TenancyOff ==
  /\ tenantRow = Off /\ database = Off /\ applied = Off /\ runs = Off /\ lock = Off
  /\ work = Off /\ pool = Off /\ opened = Off /\ flight = Off /\ call = Off
  /\ tenantFaults = Off
SyncOff ==
  /\ typeStatus = Off /\ granted = Off /\ unkeyed = Off /\ run = Off /\ lost = Off
  /\ syncFaults = Off
BundleOff ==
  bundleRow = Off /\ owners = Off /\ graph = Off /\ install = Off /\ bundleStops = Off
SetupOff == licence = Off /\ stage = Off /\ used = Off
GraphsOff ==
  /\ code = Off /\ rows = Off /\ committed = Off /\ seeder = Off /\ document = Off
  /\ crashes = Off
RulesOff == ruleStatus = Off /\ record = Off /\ told = Off /\ slipped = Off

MigrationOff ==
  /\ row = Off /\ meant = Off /\ posted = Off /\ facilities = Off /\ migration = Off
  /\ promised = Off /\ declined = Off /\ saves = Off /\ migrations = Off
  /\ migrationCrashes = Off

Init ==
  /\ part \in Parts
  /\ RegistryInit
  /\ IF part = "tenancy" THEN Tenancy!Init ELSE TenancyOff
  /\ IF part = "sync" THEN ModuleSync!Init ELSE SyncOff
  /\ IF part = "bundles" THEN BundleInstall!Init ELSE BundleOff
  /\ IF part = "setup" THEN TenantSetup!Init ELSE SetupOff
  /\ IF part = "graphs" THEN StatusGraphs!Init ELSE GraphsOff
  /\ IF part = "rules" THEN FieldRules!Init ELSE RulesOff
  /\ IF part = "migration" THEN Migration!Init ELSE MigrationOff

Idle(p, v) == IF part = p THEN TRUE ELSE UNCHANGED v
OthersIdle ==
  /\ UNCHANGED part
  /\ Idle("registry", registryVars) /\ Idle("tenancy", tenancyVars)
  /\ Idle("sync", syncVars) /\ Idle("bundles", bundleVars) /\ Idle("setup", setupVars)
  /\ Idle("graphs", graphVars) /\ Idle("rules", rulesVars)
  /\ Idle("migration", migrationVars)

RegistryStep == part = "registry" /\ RegistryNext /\ OthersIdle
TenancyStep == part = "tenancy" /\ Tenancy!Next /\ OthersIdle
SyncStep == part = "sync" /\ ModuleSync!Next /\ OthersIdle
BundleStep == part = "bundles" /\ BundleInstall!Next /\ OthersIdle
SetupStep == part = "setup" /\ TenantSetup!Next /\ OthersIdle
GraphStep == part = "graphs" /\ StatusGraphs!Next /\ OthersIdle
RulesStep == part = "rules" /\ FieldRules!Next /\ OthersIdle
MigrationStep == part = "migration" /\ Migration!Next /\ OthersIdle

Next ==
  \/ RegistryStep \/ TenancyStep \/ SyncStep \/ BundleStep \/ SetupStep \/ GraphStep
  \/ RulesStep \/ MigrationStep

Spec == Init /\ [][Next]_vars

-----------------------------------------------------------------------------
(* Create, Migrate and Router.Get: a created tenant has its database and    *)
(* every migration, and no other tenant its slug; a migration takes effect  *)
(* once; the server holds one pool per tenant.                              *)
TenantsAreSound ==
  part = "tenancy" =>
    Tenancy!TypeOK /\ Tenancy!TenantsAreUsable /\ Tenancy!MigratedOnce /\ Tenancy!OnePoolPerTenant

(* syncTenant gives a tenant no module it has not got, and what its dry run *)
(* announces is what a run would do.                                        *)
SyncsKeepToTheirModules ==
  part = "sync" => ModuleSync!TypeOK /\ ModuleSync!NeverGrants /\ ModuleSync!DryRunIsHonest

(* After a sync a unique constraint in force has the keys of all records.   *)
ConstraintsProtect == part = "sync" => ModuleSync!ConstraintsProtect

(* modulebundle.Install: one author per type and per status graph, and a    *)
(* success means this bundle's own definitions are in force.                *)
BundlesKeepApart ==
  part = "bundles" =>
    /\ BundleInstall!TypeOK /\ BundleInstall!OneOwner
    /\ BundleInstall!GraphsUnshared /\ BundleInstall!InstalledIsItsOwn

(* The definitions and forms of the modules, published in any order: every  *)
(* type gets records through its form, and every list of a form is shown.   *)
EveryTypeUsable == part = "setup" => TenantSetup!TypeOK /\ TenantSetup!EveryTypeUsable

(* statusgraph.Seed: no row twice however often it is run, and from every   *)
(* status a way to one that ends the document.                              *)
GraphsAreSeeded ==
  part = "graphs" =>
    StatusGraphs!TypeOK /\ StatusGraphs!SeededOnce /\ StatusGraphs!DocumentsCanEnd

(* ValidateRecord and the warnings of a sync: the dates of a stored record  *)
(* are in order, and a record that a new version makes unsavable is         *)
(* announced.                                                               *)
RecordsStayValid ==
  part = "rules" =>
    FieldRules!TypeOK /\ FieldRules!DatesInOrder /\ FieldRules!StrandedIsAnnounced

(* A data migration keeps what its records meant, converts all of a record *)
(* or nothing, and does what its dry run said.                             *)
MigrationsKeepMeaning ==
  [][part = "migration" =>
       /\ (Migration!TypeOK /\ Migration!MeaningKept /\ Migration!PromisesKept)'
       /\ Migration!Whole]_vars
=============================================================================
