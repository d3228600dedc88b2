CONSTANTS
  order = order  invoice = invoice  s1 = s1  s2 = s2  s3 = s3  Nobody = Nobody  o1 = o1  o2 = o2
  Keys = {order, invoice}
  Versions = {1, 2}
  Seeders = {s1, s2, s3}
  Items <- TwoReleases
  MaxStops = 2
  Makers = {"m", "n"}  Migrators = {"m"}  Callers = {"x", "y"}  Migrations = 2
  Slugs = 2  NameOf <- OneName  MaxFaults = 1
  SyncedTypes = {"F", "O", "B"}  SyncedVersions = {1, 2, 3}  ModuleOfType <- TypesOfModules
  UniqueIn <- UniqueNames  Runs = {"sync", "publish"}  Release <- Releases
  Grants <- CrmGranted  Registries <- EarlierRegistries  MaxSyncFaults = 1
  Bundles = {"a1", "a2", "c", "d", "e"}  Author <- Authors  BundleModule <- BundleModules
  BundleItems <- ItemsOfBundles  Graphs <- GraphsOfBundles  BundleTypes = {"W", "X", "PO"}
  BundleVersions = {1, 2}  Codes = {"w", "po"}  BuiltIn <- ShippedTypes
  CodeOf <- ShippedCodes  MaxBundleStops = 2
  Licences <- ThreeLicences
  GraphSeeders = {"s1", "s2"}  Documents = {"d"}  MaxCrashes = 1
  RecordFields = {"text", "qty", "ordered", "shipped", "received"}  NoField = "-"
  FieldVersions = {1, 2, 3}  FieldRulesOf <- ThreeVersions  Submissions <- FieldSubmissions
  OldTenants <- TenantsOfOld  Operators = {o1, o2}  Commands <- CommandsOfOld
  StatusCodes <- OrderCodes  Locales = {"en", "tr"}  Translations <- ModuleLocales
  MaxSaves = 1  MaxRuns = 3  MaxMigrationCrashes = 1
SPECIFICATION Spec
INVARIANTS SuccessMeansSettled  SyncsKeepToTheirModules 
           BundlesKeepApart EveryTypeUsable GraphsAreSeeded 
PROPERTIES OneStateAtATime InForceFallsByRollback 
CHECK_DEADLOCK FALSE
