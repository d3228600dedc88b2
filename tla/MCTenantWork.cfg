CONSTANTS
  Nobody = Nobody  i1 = i1  i2 = i2
  Sources <- LegacySources
  Relations = {"customer", "vendor"}
  Keys = {"", "k", "j"}
  NoKey = ""
  Names = {"a", "b"}
  Blank = "?"
  Imports = {i1, i2}
  MaxRecords = 3  MaxRuns = 3  MaxEdits = 1  MaxCrashes = 1

  Tabs = {"x", "y"}  Tenants = {"t1", "t2"}  NoTenant = "none"
  Orgs = {"o1", "o2", "o3"}  LinkOf <- LinkedTenant  MaxLogins = 2

  Users = {"ann", "bob"}  Roles = {"admin", "clerk"}  Admin = "admin"
  Departments = {"d1"}  NoDepartment = "any"  RecordSources = {"s1"}  NoSource = "none"
  FirstGrants <- Granted  FirstRules = {}  FirstHides = {"clerk"}
  ApproverRole = "clerk"  JobDepartment = "d1"  MaxChanges = 2
  People = {"ann", "bob", "cay"}  FirstAdmins = {"ann", "bob"}
  MaxRoleRows = 4  MaxGrants = 3  MaxRequests = 3  MaxMemberFaults = 1

  Tasks = {"a", "b", "c"}  Projects = {"p", "q"}  Parties = {"x"}
  NoTask = "none"  NoParty = "none"  Editors = {"e1", "e2"}

  Invoices = {"i1"}  Periods = {"p1", "p2"}  Span <- PeriodSpan
  Accounts = {"a1", "a2"}  Codes = {"AR", "REV"}  NoCode = ""  SweepAlone = TRUE
  Dates = {0, 1, 2}  Totals = {0, 5}  Receivable = "AR"  Revenue = "REV"

  Lines = {"l1", "l2", "l3"}  Orders = {"o1"}  Places = {"p"}  VendorInvoices = {"i"}
  Quantities = {0, 1}  MaxRetries = 2  MaxReceiptEdits = 2

  Assets = {"a"}  Pollers = {"p", "q"}  Processes = {"g", "h"}
  Schedules <- AssetSchedules  MaxRows = 1  MaxSaves = 3  MaxPostingFaults = 1

  FormTabs = {"x", "y"}  Vendors = {"anthropic", "openai"}  Ollama = "ollama"
  Source = "source"  MaxAttempts = 2  MaxSettings = 2  MaxSecrets = 3  MaxWrites = 3

  Clients = {"c", "d"}  Records = {"r"}  Reports = {"q"}  MaxUploads = 2
  MaxUploadFaults = 2
SPECIFICATION WorkSpec
INVARIANTS ImportsKeepRecords ActsWhereGranted TasksFormTrees InvoicesBooked
            
  
CONSTRAINT Small
CHECK_DEADLOCK FALSE
