----------------------------- MODULE TenantWork -----------------------------
(***************************************************************************)
(* What people, commands and hooks do in a tenant: imports and, beside     *)
(* them, sign-in, authorization, the task hierarchy, the invoices with the *)
(* ledger, purchasing, depreciation, the member page, the settings with    *)
(* secrets and the attachments.  These parts share no record here, so a    *)
(* behaviour is one of a single part, and the variables of the others are  *)
(* off.                                                                    *)
(***************************************************************************)
EXTENDS ImportUpsert

CONSTANTS
  \* sign-in
  Tabs, Tenants, NoTenant, Orgs, LinkOf, MaxLogins,
  \* authorization and the member page
  Users, Roles, Admin, Departments, NoDepartment, RecordSources, NoSource,
  FirstGrants, FirstRules, FirstHides, ApproverRole, JobDepartment, MaxChanges,
  People, FirstAdmins, MaxRoleRows, MaxGrants, MaxRequests, MaxMemberFaults,
  \* tasks
  Tasks, Projects, Parties, NoTask, NoParty, Editors,
  \* invoices and the ledger
  Invoices, Periods, Span, Accounts, Codes, NoCode, SweepAlone, Dates, Totals,
  Receivable, Revenue,
  \* receipts and stock
  Lines, Orders, Places, VendorInvoices, Quantities, MaxRetries, MaxReceiptEdits,
  \* depreciation
  Assets, Pollers, Processes, Schedules, MaxRows, MaxSaves, MaxPostingFaults, Nobody,
  \* settings with secrets
  FormTabs, Vendors, Ollama, Source, MaxAttempts, MaxSettings, MaxSecrets, MaxWrites,
  \* attachments
  Clients, Records, Reports, MaxUploads, MaxUploadFaults

(* Build refuses a useful life outside 1..MaxUsefulLifeMonths, and splits  *)
(* a depreciable base that is not negative over that many periods.         *)
ASSUME AssetsAssumption == Schedules \subseteq Seq(Nat) \ {<<>>} /\ Nobody \notin Pollers

(* Receipt lines, a place and an order to receive them at, whole amounts.  *)
ASSUME PurchasingAssumption ==
  /\ IsFiniteSet(Lines) /\ Orders # {} /\ Places # {} /\ Quantities \subseteq Int
  /\ MaxRetries \in Nat /\ MaxReceiptEdits \in Nat

(* An organization is named by one tenant or by none.                      *)
ASSUME SignInAssumption ==
  LinkOf \in [Orgs -> Tenants \union {NoTenant}] /\ NoTenant \notin Tenants /\ MaxLogins \in Nat

(* Provisioning leaves some administrators, each with a row and a grant.   *)
ASSUME MembersAssumption ==
  /\ Admin \in Roles /\ FirstAdmins \subseteq People
  /\ FirstAdmins # {} /\ IsFiniteSet(FirstAdmins)
  /\ Cardinality(FirstAdmins) <= MaxRoleRows /\ Cardinality(FirstAdmins) <= MaxGrants
  /\ MaxRoleRows \in Nat /\ MaxGrants \in Nat /\ MaxRequests \in Nat /\ MaxMemberFaults \in Nat

(* "external SQL source" is no AI provider; bounds are numbers.            *)
ASSUME SettingsAssumption ==
  /\ Source \notin Vendors \union {Ollama}
  /\ MaxAttempts \in Nat /\ MaxSettings \in Nat /\ MaxSecrets \in Nat /\ MaxWrites \in Nat

(* Bounds are numbers.                                                     *)
ASSUME UploadsAssumption == MaxUploads \in Nat /\ MaxUploadFaults \in Nat

VARIABLES
  part,
  enabled, attempts, flow, session, expired, allowed, page, request, hops, acted,
  granted, rules, hides, delegation, owner, readOnly, doc, req, approved,
  adminActed, changes,
  task, employee, edit,
  journal, period, account, chart, sweep, invoice, saving,
  line, tx, stock, key, open, adjusted, vendorInvoice, receiptEdits,
  host, asset, schedule, gen, assetJournal, today, assetLedger, assetLock, pc, todo,
  cur, seen, full, moved, heal, inFlight, throttled, saves, faults,
  orgAccount, memberGrant, code, userRole, signedIn, memberReq, used, failures, overlapped,
  settings, secrets, tab, withdrawn, writes,
  configured, target, blob, attached, fileReq, keys, stranded, unclear, mishaps

signInVars == <<enabled, attempts, flow, session, expired, allowed, page, request,
                hops, acted>>
accessVars == <<granted, rules, hides, delegation, owner, readOnly, doc, req,
                approved, adminActed, changes>>
taskVars == <<task, employee, edit>>
bookVars == <<journal, period, account, chart, sweep, invoice, saving>>
purchaseVars == <<line, tx, stock, key, open, adjusted, vendorInvoice, receiptEdits>>
assetVars == <<host, asset, schedule, gen, assetJournal, today, assetLedger, assetLock,
               pc, todo, cur, seen, full, moved, heal, inFlight, throttled, saves, faults>>
memberVars == <<orgAccount, memberGrant, code, userRole, signedIn, memberReq, used, failures,
                overlapped>>
secretVars == <<settings, secrets, tab, withdrawn, writes>>
fileVars == <<configured, target, blob, attached, fileReq, keys, stranded, unclear, mishaps>>
allVars == <<part, vars, signInVars, accessVars, taskVars, bookVars, purchaseVars,
             assetVars, memberVars, secretVars, fileVars>>

Parts == {"imports", "sign-in", "access", "members", "tasks", "books", "purchasing",
          "assets", "settings", "files"}
Off == "off"

-----------------------------------------------------------------------------
SignIn == INSTANCE SignIn
Access == INSTANCE Access WITH Sources <- RecordSources
Members == INSTANCE Members WITH
  Users <- People, MaxRows <- MaxRoleRows, MaxFaults <- MaxMemberFaults,
  account <- orgAccount, grant <- memberGrant, req <- memberReq, faults <- failures
Hierarchy == INSTANCE Hierarchy
Books == INSTANCE CustomerInvoices WITH Sources <- Invoices
Purchasing == INSTANCE Purchasing WITH
  Invoices <- VendorInvoices, MaxEdits <- MaxReceiptEdits,
  invoice <- vendorInvoice, edits <- receiptEdits
Depreciation == INSTANCE DepreciationPosting WITH
  MaxFaults <- MaxPostingFaults,
  rows <- schedule, journal <- assetJournal, open <- assetLedger, lock <- assetLock
StoredSecrets == INSTANCE StoredSecrets WITH
  Tabs <- FormTabs, MaxRows <- MaxSettings, row <- settings
Attachments == INSTANCE Attachments WITH
  MaxFaults <- MaxUploadFaults, record <- target, row <- attached, req <- fileReq,
  faults <- mishaps

(* The bootstrap of the control plane is over: someone is an administrator *)
(* (before that rbacConfigured leaves it open to everyone), and no other   *)
(* role may write it.  The waiting step is one of a department.            *)
ASSUME AccessAssumption ==
  /\ FirstGrants \subseteq Access!Grant /\ FirstRules \subseteq Access!Rule
  /\ FirstHides \subseteq Roles
  /\ \E g \in FirstGrants : g.role = Admin
  /\ \A r \in FirstRules : r.type = "control" /\ r.access = "write" => r.role = Admin
  /\ JobDepartment # NoDepartment /\ MaxChanges \in Nat

SignInOff ==
  /\ enabled = Off /\ attempts = Off /\ flow = Off /\ session = Off /\ expired = Off
  /\ allowed = Off /\ page = Off /\ request = Off /\ hops = Off /\ acted = Off
AccessOff ==
  /\ granted = Off /\ rules = Off /\ hides = Off /\ delegation = Off /\ owner = Off
  /\ readOnly = Off /\ doc = Off /\ req = Off /\ approved = Off /\ adminActed = Off
  /\ changes = Off
TasksOff == task = Off /\ employee = Off /\ edit = Off
BooksOff ==
  /\ journal = Off /\ period = Off /\ account = Off /\ chart = Off /\ sweep = Off
  /\ invoice = Off /\ saving = Off
PurchasingOff ==
  /\ line = Off /\ tx = Off /\ stock = Off /\ key = Off /\ open = Off /\ adjusted = Off
  /\ vendorInvoice = Off /\ receiptEdits = Off
AssetsOff ==
  /\ host = Off /\ asset = Off /\ schedule = Off /\ gen = Off /\ assetJournal = Off
  /\ today = Off /\ assetLedger = Off /\ assetLock = Off /\ pc = Off /\ todo = Off
  /\ cur = Off /\ seen = Off /\ full = Off /\ moved = Off /\ heal = Off /\ inFlight = Off
  /\ throttled = Off /\ saves = Off /\ faults = Off
MembersOff ==
  /\ orgAccount = Off /\ memberGrant = Off /\ code = Off /\ userRole = Off /\ signedIn = Off
  /\ memberReq = Off /\ used = Off /\ failures = Off /\ overlapped = Off
SecretsOff ==
  /\ settings = Off /\ secrets = Off /\ tab = Off /\ withdrawn = Off /\ writes = Off
FilesOff ==
  /\ configured = Off /\ target = Off /\ blob = Off /\ attached = Off /\ fileReq = Off
  /\ keys = Off /\ stranded = Off /\ unclear = Off /\ mishaps = Off

WorkInit ==
  /\ part \in Parts
  /\ Init /\ (part # "imports" => legacy = CHOOSE rows \in Sources : TRUE)
  /\ IF part = "sign-in" THEN SignIn!Init ELSE SignInOff
  /\ IF part = "access" THEN Access!Init ELSE AccessOff
  /\ IF part = "members" THEN Members!Init ELSE MembersOff
  /\ IF part = "tasks" THEN Hierarchy!Init ELSE TasksOff
  /\ IF part = "books" THEN Books!Init ELSE BooksOff
  /\ IF part = "purchasing" THEN Purchasing!Init ELSE PurchasingOff
  /\ IF part = "assets" THEN Depreciation!Init ELSE AssetsOff
  /\ IF part = "settings" THEN StoredSecrets!Init ELSE SecretsOff
  /\ IF part = "files" THEN Attachments!Init ELSE FilesOff

Resting(p, v) == IF part = p THEN TRUE ELSE UNCHANGED v
OthersRest ==
  /\ UNCHANGED part
  /\ Resting("imports", vars) /\ Resting("sign-in", signInVars)
  /\ Resting("access", accessVars) /\ Resting("members", memberVars)
  /\ Resting("tasks", taskVars) /\ Resting("books", bookVars)
  /\ Resting("purchasing", purchaseVars) /\ Resting("assets", assetVars)
  /\ Resting("settings", secretVars) /\ Resting("files", fileVars)

ImportStep == part = "imports" /\ Next /\ OthersRest
SignInStep == part = "sign-in" /\ SignIn!Next /\ OthersRest
AccessStep == part = "access" /\ Access!Next /\ OthersRest
MemberStep == part = "members" /\ Members!Next /\ OthersRest
TaskStep == part = "tasks" /\ Hierarchy!Next /\ OthersRest
BookStep == part = "books" /\ Books!Next /\ OthersRest
PurchaseStep == part = "purchasing" /\ Purchasing!Next /\ OthersRest
AssetStep == part = "assets" /\ Depreciation!Next /\ OthersRest
SettingsStep == part = "settings" /\ StoredSecrets!Next /\ OthersRest
FileStep == part = "files" /\ Attachments!Next /\ OthersRest

WorkNext ==
  \/ ImportStep \/ SignInStep \/ AccessStep \/ MemberStep \/ TaskStep \/ BookStep
  \/ PurchaseStep \/ AssetStep \/ SettingsStep \/ FileStep

WorkSpec == WorkInit /\ [][WorkNext]_allVars

-----------------------------------------------------------------------------
(* A request acts in a tenant its own login found, and on the page's own;  *)
(* a page load ends, although other tabs switch the tenant and cookies are *)
(* refused.                                                                *)
ActsWhereGranted ==
  part = "sign-in" => SignIn!TypeOK /\ SignIn!ActsWhereGranted /\ SignIn!RedirectsEnd

(* No user without the control plane gets it or lends it, and a save by    *)
(* who does not see a field keeps the field.  Requests to the member page  *)
(* that come one after the other leave the tenant an administrator and     *)
(* stack no roles, and a removal tries every row it listed.                *)
AccessIsKept ==
  [][/\ part = "access" => (Access!TypeOK /\ Access!NoSelfPromotion)' /\ Access!KeepsHidden
     /\ part = "members" =>
          /\ (Members!TypeOK /\ Members!AdminStays /\ Members!RolesNotStacked)'
          /\ Members!RemovalGoesOn]_allVars

(* crud.Update under its lock: no task becomes its own ancestor, and what  *)
(* the pickers offer the save accepts.                                     *)
TasksFormTrees ==
  part = "tasks" => Hierarchy!TypeOK /\ Hierarchy!NoCycle /\ Hierarchy!PickerAgrees

(* An issued invoice is in the ledger, once, and the chart of accounts     *)
(* agrees with the accounts.                                               *)
InvoicesBooked ==
  part = "books" => Books!TypeOK /\ Books!InvoicesBooked /\ Books!ChartAgrees

(* Receipts at the same time leave one stock row per place with all that   *)
(* was received, and a matched invoice has no exception.                   *)
ReceiptsCount ==
  part = "purchasing" => Purchasing!TypeOK /\ Purchasing!StockCounts /\ Purchasing!MatchedIsClean

(* PostDueDepreciation: a period is booked once and counted once, two      *)
(* batches of a process never overlap, a posted row stands, and an asset   *)
(* that is fully depreciated has its whole schedule posted.                *)
DepreciationCounts ==
  [][part = "assets" =>
       /\ (Depreciation!TypeOK /\ Depreciation!BookedOnce /\ Depreciation!CounterCounts)'
       /\ Depreciation!OneBatchPerProcess'
       /\ Depreciation!Stands /\ Depreciation!EndsPosted]_allVars

(* A stored secret goes to the vendor it was entered for and never comes   *)
(* back; the one connection is found in as many attempts as it has.  A row *)
(* of a file has its bytes, bytes without a row are explained by a fault,  *)
(* and a report says when its recording is missing.                        *)
StoredDataIsKept ==
  /\ part = "settings" =>
       /\ StoredSecrets!TypeOK /\ StoredSecrets!SecretsStayWithTheirVendor
       /\ StoredSecrets!GivesUpUnderContention
  /\ part = "files" =>
       /\ Attachments!TypeOK /\ Attachments!RowsHaveBytes
       /\ Attachments!OrphansAreExplained /\ Attachments!NoSilentLoss
=============================================================================
