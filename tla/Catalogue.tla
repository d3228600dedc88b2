------------------------------ MODULE Catalogue ------------------------------
(* The entity types and forms that the foundation layer and the seven      *)
(* built-in modules publish (internal/kernel/<module>/<module>.go and      *)
(* forms.go).  Of a field the catalogue keeps whether it must be given,    *)
(* what it refers to and what its validity depends on; its type, label and *)
(* bounds are left out.  An entity is                                      *)
(*   needed    required fields without a default                           *)
(*   filled    required fields that ApplyDefaults fills                    *)
(*   optional  the references, dates and unique fields among the others    *)
(*   target    reference field -> entity type                              *)
(*   role      reference field -> the role_type its target must have       *)
(*   match     reference field -> the field in which its target agrees     *)
(*   notBefore date field -> the date field it may not precede             *)
(*   unique    sets of fields under a unique constraint, conditional or not *)
(*   status    StatusTypeCode, or ""                                       *)
(*   label     LabelField, or ""                                           *)
(*   lists     <<type, field>>: compositions and related lists             *)
EXTENDS Integers, Sequences, FiniteSets, Functions

Entity(needed, filled, optional) ==
  [needed |-> needed, filled |-> filled, optional |-> optional,
   target |-> <<>>, role |-> <<>>, match |-> <<>>, notBefore |-> <<>>,
   unique |-> {}, status |-> "", label |-> "", lists |-> {}]
Fields(d) == d.needed \union d.filled \union d.optional

(* A form shows the fields of its entity but some, and lists of others.    *)
Form(d, but, lists) == [fields |-> Fields(d) \ but, lists |-> lists]
AllOf(d) == Form(d, {}, {})

(* The statuses of a graph in the order of their sequence, and its         *)
(* transitions; names and translations are left out.                       *)
Specs(initial, between, terminal) ==
  [order |-> initial \o between \o terminal,
   initial |-> Range(initial), terminal |-> Range(terminal)]
Graph(specs, edges) == [specs |-> specs, edges |-> edges]

------------------------------------------------------------------------------
(* internal/kernel/foundation                                              *)

Party ==
  Entity({"party_type", "name"}, {}, {})

PartyRole ==
  [Entity({"party_id", "role_type"}, {}, {})
   EXCEPT !.target = [party_id |-> "Party"],
          !.unique = {{"role_type"}}]

PartyRelationship ==
  [Entity({"party_id_from", "party_id_to", "relationship_type"}, {}, {})
   EXCEPT !.target = [party_id_from |-> "Party", party_id_to |-> "Party"]]

Address ==
  [Entity({"party_id", "address_type", "line1", "city", "country_code"}, {},
          {})
   EXCEPT !.target = [party_id |-> "Party"]]

ContactMechanism ==
  [Entity({"party_id", "mechanism_type", "value"}, {}, {})
   EXCEPT !.target = [party_id |-> "Party"]]

Attachment ==
  Entity({"entity_type", "record_id", "file_name", "mime_type", "size_bytes",
         "storage_path"}, {}, {})

UnitOfMeasure ==
  Entity({"code", "name"}, {}, {})

UomConversion ==
  [Entity({"from_uom_id", "to_uom_id", "factor"}, {}, {})
   EXCEPT !.target = [from_uom_id |-> "UnitOfMeasure",
                 to_uom_id |-> "UnitOfMeasure"]]

Currency ==
  [Entity({"code", "name"}, {}, {"is_base"})
   EXCEPT !.unique = {{"code"}, {"is_base"}}]

ExchangeRate ==
  [Entity({"from_currency_id", "to_currency_id", "effective_date", "rate"},
          {}, {})
   EXCEPT !.target = [from_currency_id |-> "Currency",
                 to_currency_id |-> "Currency"]]

StatusType ==
  Entity({"entity_type", "code", "name"}, {}, {})

Status ==
  [Entity({"status_type_id", "code", "name"}, {}, {})
   EXCEPT !.target = [status_type_id |-> "StatusType"]]

StatusTransition ==
  [Entity({"status_type_id", "from_status_id", "to_status_id"}, {}, {})
   EXCEPT !.target = [status_type_id |-> "StatusType",
                 from_status_id |-> "Status", to_status_id |-> "Status"],
          !.match = [from_status_id |-> "status_type_id",
                 to_status_id |-> "status_type_id"]]

IssueReport ==
  Entity({"title", "description"}, {"status"}, {})

AIProviderConnection ==
  [Entity({"provider", "singleton_key"}, {}, {})
   EXCEPT !.unique = {{"singleton_key"}}]

ExternalSQLSource ==
  Entity({"name", "driver", "host", "database"}, {}, {})

ExternalIdentity ==
  [Entity({"source_id", "source_relation", "entity_type", "record_id",
          "external_key"}, {}, {})
   EXCEPT !.target = [source_id |-> "ExternalSQLSource"],
          !.unique = {{"source_id", "source_relation", "entity_type",
                 "external_key"}}]

SystemOfRecord ==
  [Entity({"entity_type", "mode"}, {}, {"source_id"})
   EXCEPT !.target = [source_id |-> "ExternalSQLSource"],
          !.unique = {{"entity_type", "source_id"}}]

Role ==
  Entity({"code", "name"}, {}, {})

UserRole ==
  [Entity({"user_id", "role_id"}, {}, {"department_id"})
   EXCEPT !.target = [role_id |-> "Role", department_id |-> "Department"]]

Permission ==
  [Entity({"role_id", "entity_type"}, {}, {})
   EXCEPT !.target = [role_id |-> "Role"]]

FieldPermission ==
  [Entity({"role_id", "entity_type", "field_name"}, {}, {})
   EXCEPT !.target = [role_id |-> "Role"]]

Department ==
  [Entity({"code", "name"}, {}, {"parent_department_id"})
   EXCEPT !.target = [parent_department_id |-> "Department"]]

Position ==
  [Entity({"title"}, {}, {"department_id", "reports_to_position_id"})
   EXCEPT !.target = [department_id |-> "Department",
                 reports_to_position_id |-> "Position"]]

Delegation ==
  Entity({"delegator_user_id", "delegate_user_id"}, {}, {})

PartyForm == AllOf(Party)
IssueReportForm == AllOf(IssueReport)
SystemOfRecordForm == AllOf(SystemOfRecord)
DepartmentForm == AllOf(Department)
PositionForm == AllOf(Position)
DelegationForm == AllOf(Delegation)
PermissionForm == AllOf(Permission)
FieldPermissionForm == AllOf(FieldPermission)
RoleForm == AllOf(Role)
UserRoleForm == Form(UserRole, {"department_id"}, {})
PartyRoleForm == AllOf(PartyRole)
PartyRelationshipForm == AllOf(PartyRelationship)
AddressForm == AllOf(Address)
ContactMechanismForm == AllOf(ContactMechanism)
AttachmentForm == AllOf(Attachment)
UnitOfMeasureForm == AllOf(UnitOfMeasure)
UomConversionForm == AllOf(UomConversion)
CurrencyForm == AllOf(Currency)
ExchangeRateForm == AllOf(ExchangeRate)
StatusTypeForm == AllOf(StatusType)
StatusForm == AllOf(Status)
StatusTransitionForm == AllOf(StatusTransition)

FoundationTypes ==
  [Party |-> Party, PartyRole |-> PartyRole,
   PartyRelationship |-> PartyRelationship, Address |-> Address,
   ContactMechanism |-> ContactMechanism, Attachment |-> Attachment,
   UnitOfMeasure |-> UnitOfMeasure, UomConversion |-> UomConversion,
   Currency |-> Currency, ExchangeRate |-> ExchangeRate,
   StatusType |-> StatusType, Status |-> Status,
   StatusTransition |-> StatusTransition, IssueReport |-> IssueReport,
   AIProviderConnection |-> AIProviderConnection,
   ExternalSQLSource |-> ExternalSQLSource,
   ExternalIdentity |-> ExternalIdentity, SystemOfRecord |-> SystemOfRecord,
   Role |-> Role, UserRole |-> UserRole, Permission |-> Permission,
   FieldPermission |-> FieldPermission, Department |-> Department,
   Position |-> Position, Delegation |-> Delegation]
FoundationForms ==
  [Party |-> PartyForm, IssueReport |-> IssueReportForm,
   SystemOfRecord |-> SystemOfRecordForm, Department |-> DepartmentForm,
   Position |-> PositionForm, Delegation |-> DelegationForm,
   Permission |-> PermissionForm, FieldPermission |-> FieldPermissionForm,
   Role |-> RoleForm, UserRole |-> UserRoleForm, PartyRole |-> PartyRoleForm,
   PartyRelationship |-> PartyRelationshipForm, Address |-> AddressForm,
   ContactMechanism |-> ContactMechanismForm, Attachment |-> AttachmentForm,
   UnitOfMeasure |-> UnitOfMeasureForm, UomConversion |-> UomConversionForm,
   Currency |-> CurrencyForm, ExchangeRate |-> ExchangeRateForm,
   StatusType |-> StatusTypeForm, Status |-> StatusForm,
   StatusTransition |-> StatusTransitionForm]

------------------------------------------------------------------------------
(* internal/kernel/purchasing                                              *)

Item ==
  [Entity({"sku", "name"}, {"item_type"}, {"base_uom_id"})
   EXCEPT !.target = [base_uom_id |-> "UnitOfMeasure"],
          !.unique = {{"sku"}}]

PurchaseOrder ==
  [Entity({"po_number", "vendor_id", "order_date", "status_id"}, {},
          {"promised_delivery_date", "currency_id", "sourced_at",
          "production_start_at", "production_ready_at", "shipped_at",
          "customs_cleared_at", "received_at"})
   EXCEPT !.target = [vendor_id |-> "Party", currency_id |-> "Currency",
                 status_id |-> "Status"],
          !.role = [vendor_id |-> "vendor"],
          !.notBefore = [promised_delivery_date |-> "order_date",
                 sourced_at |-> "order_date",
                 production_start_at |-> "sourced_at",
                 production_ready_at |-> "production_start_at",
                 shipped_at |-> "production_ready_at",
                 customs_cleared_at |-> "shipped_at",
                 received_at |-> "customs_cleared_at"],
          !.unique = {{"po_number"}},
          !.status = "purchase_order_status",
          !.lists = {<<"POLine", "purchase_order_id">>}]

POLine ==
  [Entity({"purchase_order_id", "item_id", "qty", "unit_price"}, {}, {})
   EXCEPT !.target = [purchase_order_id |-> "PurchaseOrder",
                 item_id |-> "Item"]]

Facility ==
  [Entity({"code", "name"}, {"facility_type"}, {"address_id"})
   EXCEPT !.target = [address_id |-> "Address"]]

InventoryItem ==
  [Entity({"item_id", "facility_id"}, {"qty_on_hand",
          "qty_available_to_promise"}, {})
   EXCEPT !.target = [item_id |-> "Item", facility_id |-> "Facility"],
          !.unique = {{"item_id", "facility_id"}}]

StockTransfer ==
  [Entity({"item_id", "from_facility_id", "to_facility_id", "qty",
          "transfer_date", "status_id"}, {}, {})
   EXCEPT !.target = [item_id |-> "Item", from_facility_id |-> "Facility",
                 to_facility_id |-> "Facility", status_id |-> "Status"],
          !.status = "stock_transfer_status",
          !.label = "transfer_date"]

GoodsReceipt ==
  [Entity({"purchase_order_id", "received_date", "facility_id"}, {}, {})
   EXCEPT !.target = [purchase_order_id |-> "PurchaseOrder",
                 facility_id |-> "Facility"],
          !.lists = {<<"GoodsReceiptLine", "goods_receipt_id">>}]

GoodsReceiptLine ==
  [Entity({"goods_receipt_id", "po_line_id", "item_id", "qty_received"}, {},
          {})
   EXCEPT !.target = [goods_receipt_id |-> "GoodsReceipt",
                 po_line_id |-> "POLine", item_id |-> "Item"]]

VendorInvoice ==
  [Entity({"invoice_number", "purchase_order_id", "vendor_id", "invoice_date",
          "status_id"}, {}, {"currency_id"})
   EXCEPT !.target = [purchase_order_id |-> "PurchaseOrder",
                 vendor_id |-> "Party", currency_id |-> "Currency",
                 status_id |-> "Status"],
          !.status = "vendor_invoice_status"]

ReorderRule ==
  [Entity({"item_id", "reorder_point"}, {"target_lead_time_confidence"}, {})
   EXCEPT !.target = [item_id |-> "Item"]]

RequestForQuotation ==
  [Entity({"rfq_number", "due_date", "status_id"}, {}, {})
   EXCEPT !.target = [status_id |-> "Status"],
          !.status = "rfq_status",
          !.lists = {<<"RequestForQuotationLine",
                 "request_for_quotation_id">>, <<"RequestForQuotationVendor",
                 "request_for_quotation_id">>}]

RequestForQuotationLine ==
  [Entity({"request_for_quotation_id", "item_id", "qty"}, {}, {})
   EXCEPT !.target = [request_for_quotation_id |-> "RequestForQuotation",
                 item_id |-> "Item"]]

RequestForQuotationVendor ==
  [Entity({"request_for_quotation_id", "vendor_id"}, {}, {})
   EXCEPT !.target = [request_for_quotation_id |-> "RequestForQuotation",
                 vendor_id |-> "Party"]]

RequestForQuotationQuoteLine ==
  [Entity({"rfq_line_id", "vendor_id", "unit_price"}, {}, {})
   EXCEPT !.target = [rfq_line_id |-> "RequestForQuotationLine",
                 vendor_id |-> "Party"]]

ItemForm == AllOf(Item)
PurchaseOrderForm == Form(PurchaseOrder, {}, {"POLine"})
POLineForm == AllOf(POLine)
RequestForQuotationForm == 
  Form(RequestForQuotation, {},
       {"RequestForQuotationVendor", "RequestForQuotationLine"})
RequestForQuotationLineForm == AllOf(RequestForQuotationLine)
RequestForQuotationVendorForm == AllOf(RequestForQuotationVendor)
RequestForQuotationQuoteLineForm == AllOf(RequestForQuotationQuoteLine)
ReorderRuleForm == AllOf(ReorderRule)
VendorInvoiceForm == AllOf(VendorInvoice)
StockTransferForm == AllOf(StockTransfer)
GoodsReceiptForm == Form(GoodsReceipt, {}, {"GoodsReceiptLine"})
GoodsReceiptLineForm == AllOf(GoodsReceiptLine)
FacilityForm == AllOf(Facility)
InventoryItemForm == AllOf(InventoryItem)

PurchasingTypes ==
  [Item |-> Item, PurchaseOrder |-> PurchaseOrder, POLine |-> POLine,
   Facility |-> Facility, InventoryItem |-> InventoryItem,
   StockTransfer |-> StockTransfer, GoodsReceipt |-> GoodsReceipt,
   GoodsReceiptLine |-> GoodsReceiptLine, VendorInvoice |-> VendorInvoice,
   ReorderRule |-> ReorderRule, RequestForQuotation |-> RequestForQuotation,
   RequestForQuotationLine |-> RequestForQuotationLine,
   RequestForQuotationVendor |-> RequestForQuotationVendor,
   RequestForQuotationQuoteLine |-> RequestForQuotationQuoteLine]
PurchasingForms ==
  [Item |-> ItemForm, PurchaseOrder |-> PurchaseOrderForm,
   POLine |-> POLineForm, RequestForQuotation |-> RequestForQuotationForm,
   RequestForQuotationLine |-> RequestForQuotationLineForm,
   RequestForQuotationVendor |-> RequestForQuotationVendorForm,
   RequestForQuotationQuoteLine |-> RequestForQuotationQuoteLineForm,
   ReorderRule |-> ReorderRuleForm, VendorInvoice |-> VendorInvoiceForm,
   StockTransfer |-> StockTransferForm, GoodsReceipt |-> GoodsReceiptForm,
   GoodsReceiptLine |-> GoodsReceiptLineForm, Facility |-> FacilityForm,
   InventoryItem |-> InventoryItemForm]

purchaseOrderStatusSpecs ==
  Specs(<<"draft">>, <<"submitted", "approved">>, <<"received", "cancelled">>)
vendorInvoiceStatusSpecs ==
  Specs(<<"draft">>, <<"matched", "match_exception">>, <<"paid", "void">>)
stockTransferStatusSpecs ==
  Specs(<<"draft">>, <<"in_transit">>, <<"received", "cancelled">>)
rfqStatusSpecs ==
  Specs(<<"draft">>, <<"sent", "quotes_received">>, <<"closed", "cancelled">>)
PurchasingStatuses ==
  [purchase_order_status |-> Graph(purchaseOrderStatusSpecs,
     <<<<"draft", "submitted">>, <<"submitted", "approved">>,
       <<"approved", "received">>, <<"draft", "cancelled">>,
       <<"submitted", "cancelled">>, <<"approved", "cancelled">>>>),
   vendor_invoice_status |-> Graph(vendorInvoiceStatusSpecs,
     <<<<"draft", "matched">>, <<"matched", "paid">>, <<"draft", "void">>,
       <<"matched", "void">>, <<"draft", "match_exception">>,
       <<"matched", "match_exception">>, <<"match_exception", "matched">>,
       <<"match_exception", "void">>>>),
   stock_transfer_status |-> Graph(stockTransferStatusSpecs,
     <<<<"draft", "in_transit">>, <<"in_transit", "received">>,
       <<"draft", "cancelled">>, <<"in_transit", "cancelled">>>>),
   rfq_status |-> Graph(rfqStatusSpecs,
     <<<<"draft", "sent">>, <<"sent", "quotes_received">>,
       <<"quotes_received", "closed">>, <<"draft", "cancelled">>,
       <<"sent", "cancelled">>, <<"quotes_received", "cancelled">>>>)]

------------------------------------------------------------------------------
(* internal/kernel/sales                                                   *)

SalesOrder ==
  [Entity({"so_number", "customer_id", "order_date", "status_id"}, {},
          {"currency_id"})
   EXCEPT !.target = [customer_id |-> "Party", currency_id |-> "Currency",
                 status_id |-> "Status"],
          !.role = [customer_id |-> "customer"],
          !.status = "sales_order_status",
          !.lists = {<<"SOLine", "sales_order_id">>}]

SOLine ==
  [Entity({"sales_order_id", "item_id", "qty", "unit_price"}, {}, {})
   EXCEPT !.target = [sales_order_id |-> "SalesOrder", item_id |-> "Item"]]

CustomerInvoice ==
  [Entity({"invoice_number", "sales_order_id", "customer_id", "invoice_date",
          "status_id"}, {}, {"currency_id"})
   EXCEPT !.target = [sales_order_id |-> "SalesOrder",
                 customer_id |-> "Party", currency_id |-> "Currency",
                 status_id |-> "Status"],
          !.status = "customer_invoice_status"]

SalesOrderForm == Form(SalesOrder, {}, {"SOLine"})
SOLineForm == AllOf(SOLine)
CustomerInvoiceForm == AllOf(CustomerInvoice)

SalesTypes ==
  [SalesOrder |-> SalesOrder, SOLine |-> SOLine,
   CustomerInvoice |-> CustomerInvoice]
SalesForms ==
  [SalesOrder |-> SalesOrderForm, SOLine |-> SOLineForm,
   CustomerInvoice |-> CustomerInvoiceForm]

salesOrderStatusSpecs ==
  Specs(<<"draft">>, <<"confirmed", "fulfilled">>, <<"invoiced",
        "cancelled">>)
customerInvoiceStatusSpecs ==
  Specs(<<"draft">>, <<"issued">>, <<"paid", "void">>)
SalesStatuses ==
  [sales_order_status |-> Graph(salesOrderStatusSpecs,
     <<<<"draft", "confirmed">>, <<"confirmed", "fulfilled">>,
       <<"fulfilled", "invoiced">>, <<"draft", "cancelled">>,
       <<"confirmed", "cancelled">>>>),
   customer_invoice_status |-> Graph(customerInvoiceStatusSpecs,
     <<<<"draft", "issued">>, <<"issued", "paid">>, <<"draft", "void">>,
       <<"issued", "void">>>>)]

------------------------------------------------------------------------------
(* internal/kernel/finance                                                 *)

Account ==
  [Entity({"code", "name", "type"}, {}, {"parent_account_id", "currency_id"})
   EXCEPT !.target = [parent_account_id |-> "Account",
                 currency_id |-> "Currency"],
          !.unique = {{"code"}}]

FiscalYear ==
  Entity({"name", "start_date", "end_date"}, {"status"}, {})

Period ==
  [Entity({"fiscal_year_id", "name", "start_date", "end_date"}, {"status"},
          {})
   EXCEPT !.target = [fiscal_year_id |-> "FiscalYear"]]

TaxCode ==
  Entity({"code", "name", "rate", "tax_type"}, {}, {})

CostCenter ==
  Entity({"code", "name"}, {}, {})

AccountForm == AllOf(Account)
FiscalYearForm == AllOf(FiscalYear)
PeriodForm == AllOf(Period)
TaxCodeForm == AllOf(TaxCode)
CostCenterForm == AllOf(CostCenter)

FinanceTypes ==
  [Account |-> Account, FiscalYear |-> FiscalYear, Period |-> Period,
   TaxCode |-> TaxCode, CostCenter |-> CostCenter]
FinanceForms ==
  [Account |-> AccountForm, FiscalYear |-> FiscalYearForm,
   Period |-> PeriodForm, TaxCode |-> TaxCodeForm,
   CostCenter |-> CostCenterForm]

------------------------------------------------------------------------------
(* internal/kernel/assets                                                  *)

FixedAsset ==
  [Entity({"asset_number", "name", "acquisition_date", "cost",
          "useful_life_months", "status_id"}, {"depreciation_method"},
          {"currency_id", "asset_account_id",
          "depreciation_expense_account_id",
          "accumulated_depreciation_account_id"})
   EXCEPT !.target = [currency_id |-> "Currency",
                 asset_account_id |-> "Account",
                 depreciation_expense_account_id |-> "Account",
                 accumulated_depreciation_account_id |-> "Account",
                 status_id |-> "Status"],
          !.status = "fixed_asset_status",
          !.lists = {<<"DepreciationSchedule", "fixed_asset_id">>,
                 <<"MaintenanceOrder", "asset_id">>}]

DepreciationSchedule ==
  [Entity({"fixed_asset_id", "sequence", "period_end", "depreciation_amount",
          "book_value"}, {}, {})
   EXCEPT !.target = [fixed_asset_id |-> "FixedAsset"]]

MaintenanceOrder ==
  [Entity({"order_number", "asset_id", "scheduled_date", "status_id"},
          {"maintenance_type"}, {"vendor_id", "currency_id"})
   EXCEPT !.target = [asset_id |-> "FixedAsset", vendor_id |-> "Party",
                 currency_id |-> "Currency", status_id |-> "Status"],
          !.status = "maintenance_order_status"]

FixedAssetForm == 
  Form(FixedAsset, {}, {"DepreciationSchedule", "MaintenanceOrder"})
DepreciationScheduleForm == AllOf(DepreciationSchedule)
MaintenanceOrderForm == AllOf(MaintenanceOrder)

AssetsTypes ==
  [FixedAsset |-> FixedAsset, DepreciationSchedule |-> DepreciationSchedule,
   MaintenanceOrder |-> MaintenanceOrder]
AssetsForms ==
  [FixedAsset |-> FixedAssetForm,
   DepreciationSchedule |-> DepreciationScheduleForm,
   MaintenanceOrder |-> MaintenanceOrderForm]

fixedAssetStatusSpecs ==
  Specs(<<"draft">>, <<"in_service", "fully_depreciated">>, <<"disposed",
        "written_off">>)
maintenanceOrderStatusSpecs ==
  Specs(<<"scheduled">>, <<"in_progress">>, <<"completed", "cancelled">>)
AssetsStatuses ==
  [fixed_asset_status |-> Graph(fixedAssetStatusSpecs,
     <<<<"draft", "in_service">>, <<"in_service", "fully_depreciated">>,
       <<"draft", "disposed">>, <<"in_service", "disposed">>,
       <<"fully_depreciated", "disposed">>, <<"draft", "written_off">>,
       <<"in_service", "written_off">>,
       <<"fully_depreciated", "written_off">>>>),
   maintenance_order_status |-> Graph(maintenanceOrderStatusSpecs,
     <<<<"scheduled", "in_progress">>, <<"in_progress", "completed">>,
       <<"scheduled", "cancelled">>, <<"in_progress", "cancelled">>>>)]

------------------------------------------------------------------------------
(* internal/kernel/projects                                                *)

Project ==
  [Entity({"project_code", "name", "start_date", "status_id"}, {},
          {"customer_id", "end_date", "currency_id"})
   EXCEPT !.target = [customer_id |-> "Party", currency_id |-> "Currency",
                 status_id |-> "Status"],
          !.notBefore = [end_date |-> "start_date"],
          !.status = "project_status",
          !.lists = {<<"Task", "project_id">>, <<"ProjectBudgetLine",
                 "project_id">>}]

Task ==
  [Entity({"project_id", "title", "status_id"}, {}, {"parent_task_id",
          "assignee_id"})
   EXCEPT !.target = [project_id |-> "Project", parent_task_id |-> "Task",
                 assignee_id |-> "Party", status_id |-> "Status"],
          !.role = [assignee_id |-> "employee"],
          !.match = [parent_task_id |-> "project_id"],
          !.status = "task_status",
          !.lists = {<<"TimeEntry", "task_id">>}]

TimeEntry ==
  [Entity({"task_id", "employee_id", "entry_date", "hours"}, {}, {})
   EXCEPT !.target = [task_id |-> "Task", employee_id |-> "Party"],
          !.role = [employee_id |-> "employee"]]

ProjectBudgetLine ==
  [Entity({"project_id"}, {"category", "planned_amount"}, {})
   EXCEPT !.target = [project_id |-> "Project"]]

ProjectForm == Form(Project, {}, {"Task", "ProjectBudgetLine"})
TaskForm == Form(Task, {}, {"TimeEntry"})
TimeEntryForm == AllOf(TimeEntry)
ProjectBudgetLineForm == AllOf(ProjectBudgetLine)

ProjectsTypes ==
  [Project |-> Project, Task |-> Task, TimeEntry |-> TimeEntry,
   ProjectBudgetLine |-> ProjectBudgetLine]
ProjectsForms ==
  [Project |-> ProjectForm, Task |-> TaskForm, TimeEntry |-> TimeEntryForm,
   ProjectBudgetLine |-> ProjectBudgetLineForm]

projectStatusSpecs ==
  Specs(<<"planned">>, <<"active", "on_hold">>, <<"completed", "cancelled">>)
taskStatusSpecs ==
  Specs(<<"todo">>, <<"in_progress", "blocked">>, <<"done", "cancelled">>)
ProjectsStatuses ==
  [project_status |-> Graph(projectStatusSpecs,
     <<<<"planned", "active">>, <<"active", "on_hold">>,
       <<"on_hold", "active">>, <<"active", "completed">>,
       <<"planned", "cancelled">>, <<"active", "cancelled">>,
       <<"on_hold", "cancelled">>>>),
   task_status |-> Graph(taskStatusSpecs,
     <<<<"todo", "in_progress">>, <<"todo", "blocked">>,
       <<"blocked", "todo">>, <<"in_progress", "blocked">>,
       <<"blocked", "in_progress">>, <<"in_progress", "done">>,
       <<"done", "in_progress">>, <<"todo", "cancelled">>,
       <<"in_progress", "cancelled">>, <<"blocked", "cancelled">>>>)]

------------------------------------------------------------------------------
(* internal/kernel/hr                                                      *)

Employee ==
  [Entity({"employee_number", "party_id", "hire_date", "status_id"}, {},
          {"position_id", "department_id", "end_date"})
   EXCEPT !.target = [party_id |-> "Party", position_id |-> "Position",
                 department_id |-> "Department", status_id |-> "Status"],
          !.notBefore = [end_date |-> "hire_date"],
          !.status = "employee_status",
          !.label = "employee_number",
          !.lists = {<<"LeaveRequest", "employee_id">>}]

LeaveRequest ==
  [Entity({"request_number", "employee_id", "start_date", "end_date", "days",
          "status_id"}, {"leave_type"}, {})
   EXCEPT !.target = [employee_id |-> "Employee", status_id |-> "Status"],
          !.notBefore = [end_date |-> "start_date"],
          !.status = "leave_request_status"]

AttendanceRecord ==
  [Entity({"employee_id", "entry_date", "hours_worked"}, {"source"}, {})
   EXCEPT !.target = [employee_id |-> "Employee"],
          !.unique = {{"employee_id", "entry_date"}},
          !.label = "entry_date"]

EmployeeForm == Form(Employee, {}, {"LeaveRequest"})
LeaveRequestForm == AllOf(LeaveRequest)
AttendanceRecordForm == AllOf(AttendanceRecord)

HrTypes ==
  [Employee |-> Employee, LeaveRequest |-> LeaveRequest,
   AttendanceRecord |-> AttendanceRecord]
HrForms ==
  [Employee |-> EmployeeForm, LeaveRequest |-> LeaveRequestForm,
   AttendanceRecord |-> AttendanceRecordForm]

employeeStatusSpecs ==
  Specs(<<"probation">>, <<"active", "on_leave">>, <<"terminated">>)
leaveRequestStatusSpecs ==
  Specs(<<"draft">>, <<"submitted">>, <<"approved", "rejected", "cancelled">>)
HrStatuses ==
  [employee_status |-> Graph(employeeStatusSpecs,
     <<<<"probation", "active">>, <<"active", "on_leave">>,
       <<"on_leave", "active">>, <<"probation", "terminated">>,
       <<"active", "terminated">>, <<"on_leave", "terminated">>>>),
   leave_request_status |-> Graph(leaveRequestStatusSpecs,
     <<<<"draft", "submitted">>, <<"submitted", "approved">>,
       <<"submitted", "rejected">>, <<"draft", "cancelled">>,
       <<"submitted", "cancelled">>, <<"approved", "cancelled">>>>)]

------------------------------------------------------------------------------
(* internal/kernel/crm                                                     *)

Case ==
  [Entity({"case_number", "subject", "customer_id", "opened_date",
          "status_id"}, {"priority"}, {"item_id", "sales_order_id",
          "sla_due_at", "assignee_id"})
   EXCEPT !.target = [customer_id |-> "Party", item_id |-> "Item",
                 sales_order_id |-> "SalesOrder", assignee_id |-> "Party",
                 status_id |-> "Status"],
          !.notBefore = [sla_due_at |-> "opened_date"],
          !.status = "case_status",
          !.label = "case_number"]

Campaign ==
  [Entity({"name", "channel", "start_date", "status_id"}, {}, {"currency_id",
          "end_date"})
   EXCEPT !.target = [currency_id |-> "Currency", status_id |-> "Status"],
          !.notBefore = [end_date |-> "start_date"],
          !.status = "campaign_status",
          !.lists = {<<"Lead", "campaign_id">>}]

Lead ==
  [Entity({"name", "status_id"}, {"source"}, {"campaign_id", "owner_id",
          "converted_party_id"})
   EXCEPT !.target = [campaign_id |-> "Campaign", owner_id |-> "Party",
                 converted_party_id |-> "Party", status_id |-> "Status"],
          !.status = "lead_status"]

Opportunity ==
  [Entity({"name", "customer_id", "expected_close_date", "status_id"}, {},
          {"lead_id", "currency_id", "owner_id"})
   EXCEPT !.target = [customer_id |-> "Party", lead_id |-> "Lead",
                 currency_id |-> "Currency", owner_id |-> "Party",
                 status_id |-> "Status"],
          !.status = "opportunity_stage"]

CaseForm == AllOf(Case)
CampaignForm == Form(Campaign, {}, {"Lead"})
LeadForm == AllOf(Lead)
OpportunityForm == AllOf(Opportunity)

CrmTypes ==
  [Case |-> Case, Campaign |-> Campaign, Lead |-> Lead,
   Opportunity |-> Opportunity]
CrmForms ==
  [Case |-> CaseForm, Campaign |-> CampaignForm, Lead |-> LeadForm,
   Opportunity |-> OpportunityForm]

caseStatusSpecs ==
  Specs(<<"new">>, <<"in_progress", "waiting_customer", "resolved">>,
        <<"closed", "cancelled">>)
leadStatusSpecs ==
  Specs(<<"new">>, <<"contacted", "qualified">>, <<"converted",
        "disqualified">>)
opportunityStatusSpecs ==
  Specs(<<"prospecting">>, <<"qualification", "proposal", "negotiation">>,
        <<"won", "lost">>)
campaignStatusSpecs ==
  Specs(<<"planned">>, <<"active">>, <<"completed", "cancelled">>)
CrmStatuses ==
  [case_status |-> Graph(caseStatusSpecs,
     <<<<"new", "in_progress">>, <<"in_progress", "waiting_customer">>,
       <<"waiting_customer", "in_progress">>, <<"in_progress", "resolved">>,
       <<"resolved", "in_progress">>, <<"resolved", "closed">>,
       <<"new", "cancelled">>, <<"in_progress", "cancelled">>,
       <<"waiting_customer", "cancelled">>, <<"resolved", "cancelled">>>>),
   lead_status |-> Graph(leadStatusSpecs,
     <<<<"new", "contacted">>, <<"contacted", "qualified">>,
       <<"qualified", "converted">>, <<"new", "disqualified">>,
       <<"contacted", "disqualified">>, <<"qualified", "disqualified">>>>),
   opportunity_stage |-> Graph(opportunityStatusSpecs,
     <<<<"prospecting", "qualification">>, <<"qualification", "proposal">>,
       <<"proposal", "negotiation">>, <<"negotiation", "won">>,
       <<"proposal", "won">>, <<"negotiation", "proposal">>,
       <<"proposal", "qualification">>, <<"prospecting", "lost">>,
       <<"qualification", "lost">>, <<"proposal", "lost">>,
       <<"negotiation", "lost">>>>),
   campaign_status |-> Graph(campaignStatusSpecs,
     <<<<"planned", "active">>, <<"active", "completed">>,
       <<"planned", "cancelled">>, <<"active", "cancelled">>>>)]

------------------------------------------------------------------------------
(* internal/modules: what each module publishes.                           *)
ModuleTypes ==
  [foundation |-> FoundationTypes, purchasing |-> PurchasingTypes,
   sales |-> SalesTypes, finance |-> FinanceTypes, assets |-> AssetsTypes,
   projects |-> ProjectsTypes, hr |-> HrTypes, crm |-> CrmTypes]
ModuleForms ==
  [foundation |-> FoundationForms, purchasing |-> PurchasingForms,
   sales |-> SalesForms, finance |-> FinanceForms, assets |-> AssetsForms,
   projects |-> ProjectsForms, hr |-> HrForms, crm |-> CrmForms]
ModuleStatuses ==
  [foundation |-> <<>>, purchasing |-> PurchasingStatuses,
   sales |-> SalesStatuses, finance |-> <<>>, assets |-> AssetsStatuses,
   projects |-> ProjectsStatuses, hr |-> HrStatuses, crm |-> CrmStatuses]
TypesOf(m) == DOMAIN ModuleTypes[m]

(* Definition.Validate of an entity: what it names are its own fields,     *)
(* dates have no order among themselves that is a cycle, and a status      *)
(* field is a required reference.                                          *)
ValidEntity(d) ==
  /\ DOMAIN d.target \union DOMAIN d.role \union DOMAIN d.match
       \union DOMAIN d.notBefore \subseteq Fields(d)
  /\ Range(d.match) \union Range(d.notBefore) \subseteq Fields(d)
  /\ DOMAIN d.role \union DOMAIN d.match \subseteq DOMAIN d.target
  /\ \A dates \in SUBSET DOMAIN d.notBefore :
        dates # {} => \E f \in dates : d.notBefore[f] \notin dates
  /\ \A key \in d.unique : key # {} /\ key \subseteq Fields(d)
  /\ d.label # "" => d.label \in Fields(d)
  /\ d.status # "" => /\ "status_id" \in d.needed \union d.filled
                     /\ d.target["status_id"] = "Status"
(* Definition.Validate of a form.                                          *)
ValidForm(f) == f.fields # {}

=============================================================================
