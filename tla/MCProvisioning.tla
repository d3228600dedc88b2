--------------------------- MODULE MCProvisioning ---------------------------
(* Instance of Provisioning for TLC.                                       *)
EXTENDS Provisioning

CONSTANTS order, invoice, s1, s2, s3, o1, o2

(* Two processes of a release and one of the release before it seed the    *)
(* same tenant.                                                            *)
OldRelease == << <<order, 1>>, <<invoice, 1>> >>
NewRelease == << <<order, 2>>, <<invoice, 1>> >>
TwoReleases == [s \in Seeders |-> IF s = s1 THEN OldRelease ELSE NewRelease]

(* Two commands create tenants of one name; cmd/migrate runs on the first. *)
OneName == [m \in Makers |-> "acme"]

(* A sync of a later release, whose crm type gains a version, and a        *)
(* publication of the crm module by a binary of the first release; tenants *)
(* that are empty, have a bundle, or were synced by a release in between.  *)
TypesOfModules == [F |-> "foundation", O |-> "crm", B |-> "acme"]
UniqueNames == [F |-> <<{}, {"n"}, {"n"}>>, O |-> <<{}, {}, {}>>, B |-> <<{}, {}, {}>>]
EarlierRegistries == {{}, {<<"B", 1>>}, {<<"F", 1>>, <<"F", 2>>}}
Releases == [sync |-> << <<"F", 3>>, <<"O", 2>> >>, publish |-> << <<"F", 1>>, <<"O", 1>> >>]
CrmGranted == [sync |-> {}, publish |-> {"crm"}]

(* Two bundles of one author, a rival's for the same type, one that calls  *)
(* itself a module of the program and one that claims a core status graph. *)
Authors == [a1 |-> "acme", a2 |-> "acme", c |-> "rival", d |-> "other", e |-> "rival"]
BundleModules ==
  [a1 |-> "acme", a2 |-> "acme", c |-> "rival", d |-> "purchasing", e |-> "rival"]
ItemsOfBundles ==
  [a1 |-> << <<"entity", "W", 1>>, <<"form", "W", 1>> >>,
   a2 |-> << <<"entity", "W", 2>>, <<"form", "W", 2>> >>,
   c |-> << <<"entity", "W", 2>>, <<"form", "W", 1>> >>,
   d |-> << <<"entity", "PO", 2>> >>,
   e |-> << <<"entity", "X", 1>> >>]
GraphsOfBundles ==
  [a1 |-> [W |-> "w"], a2 |-> [W |-> "w"], c |-> [W |-> "w"],
   d |-> [x \in {} |-> ""], e |-> [X |-> "po"]]
ShippedTypes == [PO |-> "purchasing"]
ShippedCodes == [PO |-> "po"]

(* Three licences between them have every module.                          *)
ThreeLicences ==
  {{"foundation"} \union s : s \in {{"purchasing", "sales", "crm"},
     {"finance", "assets", "projects"}, {"hr", "sales", "crm"}}}

(* Three versions of a type that add a length, bounds, a default and a     *)
(* translation, with a chain of three dates.                               *)
NoValue == [shape |-> "absent", n |-> 0]
Unbounded == 1000
Rule(type, required) ==
  [type |-> type, required |-> required, default |-> NoValue, min |-> -Unbounded,
   max |-> Unbounded, length |-> Unbounded, enum |-> {}, notBefore |-> "-"]
DateAfter(f) == [Rule("date", FALSE) EXCEPT !.notBefore = f]
Number(n) == [shape |-> "number", n |-> n]
Text(n) == [shape |-> "string", n |-> n]
Translated(n) == [shape |-> "object", n |-> n]
WithDates(text, qty) ==
  [text |-> text, qty |-> qty, ordered |-> DateAfter("-"), shipped |-> DateAfter("ordered"),
   received |-> DateAfter("shipped")]
ThreeVersions ==
  << WithDates(Rule("string", FALSE), Rule("number", FALSE)),
     WithDates([Rule("string", TRUE) EXCEPT !.length = 1],
               [Rule("money", FALSE) EXCEPT !.min = 0, !.max = 3, !.default = Number(0)]),
     WithDates(Rule("i18n_text", TRUE), [Rule("number", TRUE) EXCEPT !.min = 0, !.max = 3]) >>
Submission(text, qty, ordered, shipped, received) ==
  [text |-> text, qty |-> qty, ordered |-> ordered, shipped |-> shipped, received |-> received]
Days == {NoValue, Text(1), Text(2)}
FieldSubmissions ==
  {Submission(t, q, NoValue, NoValue, NoValue) :
     t \in {NoValue, Text(0), Text(2), Translated(0), Translated(1)},
     q \in {NoValue, Number(-5), Number(1), Number(7)}}
  \union {Submission(Text(1), Number(1), a, b, c) : a \in Days, b \in Days, c \in Days}

(* Tenants older than the conventions the commands bring: amounts in major *)
(* units or in both, statuses that are text, lines without a facility,     *)
(* names in one language, an asset without its counter.                    *)
Missing == -1
Old(t, d) == [type |-> t, data |-> d, meant |-> d, posted |-> 0]
OrderLine(price, total) == Old("POLine", [unit_price |-> price, line_total |-> total])
PurchaseOrder(total, status) ==
  Old("PurchaseOrder", [total |-> total, status |-> status, status_id |-> ""])
Stock(item) == Old("InventoryItem", [item_id |-> item, facility_id |-> ""])
Status(c) == Old("Status", [code |-> c, plain |-> TRUE, name |-> [en |-> "old", tr |-> ""]])
TenantsOfOld ==
  {<<OrderLine(950, 1900), OrderLine(950, 2850), OrderLine(950, Missing)>>,
   <<[OrderLine(95000, 190000) EXCEPT !.meant = [unit_price |-> 950, line_total |-> 1900]],
     Old("RequestForQuotationQuoteLine", [unit_price |-> 950])>>,
   <<PurchaseOrder(950, "draft"), PurchaseOrder(1900, "odd")>>,
   <<Stock("i"), Stock("i"), Old("GoodsReceipt", [facility_id |-> ""])>>,
   <<Status("draft"), Status("odd")>>,
   <<[Old("FixedAsset", [posted_period_count |-> 0]) EXCEPT !.posted = 1],
     PurchaseOrder(1900, "draft")>>}
CommandsOfOld ==
  {"poline-money", "purchase-order-total", "purchase-order-status",
   "inventory-facility", "status-name-i18n", "status-name-translations",
   "fixedasset-posted-period-count", "goods-receipt-facility",
   "quote-line-unit-price"}
OrderCodes == [draft |-> "s1", approved |-> "s2"]
ModuleLocales == [draft |-> {"tr"}]
=============================================================================
