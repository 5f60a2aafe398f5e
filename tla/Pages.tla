-------------------------------- MODULE Pages --------------------------------
(***************************************************************************)
(* The pages of the frontend as tables: the queries by which they show     *)
(* what the server keeps, how their filters and pagers move from page to   *)
(* page of a list, and the writes they offer with the queries that each    *)
(* one's success invalidates.  QueryView says what the queries, the cache  *)
(* and the user make of them.                                              *)
(*                                                                         *)
(* A query key is a sequence; the page number and the filters that follow  *)
(* it in the code are added by QueryView.  A resource is a table, or       *)
(* tables, of the database.  A definition named Operator_Change is a       *)
(* variant of Operator with a plausible mistake in it.                     *)
(***************************************************************************)
EXTENDS Sequences

\* A pager is shown when there are several pages, when there are rows, always, or always
\* unless a spinner stands for it during a first fetch; Next is disabled from the last
\* page on, or exactly on it.
Pager(shown, stops) == [shown |-> shown, stops |-> stops]
NoPager == Pager("never", "from the last page")

\* Whether a new search text and a new choice in a select return to page 1 or keep the
\* page; a debounced text returns to page 1 when it is typed and filters 300 ms later.
\* sent: whether the request carries the page and the filters at all.
Filters(typed, chosen, sent) == [typed |-> typed, chosen |-> chosen, sent |-> sent]
NoFilters == Filters("resets", "resets", TRUE)

\* A list with its filters and pager, a table without, and what else a page looks up.
\* Its page is the page of the frontend; of CreditsPage and SettingsPage, the tab, whose
\* writes are not claimed to reach the lists of the sibling tabs.
List(page, key, reads, filters, pager) ==
    [page |-> page, key |-> key, reads |-> reads, filters |-> filters, pager |-> pager,
     table |-> TRUE]
Table(page, key, reads)  == List(page, key, reads, NoFilters, NoPager)
Lookup(page, key, reads) == [Table(page, key, reads) EXCEPT !.table = FALSE]

\* Every write is audited.
Write(page, changes, invalidates) ==
    [page |-> page, changes |-> changes \cup {"audit"}, invalidates |-> invalidates]
-----------------------------------------------------------------------------
\* ProductsPage

ProductsFilters  == Filters("debounced", "resets", TRUE)
ProductsPager    == Pager("several", "from the last page")
ProductsList     == List("products", <<"products">>, {"products", "stock"},
                         ProductsFilters, ProductsPager)
CategoriesSelect == Lookup("products", <<"categories-select">>, {"categories"})
SuppliersSelect  == Lookup("products", <<"suppliers-select">>, {"suppliers"})

ProductKeys_NotTheList == {<<"pos-products">>, <<"inventory">>, <<"inventory-movements">>,
                           <<"inventory-low-stock">>, <<"dashboard">>}
ProductKeys == {<<"products">>, <<"pos-products">>, <<"inventory">>,
                <<"inventory-movements">>, <<"inventory-low-stock">>, <<"dashboard">>}

ArchiveProduct  == Write("products", {"products"}, ProductKeys)
DeleteProduct   == Write("products", {"products"}, ProductKeys)
ActivateProduct == Write("products", {"products"}, ProductKeys)
SaveProduct     == Write("products", {"products", "stock"}, ProductKeys)
PriceProduct    == Write("products", {"products"}, {<<"products">>})
ReceiveProduct  == Write("products", {"stock"}, ProductKeys)
ProductsRow == {ArchiveProduct, DeleteProduct, ActivateProduct, SaveProduct,
                PriceProduct, ReceiveProduct}

\* InventoryPage: three tabs, whose queries are enabled with the tab.
InventoryPager   == Pager("unless loading", "from the last page")
InventoryTabPager == Pager("always", "from the last page")
InventoryFilters == Filters("resets", "resets", TRUE)
InventoryList    == List("inventory", <<"inventory">>, {"products", "stock"},
                         InventoryFilters, InventoryPager)
MovementsFilters == Filters("resets", "resets", TRUE)
MovementsList    == List("inventory", <<"inventory-movements">>, {"stock"},
                         MovementsFilters, InventoryTabPager)
LowStockFilters  == Filters("resets", "resets", TRUE)
LowStockList     == List("inventory", <<"inventory-low-stock">>, {"stock"},
                         LowStockFilters, InventoryTabPager)
InventoryDetail  == Lookup("inventory", <<"inventory-product">>, {"stock"})

RestockStock == Write("inventory", {"stock"}, ProductKeys)
AdjustStock  == Write("inventory", {"stock"}, ProductKeys)
InventoryRow == {RestockStock, AdjustStock}
-----------------------------------------------------------------------------
\* UsersPage
UsersFilters == Filters("keeps", "resets", TRUE)
UsersPager   == Pager("several", "from the last page")
UsersList    == List("users", <<"users">>, {"users"}, UsersFilters, UsersPager)
DeactivateUser == Write("users", {"users"}, {<<"users">>})
SaveUser       == Write("users", {"users"}, {<<"users">>})
UsersRow       == {DeactivateUser, SaveUser}

\* SuppliersPage
SuppliersFilters == Filters("keeps", "resets", TRUE)
SuppliersPager   == Pager("several", "from the last page")
SuppliersList    == List("suppliers", <<"suppliers">>, {"suppliers"},
                         SuppliersFilters, SuppliersPager)
SupplierDetail   == Lookup("suppliers", <<"supplier">>, {"suppliers", "contacts"})
DeleteSupplier == Write("suppliers", {"suppliers"}, {<<"suppliers">>})
SaveSupplier   == Write("suppliers", {"suppliers"}, {<<"suppliers">>})
DeleteContact  == Write("suppliers", {"contacts"}, {<<"supplier">>})
SaveContact    == Write("suppliers", {"contacts"}, {<<"supplier">>})
SuppliersRow   == {DeleteSupplier, SaveSupplier, DeleteContact, SaveContact}

\* CategoriesPage
CategoriesFilters == Filters("keeps", "keeps", TRUE)
CategoriesPager   == Pager("several", "from the last page")
CategoriesList    == List("categories", <<"categories">>, {"categories"},
                          CategoriesFilters, CategoriesPager)
AllCategories     == Table("categories", <<"categories", "all">>, {"categories"})
DeleteCategory == Write("categories", {"categories"}, {<<"categories">>})
SaveCategory   == Write("categories", {"categories"}, {<<"categories">>})
CategoriesRow  == {DeleteCategory, SaveCategory}
-----------------------------------------------------------------------------
\* POSPage
PosProducts   == Lookup("pos", <<"pos-products">>, {"products", "stock"})
PosCategories == Lookup("pos", <<"pos-categories">>, {"categories"})
PosCustomers  == Lookup("pos", <<"pos-customers">>, {"customers"})
PosTaxRates   == Lookup("pos", <<"pos-tax-rates">>, {"tax rates"})
SellCart == Write("pos", {"sales", "stock", "credits", "payments"},
                  {<<"products">>, <<"pos-products">>, <<"dashboard">>})

\* SalesPage: the search text is part of the key, but only its form's submit
\* returns to page 1.
SalesFilters == Filters("keeps", "resets", TRUE)
SalesPager   == Pager("rows", "from the last page")
SalesList    == List("sales", <<"sales">>, {"sales"}, SalesFilters, SalesPager)
SaleDetail   == Lookup("sales", <<"sale">>, {"sales"})
VoidSale     == Write("sales", {"sales", "stock", "credits"}, {<<"sales">>})

\* ReturnsPage: the search looks through the rows of the page and is no filter.
ReturnsFilters  == Filters("resets", "resets", TRUE)
ReturnsPager    == Pager("several", "from the last page")
ReturnsList     == List("returns", <<"returns">>, {"returns"}, ReturnsFilters, ReturnsPager)
SaleOfReturn    == Lookup("returns", <<"sale-detail">>, {"sales"})
ReturnDetail    == Lookup("returns", <<"return-detail">>, {"returns"})
CreateReturn    == Write("returns", {"returns", "sales", "stock"}, {<<"returns">>})

\* PaymentsPage
PaymentsFilters == Filters("resets", "resets", TRUE)
PaymentsPager   == Pager("several", "from the last page")
PaymentsList    == List("payments", <<"payments">>, {"payments"},
                        PaymentsFilters, PaymentsPager)
-----------------------------------------------------------------------------
\* CreditsPage, a page per tab: page number and filters are handed to apiGet as its
\* configuration, whose params they are not, so no request carries them.
CreditsPager     == Pager("rows", "from the last page")
CreditsFilters   == Filters("resets", "resets", FALSE)
CreditsList      == List("credits", <<"credits", "sales">>, {"credits", "customers"},
                         CreditsFilters, CreditsPager)
CreditDetail     == Table("credits", <<"credits", "sale">>, {"credits"})
CreditPayments   == Table("credits", <<"credits", "payments">>, {"credits"})
CustomersPager   == Pager("rows", "from the last page")
CustomersFilters == Filters("resets", "resets", FALSE)
CustomersList    == List("customers", <<"credits", "customers">>, {"customers", "credits"},
                         CustomersFilters, CustomersPager)

SettleCredit   == Write("credits", {"credits", "payments"}, {<<"credits">>})
CreateCustomer == Write("customers", {"customers"}, {<<"credits", "customers">>})
UpdateCustomer == Write("customers", {"customers"}, {<<"credits", "customers">>})
DeleteCustomer == Write("customers", {"customers"}, {<<"credits", "customers">>})
CustomersRow   == {CreateCustomer, UpdateCustomer, DeleteCustomer}
-----------------------------------------------------------------------------
\* NotificationsPage, and the counter in the header
NotificationsFilters == Filters("resets", "resets", TRUE)
NotificationsPager   == Pager("several", "from the last page")
NotificationsList    == List("notifications", <<"notifications">>, {"notifications"},
                             NotificationsFilters, NotificationsPager)
UnreadCount == Table("notifications", <<"notifications", "unread-count">>, {"notifications"})
ReadNotification    == Write("notifications", {"notifications"}, {<<"notifications">>})
DismissNotification == Write("notifications", {"notifications"}, {<<"notifications">>})
MarkAllRead         == Write("notifications", {"notifications"}, {<<"notifications">>})
NotificationsRow    == {ReadNotification, DismissNotification, MarkAllRead}

\* AuditPage: four tables with one pager; the search looks through the rows shown.
AuditFilters    == Filters("keeps", "keeps", TRUE)
AuditPager      == Pager("rows", "on the last page")
AuditList       == List("audit", <<"audit-logs">>, {"audit"}, AuditFilters, AuditPager)
ActivityFilters == Filters("keeps", "resets", TRUE)
ActivityList    == List("audit", <<"activity-logs">>, {"audit"}, ActivityFilters, AuditPager)
SecurityFilters == Filters("keeps", "resets", TRUE)
SecurityList    == List("audit", <<"security-logs">>, {"events"}, SecurityFilters, AuditPager)
ErrorFilters    == Filters("keeps", "resets", TRUE)
ErrorList       == List("audit", <<"error-logs">>, {"events"}, ErrorFilters, AuditPager)

\* DashboardPage
Kpis        == Table("dashboard", <<"dashboard", "kpis">>, {"sales", "stock"})
TopProducts == Table("dashboard", <<"dashboard", "top-products">>, {"sales"})
SalesTrend  == Table("dashboard", <<"dashboard", "sales-trend">>, {"sales"})
-----------------------------------------------------------------------------
\* SettingsPage, a page per tab, and the settings and the user that every page shows.
\* The server copies the business name and currency of the profile to the settings.
BusinessInfo   == Table("business", <<"business-info">>, {"business"})
TaxRates       == Table("tax rates", <<"tax-rates">>, {"tax rates"})
Settings       == Table("settings", <<"settings">>, {"settings"})
PublicSettings == Lookup("app", <<"settings", "public">>, {"settings"})
Currency       == Lookup("app", <<"settings", "currency">>, {"settings"})
CurrentUser    == Lookup("app", <<"auth", "me">>, {"profile", "users"})

SaveBusiness  == Write("business", {"business", "settings"}, {<<"business-info">>})
CreateTaxRate == Write("tax rates", {"tax rates"}, {<<"tax-rates">>})
UpdateTaxRate == Write("tax rates", {"tax rates"}, {<<"tax-rates">>})
DeleteTaxRate == Write("tax rates", {"tax rates"}, {<<"tax-rates">>})
SaveCurrency  == Write("settings", {"settings", "business"},
                       {<<"settings">>, <<"business-info">>})
CreateSetting == Write("settings", {"settings"}, {<<"settings">>})
UpdateSetting == Write("settings", {"settings"}, {<<"settings">>})
DeleteSetting == Write("settings", {"settings"}, {<<"settings">>})
SettingsWrites == {SaveBusiness, CreateTaxRate, UpdateTaxRate, DeleteTaxRate, SaveCurrency,
                   CreateSetting, UpdateSetting, DeleteSetting}

\* ProfilePage invalidates nothing.
SaveProfile == Write("profile", {"profile"}, {})
-----------------------------------------------------------------------------
Queries == {ProductsList, CategoriesSelect, SuppliersSelect, InventoryList, MovementsList,
            LowStockList, InventoryDetail, UsersList, SuppliersList, SupplierDetail,
            CategoriesList, AllCategories, PosProducts, PosCategories, PosCustomers,
            PosTaxRates, SalesList, SaleDetail, ReturnsList, SaleOfReturn, ReturnDetail,
            PaymentsList, CreditsList, CreditDetail, CreditPayments, CustomersList,
            NotificationsList, UnreadCount, AuditList, ActivityList, SecurityList,
            ErrorList, Kpis, TopProducts, SalesTrend, BusinessInfo, TaxRates, Settings,
            PublicSettings, Currency, CurrentUser}

\* What another browser does changes everything and invalidates nothing here.
Elsewhere == Write("elsewhere", UNION {q.reads : q \in Queries}, {})

Writes == ProductsRow \cup InventoryRow \cup UsersRow \cup SuppliersRow \cup CategoriesRow
          \cup CustomersRow \cup NotificationsRow \cup SettingsWrites
          \cup {SellCart, VoidSale, CreateReturn, SettleCredit, SaveProfile, Elsewhere}
=============================================================================
