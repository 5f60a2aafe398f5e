----------------------------- MODULE PointOfSale -----------------------------
(***************************************************************************)
(* The point of sale page (POSPage) and the sale it posts: the cart, the   *)
(* sale settings, the request in flight, and what create_sale stores.      *)
(*                                                                         *)
(* The page works on copies: the products and tax rates it has fetched.    *)
(* Every action of the cashier is one event handler followed by the render *)
(* and the effects it causes, so the effects are part of the action.  The  *)
(* server's sale is one step: StockSessions and CreditSessions take it     *)
(* apart.  Money is counted in grains; the server rounds to Stored grains  *)
(* and the screen to Cent grains.  Page and server compute with binary     *)
(* floating-point numbers, whose error is a choice out of Errors, in grains*)
(* and each time anew.  It counts where it can change a result: in the     *)
(* total of the page and in the tax of the server.  What else the server   *)
(* computes is a multiple of Stored, and rounding it undoes the error.  An *)
(* empty input field is 0, as parseFloat and || make it.                   *)
(*                                                                         *)
(* A definition named Operator_Change is a variant of Operator with a      *)
(* plausible mistake in it; no specification uses it.                      *)
(***************************************************************************)
EXTENDS Integers, FiniteSetsExt

CONSTANTS
    Products,       \* the products on sale
    InitCatalog,    \* their price and stock to begin with
    Prices,         \* the prices a product may be given later
    TaxRates,       \* the tax rates, by tax_rate_id
    InitRates,      \* their percentage to begin with, in thousandths
    DefaultTax,     \* the default tax rate, or NoTax when none is configured
    NoTax,          \* taxRateId = null
    Amounts,        \* what the cashier may type as amount received
    Discounts,      \* what the cashier may type as discount
    Stored,         \* the grains in the smallest amount the database stores
    Cent,           \* the grains in the smallest amount the screen shows
    Errors,         \* by how many grains a computation may miss
    MaxUnits,       \* bound: units in the cart
    MaxSales,       \* bound: sales stored
    MaxChanges,     \* bound: changes of stock and price made elsewhere
    MaxRateChanges  \* bound: changes of a tax rate made elsewhere

VARIABLES
    catalog,        \* the products as the database has them
    rates,          \* the tax rates as the database has them
    shown,          \* the products as the page has fetched them
    shownRates,     \* the tax rates as the page has fetched them
    cart,           \* the cart: a quantity and a price per product
    sale,           \* the sale settings
    phase,          \* where the posted sale is
    request,        \* the payload of the posted sale
    books,          \* what the sales stored add up to
    receipt,        \* the last sale stored
    touched,        \* whether a setting was touched since the last reset
    changes,        \* changes made elsewhere so far
    rateChanges

server == <<catalog, rates, books, receipt>>
copies == <<shown, shownRates>>
page   == <<cart, sale, touched>>
bounds == <<changes, rateChanges>>
vars   == <<catalog, rates, shown, shownRates, cart, sale, phase, request, books,
            receipt, touched, changes, rateChanges>>

ASSUME PointOfSaleAssumption ==
    /\ IsFiniteSet(Products)
    /\ InitCatalog \in [Products -> [unit_price : Nat, quantity_on_hand : Nat]]
    /\ Prices \subseteq Nat
    /\ InitRates \in [TaxRates -> Nat]
    /\ NoTax \notin TaxRates
    /\ DefaultTax \in TaxRates \cup {NoTax}
    /\ Amounts \subseteq Nat /\ 0 \in Amounts
    /\ Discounts \subseteq Nat /\ 0 \in Discounts
    /\ Stored \in Nat \ {0} /\ Cent \in Nat \ {0}
    /\ Errors \subseteq Int /\ 0 \in Errors
    /\ \A e \in Errors : -Stored < 2 * e /\ 2 * e < Stored
    /\ {MaxUnits, MaxSales, MaxChanges, MaxRateChanges} \subseteq Nat
-----------------------------------------------------------------------------
\* Cart and settings

NoItem    == [quantity |-> 0, unit_price |-> 0]
EmptyCart == [p \in Products |-> NoItem]
InCart(p) == cart[p].quantity > 0
Line(p, q) == [cart[p] EXCEPT !.quantity = q]
Units     == SumFunctionOnSet([p \in Products |-> cart[p].quantity], Products)

\* customer and dueDate: a customer is chosen, a date is entered.  The payment
\* method is left out, since an effect chooses the cash method whenever none is,
\* and so are the reference number and the notes, which nothing reads.
FreshSale == [saleType |-> "CASH", customer |-> FALSE, dueDate |-> FALSE,
              amountReceived |-> 0, discountAmount |-> 0, taxRate |-> NoTax]

\* The effect that runs after a render: without a tax rate the default is chosen.
AfterRender(s) == [s EXCEPT !.taxRate = IF @ = NoTax THEN DefaultTax ELSE @]

\* resetCart, with the effects of the render that follows.
ResetSale == AfterRender(FreshSale)
-----------------------------------------------------------------------------
\* Money

Round(x, unit) == ((x + unit \div 2) \div unit) * unit

Positive(x, y) == IF x > y THEN x - y ELSE 0    \* Math.max(0, x - y)

Subtotal(c) ==
    SumFunctionOnSet([p \in Products |-> c[p].quantity * c[p].unit_price], Products)

TaxOn(amount, tax, table) ==
    IF tax = NoTax THEN 0 ELSE (amount * table[tax]) \div 1000

\* The page: nothing is rounded, and the total misses by e.
CartTotal_FullTax(e) ==
    Positive(Subtotal(cart) + e, sale.discountAmount)
        + TaxOn(Subtotal(cart), sale.taxRate, shownRates)
CartTotal(e) ==
    Positive(Subtotal(cart) + e, sale.discountAmount)
        + TaxOn(Positive(Subtotal(cart), sale.discountAmount), sale.taxRate, shownRates)

\* What the button and the totals show of an amount.
OnScreen(amount) == Round(amount, Cent)

\* The server: each part is rounded before the next is computed from it; its tax
\* misses by e before it is rounded.
StoredTotal(r, e) ==
    LET taxable == Round(Subtotal(r.items), Stored) - Round(r.discount, Stored)
    IN  taxable + Round(TaxOn(taxable, r.taxRate, rates) + e, Stored)

\* The tax is so near the middle of two amounts the database stores that the error
\* decides which it becomes.
Tied(r) == \E e \in Errors : StoredTotal(r, e) # StoredTotal(r, 0)

CanCompleteSale(e) ==
    /\ cart # EmptyCart
    /\ CartTotal(e) > 0
    /\ sale.saleType = "CASH" => sale.amountReceived >= CartTotal(e)
    /\ sale.saleType = "CREDIT" => sale.customer /\ sale.dueDate

\* One payment line over the whole total, whatever the type of the sale.  What the
\* rates were on the page is kept for the properties; it is not sent.
Payload(e) == [items |-> cart, saleType |-> sale.saleType, taxRate |-> sale.taxRate,
               discount |-> sale.discountAmount, payment |-> CartTotal(e),
               received |-> IF sale.amountReceived = 0 THEN CartTotal(e)
                                                       ELSE sale.amountReceived,
               rates |-> shownRates]

NoRequest == [items |-> EmptyCart, saleType |-> "CASH", taxRate |-> NoTax,
              discount |-> 0, payment |-> 0, received |-> 0, rates |-> InitRates]
NoReceipt == [saleType |-> "CASH", total |-> 0, paid |-> 0, received |-> 0, owed |-> 0,
              current |-> TRUE, tied |-> FALSE]

Init == /\ catalog = InitCatalog /\ shown = InitCatalog
        /\ rates = InitRates /\ shownRates = InitRates
        /\ cart = EmptyCart
        /\ sale = ResetSale
        /\ phase = "idle"
        /\ request = NoRequest
        /\ books = [sales |-> 0, units |-> [p \in Products |-> 0]]
        /\ receipt = NoReceipt
        /\ touched = FALSE
        /\ changes = 0 /\ rateChanges = 0
-----------------------------------------------------------------------------
\* The cart

\* A product shown as out of stock cannot be clicked.
Offered(p) == shown[p].quantity_on_hand > 0

\* The price is the one shown when the first unit is added.
AddToCart(p) ==
    /\ Offered(p)
    /\ cart[p].quantity < shown[p].quantity_on_hand
    /\ Units < MaxUnits
    /\ cart' = [cart EXCEPT ![p] = IF InCart(p) THEN Line(p, cart[p].quantity + 1)
                                   ELSE [quantity |-> 1, unit_price |-> shown[p].unit_price]]
    /\ UNCHANGED <<server, copies, sale, phase, request, touched, bounds>>

\* The + and - buttons of a line do not look at the stock.
UpdateQuantity(p, q) ==
    /\ InCart(p)
    /\ q = cart[p].quantity - 1 \/ (q = cart[p].quantity + 1 /\ Units < MaxUnits)
    /\ cart' = [cart EXCEPT ![p] = IF q = 0 THEN NoItem ELSE Line(p, q)]
    /\ UNCHANGED <<server, copies, sale, phase, request, touched, bounds>>

RemoveItem(p) ==
    /\ InCart(p)
    /\ cart' = [cart EXCEPT ![p] = NoItem]
    /\ UNCHANGED <<server, copies, sale, phase, request, touched, bounds>>

\* Clear all, offered while the cart is not empty.
ClearCart ==
    /\ cart # EmptyCart
    /\ cart' = EmptyCart
    /\ sale' = ResetSale
    /\ touched' = FALSE
    /\ UNCHANGED <<server, copies, phase, request, bounds>>
-----------------------------------------------------------------------------
\* The settings, shown while the cart is not empty

Set(settings) ==
    /\ cart # EmptyCart
    /\ sale' = AfterRender(settings)
    /\ touched' = TRUE
    /\ UNCHANGED <<server, copies, cart, phase, request, bounds>>

SetSaleType(type) ==
    Set(IF type = "CASH"
        THEN [sale EXCEPT !.saleType = type, !.customer = FALSE, !.dueDate = FALSE]
        ELSE [sale EXCEPT !.saleType = type])

SetCustomer(chosen) == sale.saleType = "CREDIT" /\ Set([sale EXCEPT !.customer = chosen])
SetDueDate(entered) == sale.saleType = "CREDIT" /\ Set([sale EXCEPT !.dueDate = entered])
SetReceived(amount) == sale.saleType = "CASH" /\ Set([sale EXCEPT !.amountReceived = amount])
SetDiscount(amount) == Set([sale EXCEPT !.discountAmount = amount])
SetTaxRate(tax)     == Set([sale EXCEPT !.taxRate = tax])

Settings ==
    \/ \E type \in {"CASH", "CREDIT"} : SetSaleType(type)
    \/ \E given \in BOOLEAN : SetCustomer(given) \/ SetDueDate(given)
    \/ \E amount \in Amounts : SetReceived(amount)
    \/ \E amount \in Discounts : SetDiscount(amount)
    \/ \E tax \in TaxRates \cup {NoTax} : SetTaxRate(tax)
-----------------------------------------------------------------------------
\* The sale

\* The button and Ctrl+Enter.
CompleteSale_WhilePending ==
    /\ books.sales < MaxSales
    /\ \E e \in Errors : CanCompleteSale(e) /\ request' = Payload(e)
    /\ phase' = "sent"
    /\ UNCHANGED <<server, copies, page, bounds>>
CompleteSale ==
    /\ phase = "idle"
    /\ books.sales < MaxSales
    /\ \E e \in Errors : CanCompleteSale(e) /\ request' = Payload(e)
    /\ phase' = "sent"
    /\ UNCHANGED <<server, copies, page, bounds>>

Sufficient(r, e) ==
    /\ \A p \in Products : r.items[p].quantity <= catalog[p].quantity_on_hand
    /\ r.saleType = "CASH" => Round(r.received, Stored) >= StoredTotal(r, e)

\* create_sale: the money is worked out again from the payload; a credit sale owes
\* what its payment lines do not cover.
ServerSells == \E e \in Errors :
    /\ phase = "sent"
    /\ Sufficient(request, e)
    /\ books' = [sales |-> books.sales + 1,
                 units |-> [p \in Products |-> books.units[p] + request.items[p].quantity]]
    /\ LET total == StoredTotal(request, e)
           paid  == Round(request.payment, Stored)
       IN  receipt' = [saleType |-> request.saleType, total |-> total, paid |-> paid,
                       received |-> IF request.saleType = "CASH"
                                    THEN Round(request.received, Stored) ELSE paid,
                       owed |-> IF request.saleType = "CREDIT" THEN Positive(total, paid) ELSE 0,
                       current |-> request.rates = rates,
                       tied |-> Tied(request)]
    /\ catalog' = [p \in Products |-> [catalog[p] EXCEPT !.quantity_on_hand =
                      catalog[p].quantity_on_hand - request.items[p].quantity]]
    /\ phase' = "stored"
    /\ UNCHANGED <<rates, copies, page, request, bounds>>

ServerRefuses ==
    /\ phase = "sent"
    /\ \E e \in Errors : ~Sufficient(request, e)
    /\ phase' = "refused"
    /\ UNCHANGED <<server, copies, page, request, bounds>>

\* onSuccess: the whole cart is reset, with what was added while the sale was
\* pending; the queries it invalidates are refetched in RefetchProducts.
SaleSucceeds_KeepsDiscount ==
    /\ phase = "stored"
    /\ cart' = EmptyCart
    /\ sale' = [ResetSale EXCEPT !.discountAmount = sale.discountAmount]
    /\ touched' = FALSE
    /\ phase' = "idle"
    /\ request' = NoRequest
    /\ UNCHANGED <<server, copies, bounds>>
SaleSucceeds ==
    /\ phase = "stored"
    /\ cart' = EmptyCart
    /\ sale' = ResetSale
    /\ touched' = FALSE
    /\ phase' = "idle"
    /\ request' = NoRequest
    /\ UNCHANGED <<server, copies, bounds>>

\* onError: a message, nothing else.
SaleFails ==
    /\ phase = "refused"
    /\ phase' = "idle"
    /\ request' = NoRequest
    /\ UNCHANGED <<server, copies, page, bounds>>

\* The 30 seconds of the client are over, or the connection breaks: onError, with
\* the sale stored or not.
AnswerIsLost ==
    /\ phase \in {"sent", "stored"}
    /\ phase' = "idle"
    /\ request' = NoRequest
    /\ UNCHANGED <<server, copies, page, bounds>>
-----------------------------------------------------------------------------
\* The rest of the shop, and the page's queries

OtherSale(p) ==
    /\ changes < MaxChanges
    /\ changes' = changes + 1
    /\ catalog[p].quantity_on_hand > 0
    /\ catalog' = [catalog EXCEPT ![p].quantity_on_hand = @ - 1]
    /\ UNCHANGED <<rates, books, receipt, copies, page, phase, request, rateChanges>>

NewPrice(p, price) ==
    /\ changes < MaxChanges
    /\ changes' = changes + 1
    /\ catalog' = [catalog EXCEPT ![p].unit_price = price]
    /\ UNCHANGED <<rates, books, receipt, copies, page, phase, request, rateChanges>>

NewRate(tax) ==
    /\ rateChanges < MaxRateChanges
    /\ rateChanges' = rateChanges + 1
    /\ rates' = [rates EXCEPT ![tax] = @ * 2]
    /\ UNCHANGED <<catalog, books, receipt, copies, page, phase, request, changes>>

RefetchProducts ==
    /\ shown # catalog
    /\ shown' = catalog
    /\ UNCHANGED <<server, shownRates, page, phase, request, bounds>>

RefetchRates ==
    /\ shownRates # rates
    /\ shownRates' = rates
    /\ UNCHANGED <<server, shown, page, phase, request, bounds>>

Elsewhere ==
    \/ \E p \in Products : OtherSale(p) \/ \E price \in Prices : NewPrice(p, price)
    \/ \E tax \in TaxRates : NewRate(tax)
    \/ RefetchProducts
    \/ RefetchRates

EditCart == \/ \E p \in Products : \/ AddToCart(p)
                                   \/ \E q \in 0..MaxUnits : UpdateQuantity(p, q)
                                   \/ RemoveItem(p)
            \/ ClearCart

Answer == ServerSells \/ ServerRefuses \/ SaleSucceeds \/ SaleFails \/ AnswerIsLost

Next == EditCart \/ Settings \/ CompleteSale \/ Answer \/ Elsewhere

Spec == Init /\ [][Next]_vars
-----------------------------------------------------------------------------
\* Properties

\* TypeOK: the state of the till is of the right kind.
Item    == [quantity : Nat, unit_price : Nat]
TypeOK ==
    /\ catalog \in [Products -> [unit_price : Nat, quantity_on_hand : Nat]]
    /\ shown \in [Products -> [unit_price : Nat, quantity_on_hand : Nat]]
    /\ rates \in [TaxRates -> Nat] /\ shownRates \in [TaxRates -> Nat]
    /\ cart \in [Products -> Item]
    /\ sale \in [saleType : {"CASH", "CREDIT"}, customer : BOOLEAN, dueDate : BOOLEAN,
                 amountReceived : Nat, discountAmount : Nat,
                 taxRate : TaxRates \cup {NoTax}]
    /\ phase \in {"idle", "sent", "stored", "refused"}
    /\ request \in [items : [Products -> Item], saleType : {"CASH", "CREDIT"},
                    taxRate : TaxRates \cup {NoTax}, discount : Nat, payment : Nat,
                    received : Nat, rates : [TaxRates -> Nat]]
    /\ books \in [sales : Nat, units : [Products -> Nat]]
    /\ receipt \in [saleType : {"CASH", "CREDIT"}, total : Nat, paid : Nat,
                    received : Nat, owed : Nat, current : BOOLEAN, tied : BOOLEAN]
    /\ touched \in BOOLEAN
    /\ changes \in Nat /\ rateChanges \in Nat

\* The till keeps Register's promise.  A stored sale has taken its cart with it,
\* even though the page still shows it until the answer arrives.
Till == INSTANCE Register WITH
    cart     <- [p \in Products |-> IF phase = "stored" THEN 0 ELSE cart[p].quantity],
    ticket   <- [p \in Products |-> IF phase = "sent" THEN request.items[p].quantity ELSE 0],
    recorded <- books.units

\* RegisterSpec: each submitted cart is stored at most once and complete, however
\* edits, Ctrl+Enter and answers interleave, and the one thing that can break this
\* is a stored sale whose answer is lost.  handleCompleteSale's isPending guard and
\* the reset on success are what makes it so.
RegisterSpec ==
    Till!Init /\ [][Till!Next \/ (AnswerIsLost /\ phase = "stored")]_(Till!vars)

\* NeverSoldTwice: the same without the exception.
NeverSoldTwice == Till!Spec

\* MoneyAgrees: if the page knew the tax rates the server uses, the total it took
\* payment for is the total that the server works out again and stores, through two
\* ways of rounding and prices that change; only where the tax lies so near the middle
\* of two stored amounts that the error of floating-point arithmetic decides, they may
\* differ, and then by one unit of the database.  The cash received always covers the
\* stored total.
MoneyAgrees ==
    /\ receipt.current => /\ receipt.paid = receipt.total \/ receipt.tied
                          /\ receipt.paid - receipt.total \in {-Stored, 0, Stored}
    /\ receipt.saleType = "CASH" => receipt.received >= receipt.total

\* MoneyAlwaysAgrees: the same without the exception, whatever rates the page knew.
MoneyAlwaysAgrees == receipt.paid = receipt.total /\ receipt.received >= receipt.total

\* NothingLeftOver: unless the cashier touched a setting since the last reset, the
\* settings are those of a fresh sale: no discount, customer, date or amount of the
\* last customer's sale carries over to the next.
NothingLeftOver == ~touched => sale = ResetSale

\* CreditIsOwed: a stored credit sale leaves its customer owing its total.
CreditIsOwed == receipt.saleType = "CREDIT" => receipt.owed = receipt.total

\* NothingForgotten: a success does not throw away what the cashier added to the
\* cart while the sale was pending.
NothingForgotten == [][SaleSucceeds => cart = request.items]_vars

\* NoTaxIsKept: choosing "No tax" leaves the sale untaxed.
NoTaxIsKept == [][SetTaxRate(NoTax) => sale'.taxRate = NoTax]_vars

\* CartStartsFresh: the first item of a cart finds the settings fresh.
CartStartsFresh == [][cart = EmptyCart /\ cart' # EmptyCart => sale = ResetSale]_vars

\* ShownTotalIsEnough: the total that the button shows, typed as amount received,
\* covers the total.
ShownTotalIsEnough == \A e \in Errors : OnScreen(CartTotal(e)) >= CartTotal(e)
=============================================================================
