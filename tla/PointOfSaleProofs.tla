--------------------------- MODULE PointOfSaleProofs ---------------------------
(***************************************************************************)
(* The point of sale page keeps the promise of Register, for any products, *)
(* prices and number of sales, and forgets the settings of a customer.     *)
(***************************************************************************)
EXTENDS PointOfSale, SharedLemmas

Product == [unit_price : Nat, quantity_on_hand : Nat]

\* A line without units is no line, so a cart that is not empty has units.
WellFormed(c) == /\ c \in [Products -> Item]
                 /\ \A p \in Products : c[p].quantity = 0 => c[p] = NoItem

IInv ==
    /\ shown \in [Products -> Product] /\ catalog \in [Products -> Product]
    /\ WellFormed(cart)
    /\ request.items \in [Products -> Item]
    /\ phase \in {"idle", "sent", "stored", "refused"}
    /\ phase = "sent" => \E p \in Products : request.items[p].quantity # 0
    /\ books.units \in [Products -> Nat]
-----------------------------------------------------------------------------
LEMMA EmptyCartIsWellFormed == WellFormed(EmptyCart)
BY DEF WellFormed, EmptyCart, NoItem, Item

\* A cart that is not empty has units of some product.
LEMMA CartHasUnits ==
  ASSUME WellFormed(cart), cart # EmptyCart
  PROVE  \E p \in Products : cart[p].quantity # 0
<1>1. cart = [p \in Products |-> cart[p]]
  BY DEF WellFormed
<1> QED
  BY <1>1 DEF WellFormed, EmptyCart

LEMMA InitHolds == Init => IInv
BY EmptyCartIsWellFormed, PointOfSaleAssumption
   DEF Init, IInv, Product, NoRequest, EmptyCart, NoItem, Item

\* Every step that changes the cart of the page leaves a cart.
LEMMA EditCartKeeps ==
  ASSUME IInv, EditCart PROVE WellFormed(cart')
<1>1. ASSUME NEW p \in Products, AddToCart(p) PROVE WellFormed(cart')
  <2>1. cart[p] \in Item /\ shown[p].unit_price \in Nat
    BY DEF IInv, WellFormed, Product
  <2> DEFINE line == IF InCart(p) THEN Line(p, cart[p].quantity + 1)
                     ELSE [quantity |-> 1, unit_price |-> shown[p].unit_price]
  <2>2. line \in Item /\ line.quantity # 0
    BY <2>1 DEF Item, Line, InCart
  <2>3. cart' = [cart EXCEPT ![p] = line]
    BY <1>1 DEF AddToCart
  <2> HIDE DEF line
  <2> QED
    BY <2>2, <2>3 DEF IInv, WellFormed
<1>2. ASSUME NEW p \in Products, NEW q \in 0..MaxUnits, UpdateQuantity(p, q)
      PROVE  WellFormed(cart')
  <2>1. cart[p] \in Item /\ q \in Nat
    BY DEF IInv, WellFormed
  <2> DEFINE line == IF q = 0 THEN NoItem ELSE Line(p, q)
  <2>2. line \in Item /\ (line.quantity = 0 => line = NoItem)
    BY <2>1 DEF Item, Line, NoItem
  <2>3. cart' = [cart EXCEPT ![p] = line]
    BY <1>2 DEF UpdateQuantity
  <2> HIDE DEF line
  <2> QED
    BY <2>2, <2>3 DEF IInv, WellFormed
<1>3. ASSUME NEW p \in Products, RemoveItem(p) PROVE WellFormed(cart')
  BY <1>3 DEF RemoveItem, IInv, WellFormed, NoItem, Item
<1>4. CASE ClearCart
  BY <1>4, EmptyCartIsWellFormed DEF ClearCart
<1> QED
  BY <1>1, <1>2, <1>3, <1>4 DEF EditCart

LEMMA ServerSellsKeeps == ASSUME IInv, ServerSells PROVE IInv'
<1>1. /\ phase = "sent" /\ phase' = "stored"
      /\ UNCHANGED <<shown, cart, request>>
      /\ books'.units = [p \in Products |-> books.units[p] + request.items[p].quantity]
      /\ catalog' = [p \in Products |-> [catalog[p] EXCEPT !.quantity_on_hand =
                       catalog[p].quantity_on_hand - request.items[p].quantity]]
      /\ \A p \in Products : request.items[p].quantity <= catalog[p].quantity_on_hand
  BY DEF ServerSells, Sufficient, copies, page
<1>2. \A p \in Products : request.items[p].quantity \in Nat /\ books.units[p] \in Nat
                          /\ catalog[p] \in Product
  BY DEF IInv, Item
<1>3. catalog' \in [Products -> Product]
  BY <1>1, <1>2 DEF Product
<1>4. books'.units \in [Products -> Nat]
  BY <1>1, <1>2
<1> QED
  BY <1>1, <1>3, <1>4 DEF IInv, WellFormed

\* Each step keeps the invariant.
LEMMA StepKeeps == IInv /\ [Next]_vars => IInv'
<1> SUFFICES ASSUME IInv, [Next]_vars PROVE IInv'
  OBVIOUS
<1> USE DEF server, copies, page, bounds
<1>1. CASE EditCart
  <2>1. UNCHANGED <<catalog, shown, phase, request, books>>
    BY <1>1 DEF EditCart, AddToCart, UpdateQuantity, RemoveItem, ClearCart
  <2>2. WellFormed(cart')
    BY <1>1, EditCartKeeps
  <2> QED
    BY <2>1, <2>2 DEF IInv, WellFormed
<1>2. CASE Settings
  <2>1. UNCHANGED <<catalog, shown, cart, phase, request, books>>
    BY <1>2 DEF Settings, SetSaleType, SetCustomer, SetDueDate, SetReceived, SetDiscount,
                SetTaxRate, Set
  <2> QED
    BY <2>1 DEF IInv, WellFormed
<1>3. CASE CompleteSale
  <2>1. /\ cart # EmptyCart /\ phase' = "sent" /\ request'.items = cart
        /\ UNCHANGED <<catalog, shown, cart, books>>
    BY <1>3 DEF CompleteSale, CanCompleteSale, Payload
  <2>2. \E p \in Products : request'.items[p].quantity # 0
    BY <2>1, CartHasUnits DEF IInv
  <2> QED
    BY <2>1, <2>2 DEF IInv, WellFormed
<1>4. CASE ServerSells
  BY <1>4, ServerSellsKeeps
<1>5. CASE ServerRefuses
  BY <1>5 DEF ServerRefuses, IInv, WellFormed
<1>6. CASE SaleSucceeds \/ SaleFails \/ AnswerIsLost
  <2>1. /\ phase' = "idle" /\ request' = NoRequest
        /\ UNCHANGED <<catalog, shown, books>> /\ cart' \in {cart, EmptyCart}
    BY <1>6 DEF SaleSucceeds, SaleFails, AnswerIsLost
  <2>2. request'.items \in [Products -> Item]
    BY <2>1 DEF NoRequest, EmptyCart, NoItem, Item
  <2>3. WellFormed(cart')
    BY <2>1, EmptyCartIsWellFormed DEF IInv
  <2> QED
    BY <2>1, <2>2, <2>3 DEF IInv, WellFormed
<1>7. CASE Elsewhere
  <2>1. UNCHANGED <<cart, phase, request, books>>
    BY <1>7 DEF Elsewhere, OtherSale, NewPrice, NewRate, RefetchProducts, RefetchRates
  <2>2. catalog' \in [Products -> Product] /\ shown' \in [Products -> Product]
    <3>1. ASSUME NEW p \in Products, OtherSale(p) PROVE <2>2
      <4>1. catalog[p].quantity_on_hand - 1 \in Nat
        BY <3>1 DEF OtherSale, IInv, Product
      <4> QED
        BY <3>1, <4>1 DEF OtherSale, IInv, Product
    <3>2. ASSUME NEW p \in Products, NEW price \in Prices, NewPrice(p, price) PROVE <2>2
      BY <3>2, PointOfSaleAssumption DEF NewPrice, IInv, Product
    <3>3. ASSUME NEW tax \in TaxRates, NewRate(tax) PROVE <2>2
      BY <3>3 DEF NewRate, IInv
    <3>4. CASE RefetchProducts \/ RefetchRates
      BY <3>4 DEF RefetchProducts, RefetchRates, IInv
    <3> QED
      BY <1>7, <3>1, <3>2, <3>3, <3>4 DEF Elsewhere
  <2> QED
    BY <2>1, <2>2 DEF IInv, WellFormed
<1>8. CASE UNCHANGED vars
  BY <1>8 DEF vars, IInv, WellFormed
<1> QED
  BY <1>1, <1>2, <1>3, <1>4, <1>5, <1>6, <1>7, <1>8 DEF Next, Answer

\* Whatever is clicked, sent, answered or lost, the cart, the request and the server fit
\* together as IInv says.
THEOREM InvariantHolds == Spec => []IInv
<1> QED
  BY InitHolds, StepKeeps, PTL DEF Spec
-----------------------------------------------------------------------------
\* The till, by what each of Register's variables stands for.
TillCart     == [p \in Products |-> IF phase = "stored" THEN 0 ELSE cart[p].quantity]
TillTicket   == [p \in Products |-> IF phase = "sent" THEN request.items[p].quantity ELSE 0]

\* The one step that Register does not know: the answer to a stored sale is lost.
TillStep == Till!Next \/ (AnswerIsLost /\ phase = "stored")

LEMMA TillBegins == Init => Till!Init
BY DEF Init, Till!Init, Till!EmptyCart, EmptyCart, NoItem

LEMMA EditRefines ==
  ASSUME IInv, EditCart PROVE TillStep \/ UNCHANGED Till!vars
<1>1. UNCHANGED <<phase, request, books>>
  BY DEF EditCart, AddToCart, UpdateQuantity, RemoveItem, ClearCart, server, copies, bounds
<1>2. TillTicket' = TillTicket
  BY <1>1 DEF TillTicket
<1>3. CASE phase = "stored"
  BY <1>1, <1>2, <1>3 DEF Till!vars, TillTicket
<1>4. ASSUME phase # "stored", NEW p \in Products,
             NEW q \in {cart[p].quantity + 1, 0}
                       \cup {n \in {cart[p].quantity - 1} : cart[p].quantity > 0},
             NEW line, line.quantity = q, cart' = [cart EXCEPT ![p] = line]
      PROVE  Till!Edit(p)
  <2>1. TillCart' = [TillCart EXCEPT ![p] = q] /\ TillCart[p] = cart[p].quantity
    BY <1>1, <1>4 DEF TillCart, IInv, WellFormed
  <2> QED
    BY <1>1, <1>2, <2>1 DEF Till!Edit, TillCart, TillTicket
<1>5. ASSUME NEW p \in Products, AddToCart(p), phase # "stored" PROVE TillStep
  <2> DEFINE line == IF InCart(p) THEN Line(p, cart[p].quantity + 1)
                     ELSE [quantity |-> 1, unit_price |-> shown[p].unit_price]
  <2>1. line.quantity = cart[p].quantity + 1 /\ cart' = [cart EXCEPT ![p] = line]
    BY <1>5 DEF AddToCart, InCart, Line, IInv, WellFormed, Item
  <2> HIDE DEF line
  <2>2. Till!Edit(p)
    BY <1>4, <1>5, <2>1
  <2> QED
    BY <2>2 DEF TillStep, Till!Next
<1>6. ASSUME NEW p \in Products, NEW q \in 0..MaxUnits, UpdateQuantity(p, q),
             phase # "stored"
      PROVE  TillStep
  <2> DEFINE line == IF q = 0 THEN NoItem ELSE Line(p, q)
  <2>1. /\ line.quantity = q /\ cart' = [cart EXCEPT ![p] = line]
        /\ q \in {cart[p].quantity + 1, 0}
                 \cup {n \in {cart[p].quantity - 1} : cart[p].quantity > 0}
    BY <1>6 DEF UpdateQuantity, InCart, NoItem, Line, IInv, WellFormed, Item
  <2> HIDE DEF line
  <2>2. Till!Edit(p)
    BY <1>4, <1>6, <2>1
  <2> QED
    BY <2>2 DEF TillStep, Till!Next
<1>7. ASSUME NEW p \in Products, RemoveItem(p), phase # "stored" PROVE TillStep
  <2>1. NoItem.quantity = 0 /\ cart' = [cart EXCEPT ![p] = NoItem]
    BY <1>7 DEF RemoveItem, NoItem
  <2>2. Till!Edit(p)
    BY <1>4, <1>7, <2>1
  <2> QED
    BY <2>2 DEF TillStep, Till!Next
<1>8. ASSUME ClearCart PROVE TillStep
  <2>1. TillCart' = Till!EmptyCart
    BY <1>1, <1>8 DEF ClearCart, TillCart, EmptyCart, NoItem, Till!EmptyCart
  <2> QED
    BY <1>1, <1>2, <2>1 DEF TillStep, Till!Next, Till!Clear, TillCart, TillTicket
<1> QED
  BY <1>3, <1>5, <1>6, <1>7, <1>8 DEF EditCart

LEMMA CompleteSaleRefines == ASSUME IInv, CompleteSale PROVE TillStep
<1>1. /\ phase = "idle" /\ phase' = "sent" /\ cart # EmptyCart /\ request'.items = cart
      /\ UNCHANGED <<cart, books>>
  BY DEF CompleteSale, CanCompleteSale, Payload, server, copies, page, bounds
<1>2. TillTicket = Till!EmptyCart /\ TillTicket' = TillCart /\ TillCart' = TillCart
  BY <1>1 DEF TillTicket, TillCart, Till!EmptyCart
<1>3. TillCart # Till!EmptyCart
  <2>1. PICK p \in Products : cart[p].quantity # 0
    BY <1>1, CartHasUnits DEF IInv
  <2>2. TillCart[p] # 0 /\ Till!EmptyCart[p] = 0
    BY <1>1, <2>1 DEF TillCart, Till!EmptyCart
  <2> QED
    BY <2>2
<1> QED
  BY <1>1, <1>2, <1>3 DEF TillStep, Till!Next, Till!Submit, TillCart, TillTicket

\* A ticket is out exactly while the sale is sent.
LEMMA TicketIsOut == ASSUME IInv, phase = "sent" PROVE TillTicket # Till!EmptyCart
<1>1. PICK p \in Products : request.items[p].quantity # 0
  BY DEF IInv
<1>2. TillTicket[p] # 0 /\ Till!EmptyCart[p] = 0
  BY <1>1 DEF TillTicket, Till!EmptyCart
<1> QED
  BY <1>2

LEMMA AnswerRefines == ASSUME IInv, Answer PROVE TillStep \/ UNCHANGED Till!vars
<1> USE DEF server, copies, page, bounds
<1>1. CASE ServerSells
  <2>1. /\ phase = "sent" /\ phase' = "stored" /\ UNCHANGED <<cart, request>>
        /\ books'.units = [p \in Products |-> books.units[p] + request.items[p].quantity]
    BY <1>1 DEF ServerSells
  <2>2. /\ TillTicket # Till!EmptyCart
        /\ TillTicket' = Till!EmptyCart /\ TillCart' = Till!EmptyCart
        /\ books'.units = [p \in Products |-> books.units[p] + TillTicket[p]]
    BY <2>1, TicketIsOut DEF TillTicket, TillCart, Till!EmptyCart
  <2> QED
    BY <2>2 DEF TillStep, Till!Next, Till!Record, TillCart, TillTicket
<1>2. CASE ServerRefuses \/ (AnswerIsLost /\ phase = "sent")
  <2>1. /\ phase = "sent" /\ phase' \in {"refused", "idle"} /\ UNCHANGED <<cart, books>>
    BY <1>2 DEF ServerRefuses, AnswerIsLost
  <2>2. /\ TillTicket # Till!EmptyCart
        /\ TillTicket' = Till!EmptyCart /\ TillCart' = TillCart
    BY <2>1, TicketIsOut DEF TillTicket, TillCart, Till!EmptyCart
  <2> QED
    BY <2>1, <2>2 DEF TillStep, Till!Next, Till!Refuse, TillCart, TillTicket
<1>3. CASE AnswerIsLost /\ phase = "stored"
  BY <1>3 DEF TillStep
<1>4. CASE SaleSucceeds \/ SaleFails
  <2>1. /\ phase \in {"stored", "refused"} /\ phase' = "idle" /\ UNCHANGED books
        /\ IF phase = "stored" THEN cart' = EmptyCart ELSE cart' = cart
    BY <1>4 DEF SaleSucceeds, SaleFails
  <2>2. TillTicket' = TillTicket /\ TillCart' = TillCart
    BY <2>1 DEF TillTicket, TillCart, EmptyCart, NoItem
  <2> QED
    BY <2>1, <2>2 DEF Till!vars, TillCart, TillTicket
<1> QED
  BY <1>1, <1>2, <1>3, <1>4 DEF Answer, AnswerIsLost

\* Each step is one of the till, or leaves it alone.
LEMMA StepRefines ==
  ASSUME IInv, [Next]_vars PROVE TillStep \/ UNCHANGED Till!vars
<1>1. CASE Settings \/ Elsewhere \/ UNCHANGED vars
  <2>1. UNCHANGED <<cart, phase, request, books>>
    BY <1>1 DEF Settings, SetSaleType, SetCustomer, SetDueDate, SetReceived, SetDiscount,
                SetTaxRate, Set, Elsewhere, OtherSale, NewPrice, NewRate, RefetchProducts,
                RefetchRates, vars, server, copies, page, bounds
  <2> QED
    BY <2>1 DEF Till!vars
<1> QED
  BY <1>1, EditRefines, CompleteSaleRefines, AnswerRefines DEF Next

\* RegisterSpec: the page, its requests and the server are a till that records each
\* submitted cart once and whole, as long as no answer to a stored sale is lost.
THEOREM PageIsATill == Spec => RegisterSpec
<1>1. IInv /\ [Next]_vars => [TillStep]_(Till!vars)
  BY StepRefines
<1> QED
  BY <1>1, TillBegins, InvariantHolds, PTL DEF Spec, RegisterSpec, TillStep
-----------------------------------------------------------------------------
\* NothingLeftOver: whatever is sold, refused, lost or cleared, settings that nobody has
\* touched since the last reset are those of a fresh sale.
THEOREM SettingsAreForgotten == Spec => []NothingLeftOver
<1>1. Init => NothingLeftOver
  BY DEF Init, NothingLeftOver
<1>2. ASSUME NothingLeftOver, [Next]_vars PROVE NothingLeftOver'
  <2>1. CASE UNCHANGED <<sale, touched>>
    BY <1>2, <2>1 DEF NothingLeftOver, ResetSale, AfterRender, FreshSale
  <2>2. CASE touched' = TRUE
    BY <2>2 DEF NothingLeftOver
  <2>3. CASE sale' = ResetSale
    BY <2>3 DEF NothingLeftOver, ResetSale, AfterRender, FreshSale
  <2>4. UNCHANGED <<sale, touched>> \/ touched' = TRUE \/ sale' = ResetSale
    BY <1>2 DEF Next, EditCart, AddToCart, UpdateQuantity, RemoveItem, ClearCart, Settings,
                SetSaleType, SetCustomer, SetDueDate, SetReceived, SetDiscount, SetTaxRate,
                Set, CompleteSale, Answer, ServerSells, ServerRefuses, SaleSucceeds,
                SaleFails, AnswerIsLost, Elsewhere, OtherSale, NewPrice, NewRate,
                RefetchProducts, RefetchRates, vars, server, copies, page, bounds
  <2> QED
    BY <2>1, <2>2, <2>3, <2>4
<1> QED
  BY <1>1, <1>2, PTL DEF Spec

-----------------------------------------------------------------------------
\* Money

\* Prices and discounts have no more digits than the database stores.
Whole(x) == x \in Nat /\ x % Stored = 0

WholeAmounts == /\ \A p \in Products : Whole(InitCatalog[p].unit_price)
                /\ \A price \in Prices : Whole(price)
                /\ \A amount \in Discounts : Whole(amount)

Settled == [saleType : {"CASH", "CREDIT"}, customer : BOOLEAN, dueDate : BOOLEAN,
            amountReceived : Nat, discountAmount : Nat, taxRate : TaxRates \cup {NoTax}]

\* What the server works out when it knows the rates the page knew: the discount is
\* not more than the subtotal, and the payment is the rest and the tax on it, but for
\* the error of the page.
SentOK(r) ==
    /\ r.saleType \in {"CASH", "CREDIT"}
    /\ r.taxRate \in TaxRates \cup {NoTax} /\ r.rates \in [TaxRates -> Nat]
    /\ Whole(r.discount) /\ Subtotal(r.items) >= r.discount
    /\ \E e \in Errors :
          r.payment = (Subtotal(r.items) - r.discount)
                         + TaxOn(Subtotal(r.items) - r.discount, r.taxRate, r.rates) + e

MoneyInv ==
    /\ \A p \in Products : /\ Whole(catalog[p].unit_price) /\ Whole(shown[p].unit_price)
                           /\ Whole(cart[p].unit_price)
                           /\ Whole(request.items[p].unit_price)
    /\ rates \in [TaxRates -> Nat] /\ shownRates \in [TaxRates -> Nat]
    /\ sale \in Settled /\ Whole(sale.discountAmount)
    /\ phase = "sent" => SentOK(request)
    /\ MoneyAgrees

\* The quotient is the only number that lies right.
LEMMA DivUnique ==
    ASSUME NEW n \in Int, NEW unit \in Nat \ {0}, NEW q \in Int,
           q * unit <= n, n < (q + 1) * unit
    PROVE  n \div unit = q
  OBVIOUS

\* It lies right.
LEMMA DivBounds ==
    ASSUME NEW n \in Int, NEW unit \in Nat \ {0}
    PROVE  /\ n \div unit \in Int
           /\ (n \div unit) * unit <= n
           /\ n < (n \div unit + 1) * unit
  OBVIOUS

\* A number without remainder is a multiple, and a multiple has none.
LEMMA ModMultiple ==
    ASSUME NEW n \in Nat, NEW unit \in Nat \ {0}, n % unit = 0
    PROVE  n = (n \div unit) * unit
  OBVIOUS

\* A multiple of the unit leaves no remainder.
LEMMA ModOf ==
    ASSUME NEW k \in Int, NEW unit \in Nat \ {0}
    PROVE  (k * unit) % unit = 0
  OBVIOUS

\* Rounding leaves whole units alone.
LEMMA RoundShift ==
    ASSUME NEW k \in Int, NEW x \in Int, NEW unit \in Nat \ {0}
    PROVE  Round(k * unit + x, unit) = k * unit + Round(x, unit)
  <1> DEFINE h == unit \div 2
             y == x + h
             q == y \div unit
  <1>0. h \in Int
    OBVIOUS
  <1> HIDE DEF h
  <1>1. y \in Int
    BY <1>0
  <1>2. q \in Int /\ q * unit <= y /\ y < (q + 1) * unit
    <2> HIDE DEF y
    <2> QED
      BY <1>1, DivBounds
  <1> HIDE DEF q
  <1>3. (k * unit + y) \div unit = k + q
    <2> HIDE DEF y
    <2>1. /\ (k + q) * unit = k * unit + q * unit
          /\ (k + q + 1) * unit = k * unit + (q + 1) * unit
          /\ k * unit \in Int /\ q * unit \in Int /\ (q + 1) * unit \in Int
      BY <1>2
    <2>2. (k + q) * unit <= k * unit + y /\ k * unit + y < (k + q + 1) * unit
          /\ k * unit + y \in Int /\ k + q \in Int
      BY <1>1, <1>2, <2>1
    <2> QED
      BY <2>2, DivUnique
  <1>4. k * unit + x + h = k * unit + y
    BY <1>0
  <1>5. (k + q) * unit = k * unit + q * unit
    BY <1>2
  <1> QED
    BY <1>3, <1>4, <1>5 DEF Round, q, y, h

\* Rounding gives an integer.
LEMMA RoundType ==
    ASSUME NEW x \in Int, NEW unit \in Nat \ {0} PROVE Round(x, unit) \in Int
  <1> DEFINE y == x + unit \div 2
  <1>1. y \in Int
    OBVIOUS
  <1>2. Round(x, unit) = (y \div unit) * unit
    BY DEF Round
  <1> HIDE DEF y
  <1> DEFINE q == y \div unit
  <1>3. q \in Int
    BY <1>1, DivBounds
  <1> HIDE DEF q
  <1>4. q * unit \in Int
    BY <1>3
  <1> QED
    BY <1>2, <1>4 DEF q

\* What lies less than a unit apart is rounded to the same or to neighbours.
LEMMA RoundNear ==
    ASSUME NEW x \in Int, NEW y \in Int, NEW unit \in Nat \ {0},
           -unit < x - y, x - y < unit
    PROVE  Round(x, unit) - Round(y, unit) \in {-unit, 0, unit}
  <1> DEFINE h == unit \div 2
             a == (x + h) \div unit
             b == (y + h) \div unit
  <1>0. h \in Int
    OBVIOUS
  <1> HIDE DEF h
  <1>1. /\ a \in Int /\ a * unit <= x + h /\ x + h < (a + 1) * unit
        /\ b \in Int /\ b * unit <= y + h /\ y + h < (b + 1) * unit
    <2> DEFINE v == x + h
               w == y + h
    <2>1. v \in Int /\ w \in Int
      BY <1>0
    <2> HIDE DEF v, w
    <2>2. /\ v \div unit \in Int /\ (v \div unit) * unit <= v
          /\ v < (v \div unit + 1) * unit
          /\ w \div unit \in Int /\ (w \div unit) * unit <= w
          /\ w < (w \div unit + 1) * unit
      BY <2>1, DivBounds
    <2> QED
      BY <2>2 DEF v, w
  <1>2. Round(x, unit) = a * unit /\ Round(y, unit) = b * unit
    BY DEF Round, h
  <1> HIDE DEF a, b
  <1>3. a - b \in {-1, 0, 1}
    <2>1. /\ (a + 1) * unit = a * unit + unit /\ (b + 1) * unit = b * unit + unit
          /\ a * unit \in Int /\ b * unit \in Int
      BY <1>1
    <2>2. a * unit < (b + 2) * unit /\ b * unit < (a + 2) * unit
      <3>1. (b + 2) * unit = b * unit + 2 * unit /\ (a + 2) * unit = a * unit + 2 * unit
        BY <1>1
      <3> QED
        BY <1>0, <1>1, <2>1, <3>1
    <2>3. ASSUME NEW m \in Int, NEW n \in Int, m * unit < n * unit PROVE m < n
      <3> SUFFICES ASSUME n <= m PROVE FALSE
        OBVIOUS
      <3>1. m - n \in Nat /\ m * unit = n * unit + (m - n) * unit
        OBVIOUS
      <3>2. (m - n) * unit \in Nat
        BY <3>1
      <3> QED
        BY <2>3, <3>1, <3>2
    <2>4. a < b + 2 /\ b < a + 2
      BY <1>1, <2>2, <2>3
    <2> QED
      BY <1>1, <2>4
  <1>4. a * unit - b * unit \in {-unit, 0, unit}
    <2>1. CASE a = b
      BY <1>1, <2>1
    <2>2. CASE a = b + 1
      BY <1>1, <2>2
    <2>3. CASE a = b - 1
      BY <1>1, <2>3
    <2> QED
      BY <1>1, <1>3, <2>1, <2>2, <2>3
  <1> QED
    BY <1>2, <1>4

\* What is whole already is not changed by rounding.
LEMMA RoundWhole == ASSUME NEW x, Whole(x) PROVE Round(x, Stored) = x
  <1>1. Stored \in Nat \ {0} /\ x \in Nat /\ x % Stored = 0
    BY PointOfSaleAssumption DEF Whole
  <1> DEFINE k == x \div Stored
  <1>2. k \in Int /\ x = k * Stored
    BY <1>1, ModMultiple, DivBounds
  <1>3. Round(0, Stored) = 0
    BY <1>1 DEF Round
  <1> HIDE DEF k
  <1>4. Round(k * Stored + 0, Stored) = k * Stored + Round(0, Stored)
    BY <1>1, <1>2, RoundShift
  <1> QED
    BY <1>1, <1>2, <1>3, <1>4

\* The subtotal of prices that are whole is whole.
LEMMA SubtotalIsWhole ==
    ASSUME NEW items \in [Products -> Item], \A p \in Products : Whole(items[p].unit_price)
    PROVE  Whole(Subtotal(items))
  <1> DEFINE f == [p \in Products |-> items[p].quantity * items[p].unit_price]
  <1>1. Stored \in Nat \ {0} /\ IsFiniteSet(Products)
    BY PointOfSaleAssumption
  <1>2. ASSUME NEW p \in Products
        PROVE  f[p] \in Nat /\ \E k \in Int : f[p] = k * Stored
    <2> DEFINE q == items[p].quantity
               u == items[p].unit_price
    <2>1. q \in Nat /\ u \in Nat /\ u % Stored = 0 /\ f[p] = q * u
      BY DEF Item, Whole
    <2> HIDE DEF q, u
    <2>2. PICK k \in Int : u = k * Stored
      <3>1. u = (u \div Stored) * Stored /\ u \div Stored \in Int
        BY <1>1, <2>1, ModMultiple, DivBounds
      <3> QED
        BY <3>1
    <2>3. q * u \in Nat /\ q * u = (q * k) * Stored /\ q * k \in Int
      BY <1>1, <2>1, <2>2
    <2> QED
      BY <2>1, <2>3
  <1>3. Subtotal(items) = SumFunctionOnSet(f, Products)
    BY DEF Subtotal
  <1> HIDE DEF f
  <1>4. SumFunctionOnSet(f, Products) \in Nat
    BY <1>1, <1>2, SumNat
  <1>5. PICK k \in Int : SumFunctionOnSet(f, Products) = k * Stored
    <2>1. Stored \in Int /\ \A p \in Products : \E k \in Int : f[p] = k * Stored
      BY <1>1, <1>2
    <2> QED
      BY <1>1, <2>1, SumMultiple
  <1> QED
    BY <1>1, <1>3, <1>4, <1>5, ModOf DEF Whole

\* The tax is a whole number of grains.
LEMMA TaxType ==
    ASSUME NEW amount \in Nat, NEW tax \in TaxRates \cup {NoTax},
           NEW table \in [TaxRates -> Nat]
    PROVE  TaxOn(amount, tax, table) \in Nat
  <1>1. CASE tax = NoTax
    BY <1>1 DEF TaxOn
  <1>2. CASE tax # NoTax
    <2> DEFINE n == amount * table[tax]
    <2>1. n \in Nat
      BY <1>2
    <2>2. TaxOn(amount, tax, table) = n \div 1000
      BY <1>2 DEF TaxOn
    <2> HIDE DEF n
    <2> QED
      BY <2>1, <2>2
  <1> QED
    BY <1>1, <1>2

\* Nothing is taxed with nothing.
LEMMA NoTaxOnNothing ==
    ASSUME NEW tax \in TaxRates \cup {NoTax}, NEW table \in [TaxRates -> Nat]
    PROVE  TaxOn(0, tax, table) = 0
  <1>1. CASE tax = NoTax
    BY <1>1 DEF TaxOn
  <1>2. CASE tax # NoTax
    <2>1. table[tax] \in Nat
      BY <1>2
    <2>2. (0 * table[tax]) \div 1000 = 0
      BY <2>1
    <2> QED
      BY <1>2, <2>2 DEF TaxOn
  <1> QED
    BY <1>1, <1>2

\* An error is less than a unit of the database, and so is the distance of two.
LEMMA ErrorsAreSmall ==
    ASSUME NEW d \in Errors, NEW e \in Errors
    PROVE  /\ d \in Int /\ -Stored < d /\ d < Stored
           /\ -Stored < d - e /\ d - e < Stored
  <1>1. /\ Stored \in Nat /\ d \in Int /\ e \in Int
        /\ -Stored < 2 * d /\ 2 * d < Stored /\ -Stored < 2 * e /\ 2 * e < Stored
    BY PointOfSaleAssumption
  <1> QED
    BY <1>1

\* Whole amounts are equal or a unit apart.
LEMMA WholeApart ==
    ASSUME NEW x, NEW y, Whole(x), Whole(y), x < y PROVE x + Stored <= y
  <1>1. x \in Nat /\ y \in Nat /\ Stored \in Nat \ {0}
    BY PointOfSaleAssumption DEF Whole
  <1>2. PICK a \in Int, b \in Int : x = a * Stored /\ y = b * Stored
    <2>1. x = (x \div Stored) * Stored /\ y = (y \div Stored) * Stored
          /\ x \div Stored \in Int /\ y \div Stored \in Int
      BY <1>1, ModMultiple, DivBounds DEF Whole
    <2> QED
      BY <2>1
  <1>3. a + 1 <= b
    <2> SUFFICES ASSUME b <= a PROVE FALSE
      BY <1>2
    <2>1. (a - b) * Stored \in Nat /\ a * Stored = b * Stored + (a - b) * Stored
      BY <1>1, <1>2
    <2> QED
      BY <1>1, <1>2, <2>1
  <1>4. (b - a - 1) * Stored \in Nat /\ b * Stored = a * Stored + Stored + (b - a - 1) * Stored
    BY <1>1, <1>2, <1>3
  <1> QED
    BY <1>1, <1>2, <1>4

\* The page takes payment for the subtotal without the discount and the tax on it.
LEMMA PayloadIsRight ==
    ASSUME IInv, MoneyInv, NEW e \in Errors, CanCompleteSale(e) PROVE SentOK(Payload(e))
  <1> DEFINE s == Subtotal(cart)
             d == sale.discountAmount
             tax == sale.taxRate
             x == TaxOn(s - d, tax, shownRates)
  <1>1. /\ sale.saleType \in {"CASH", "CREDIT"} /\ tax \in TaxRates \cup {NoTax}
        /\ Whole(d) /\ d \in Nat /\ shownRates \in [TaxRates -> Nat]
    BY DEF MoneyInv, Settled, Whole
  <1>2. s \in Nat /\ Whole(s)
    BY SubtotalIsWhole DEF IInv, WellFormed, MoneyInv, Whole
  <1>3. CartTotal(e) > 0
    BY DEF CanCompleteSale
  <1>4. CartTotal(e) = Positive(s + e, d) + TaxOn(Positive(s, d), tax, shownRates)
    BY DEF CartTotal
  <1>5. /\ e \in Int /\ -Stored < e /\ e < Stored /\ Stored \in Nat \ {0}
        /\ s > d => d + Stored <= s
        /\ s < d => s + Stored <= d
    BY <1>1, <1>2, ErrorsAreSmall, WholeApart, PointOfSaleAssumption
  <1> HIDE DEF s, d
  <1>6. s >= d /\ \E a \in Errors : CartTotal(e) = (s - d) + x + a
    <2>1. CASE s > d
      <3>1. Positive(s + e, d) = s + e - d /\ Positive(s, d) = s - d
        BY <1>1, <1>2, <1>5, <2>1 DEF Positive
      <3>2. x \in Nat
        <4>1. s - d \in Nat
          BY <1>1, <1>2, <2>1
        <4> QED
          BY <1>1, <4>1, TaxType
      <3> HIDE DEF x
      <3>3. CartTotal(e) = (s - d) + x + e
        BY <1>1, <1>2, <1>4, <1>5, <3>1, <3>2 DEF x
      <3> QED
        BY <1>1, <1>2, <2>1, <3>3
    <2>2. CASE s = d
      <3>1. Positive(s, d) = 0 /\ Positive(s + e, d) \in {0, e} /\ s - d = 0
        BY <1>1, <1>2, <1>5, <2>2 DEF Positive
      <3>2. x = 0 /\ TaxOn(Positive(s, d), tax, shownRates) = 0
        BY <1>1, <3>1, NoTaxOnNothing
      <3>3. 0 \in Errors
        BY PointOfSaleAssumption
      <3> HIDE DEF x
      <3> QED
        BY <1>1, <1>2, <1>4, <1>5, <2>2, <3>1, <3>2, <3>3
    <2>3. CASE s < d
      <3>1. Positive(s, d) = 0 /\ Positive(s + e, d) = 0
        BY <1>1, <1>2, <1>5, <2>3 DEF Positive
      <3>2. CartTotal(e) = 0
        BY <1>1, <1>4, <3>1, NoTaxOnNothing
      <3> QED
        BY <1>3, <3>2
    <2> QED
      BY <1>1, <1>2, <2>1, <2>2, <2>3
  <1>7. /\ Payload(e).items = cart /\ Payload(e).saleType = sale.saleType
        /\ Payload(e).taxRate = tax /\ Payload(e).discount = d
        /\ Payload(e).payment = CartTotal(e) /\ Payload(e).rates = shownRates
    BY DEF Payload, d
  <1> QED
    BY <1>1, <1>6, <1>7 DEF SentOK, s, d

\* With the same rates the server comes to the total that the page took payment for,
\* up to the errors of both, and these change it by at most one unit.
LEMMA TotalsAgree ==
    ASSUME IInv, MoneyInv, phase = "sent", request.rates = rates
    PROVE  /\ \E e \in Errors : Round(request.payment, Stored) = StoredTotal(request, e)
           /\ \A d \in Errors, e \in Errors :
                 StoredTotal(request, d) - StoredTotal(request, e) \in {-Stored, 0, Stored}
           /\ \A e \in Errors : StoredTotal(request, e) \in Int
  <1> DEFINE s == Subtotal(request.items)
             d == request.discount
             x == TaxOn(s - d, request.taxRate, rates)
  <1>1. PICK a \in Errors : Whole(s) /\ Whole(d) /\ s >= d /\ request.payment = (s - d) + x + a
    <2>1. SentOK(request)
      BY DEF MoneyInv
    <2>2. Whole(s)
      BY SubtotalIsWhole DEF IInv, MoneyInv
    <2> QED
      BY <2>1, <2>2 DEF SentOK
  <1>2. s \in Nat /\ d \in Nat /\ s - d \in Nat
    BY <1>1 DEF Whole
  <1>3. x \in Nat
    BY <1>2, TaxType DEF MoneyInv, SentOK
  <1>4. Round(s, Stored) = s /\ Round(d, Stored) = d
    BY <1>1, RoundWhole
  <1>5. \A e \in Errors : StoredTotal(request, e) = (s - d) + Round(x + e, Stored)
    BY <1>4 DEF StoredTotal
  <1> HIDE DEF x, s, d
  <1>6. Stored \in Nat \ {0} /\ Errors \subseteq Int
    BY PointOfSaleAssumption
  <1>7. \A e \in Errors : x + e \in Int /\ Round(x + e, Stored) \in Int
    BY <1>3, <1>6, RoundType
  <1>8. PICK k \in Int : s - d = k * Stored
    <2>1. s = (s \div Stored) * Stored /\ d = (d \div Stored) * Stored
          /\ s \div Stored \in Int /\ d \div Stored \in Int
      BY <1>1, <1>6, ModMultiple, DivBounds DEF Whole
    <2> DEFINE u == s \div Stored
               v == d \div Stored
    <2>2. s = u * Stored /\ d = v * Stored /\ u \in Int /\ v \in Int
      BY <2>1
    <2> HIDE DEF u, v
    <2>3. s - d = (u - v) * Stored /\ u - v \in Int
      BY <1>6, <2>2
    <2> QED
      BY <2>3
  <1>9. Round(request.payment, Stored) = StoredTotal(request, a)
    <2>1. request.payment = k * Stored + (x + a)
      BY <1>1, <1>2, <1>3, <1>6, <1>8
    <2>2. Round(k * Stored + (x + a), Stored) = k * Stored + Round(x + a, Stored)
      BY <1>6, <1>7, RoundShift, Zenon
    <2> QED
      BY <1>5, <1>8, <2>1, <2>2
  <1>10. ASSUME NEW b \in Errors, NEW e \in Errors
         PROVE  StoredTotal(request, b) - StoredTotal(request, e) \in {-Stored, 0, Stored}
    <2>1. b \in Int /\ e \in Int /\ -Stored < b - e /\ b - e < Stored
      BY <1>6, ErrorsAreSmall
    <2>2. -Stored < (x + b) - (x + e) /\ (x + b) - (x + e) < Stored
      BY <1>3, <1>6, <2>1
    <2>3. Round(x + b, Stored) - Round(x + e, Stored) \in {-Stored, 0, Stored}
      BY <1>6, <1>7, <2>2, RoundNear
    <2> QED
      BY <1>2, <1>5, <1>6, <1>7, <2>3
  <1> QED
    BY <1>2, <1>5, <1>7, <1>9, <1>10

\* Nothing, and the price of no item, are whole amounts.
LEMMA NothingIsWhole == Whole(0) /\ Whole(NoItem.unit_price)
  <1>1. Stored \in Nat \ {0}
    BY PointOfSaleAssumption
  <1> QED
    BY <1>1 DEF Whole, NoItem

\* The amounts of the page hold initially and after each step.
LEMMA MoneyInit == ASSUME WholeAmounts, Init PROVE MoneyInv
  <1>1. ResetSale \in Settled /\ ResetSale.discountAmount = 0
    BY PointOfSaleAssumption DEF ResetSale, AfterRender, FreshSale, Settled
  <1>2. \A p \in Products : cart[p] = NoItem /\ request.items[p] = NoItem
    BY DEF Init, EmptyCart, NoRequest
  <1>3. MoneyAgrees
    BY DEF Init, MoneyAgrees, NoReceipt
  <1> QED
    BY <1>1, <1>2, <1>3, NothingIsWhole, PointOfSaleAssumption
       DEF Init, MoneyInv, WholeAmounts

\* The cashier changes the prices in the cart only to what the page shows.
LEMMA EditKeepsMoney == ASSUME IInv, MoneyInv, EditCart PROVE MoneyInv'
  <1> USE DEF server, copies, page, bounds
  <1>1. /\ UNCHANGED <<catalog, rates, shown, shownRates, phase, request, receipt>>
        /\ sale' \in {sale, ResetSale}
    BY DEF EditCart, AddToCart, UpdateQuantity, RemoveItem, ClearCart
  <1>2. sale' \in Settled /\ Whole(sale.discountAmount)'
    <2>1. ResetSale \in Settled /\ ResetSale.discountAmount = 0
      BY PointOfSaleAssumption DEF ResetSale, AfterRender, FreshSale, Settled
    <2> QED
      BY <1>1, <2>1, NothingIsWhole DEF MoneyInv, Whole
  <1>3. ASSUME NEW p \in Products PROVE Whole(cart[p].unit_price)'
    <2>1. ASSUME NEW q \in Products, AddToCart(q) PROVE Whole(cart'[p].unit_price)
      <3> DEFINE line == IF InCart(q) THEN Line(q, cart[q].quantity + 1)
                         ELSE [quantity |-> 1, unit_price |-> shown[q].unit_price]
      <3>1. line.unit_price \in {cart[q].unit_price, shown[q].unit_price}
        BY DEF Line, IInv, WellFormed, Item
      <3>2. cart' = [cart EXCEPT ![q] = line]
        BY <2>1 DEF AddToCart
      <3> HIDE DEF line
      <3> QED
        BY <3>1, <3>2 DEF IInv, WellFormed, MoneyInv
    <2>2. ASSUME NEW q \in Products, NEW n \in 0 .. MaxUnits, UpdateQuantity(q, n)
          PROVE  Whole(cart'[p].unit_price)
      <3> DEFINE line == IF n = 0 THEN NoItem ELSE Line(q, n)
      <3>1. line.unit_price \in {cart[q].unit_price, NoItem.unit_price}
        BY DEF Line, IInv, WellFormed, Item
      <3>2. cart' = [cart EXCEPT ![q] = line]
        BY <2>2 DEF UpdateQuantity
      <3> HIDE DEF line
      <3> QED
        BY <3>1, <3>2, NothingIsWhole DEF IInv, WellFormed, MoneyInv
    <2>3. ASSUME NEW q \in Products, RemoveItem(q) PROVE Whole(cart'[p].unit_price)
      BY <2>3, NothingIsWhole DEF RemoveItem, IInv, WellFormed, MoneyInv
    <2>4. CASE ClearCart
      BY <2>4, NothingIsWhole DEF ClearCart, EmptyCart
    <2>5. Whole(cart'[p].unit_price)
      BY <2>1, <2>2, <2>3, <2>4 DEF EditCart
    <2> QED
      BY <2>5 DEF Whole
  <1> QED
    BY <1>1, <1>2, <1>3 DEF MoneyInv, MoneyAgrees, Whole

\* Settings change no request that has been sent.
LEMMA SettingsKeepMoney == ASSUME WholeAmounts, MoneyInv, Settings PROVE MoneyInv'
  <1>1. UNCHANGED <<catalog, rates, shown, shownRates, cart, phase, request, receipt>>
    BY DEF Settings, SetSaleType, SetCustomer, SetDueDate, SetReceived, SetDiscount,
           SetTaxRate, Set, server, copies, bounds
  <1>2. ASSUME NEW s \in Settled, Whole(s.discountAmount), sale' = AfterRender(s)
        PROVE  sale' \in Settled /\ Whole(sale'.discountAmount)
    BY <1>2, PointOfSaleAssumption DEF AfterRender, Settled
  <1>3. sale \in Settled /\ Whole(sale.discountAmount)
    BY DEF MoneyInv
  <1>4. sale' \in Settled /\ Whole(sale'.discountAmount)
    <2>1. ASSUME NEW type \in {"CASH", "CREDIT"}, SetSaleType(type) PROVE <1>4
      <3> DEFINE s == IF type = "CASH"
                      THEN [sale EXCEPT !.saleType = type, !.customer = FALSE, !.dueDate = FALSE]
                      ELSE [sale EXCEPT !.saleType = type]
      <3>1. s \in Settled /\ s.discountAmount = sale.discountAmount
        BY <1>3 DEF Settled
      <3>2. sale' = AfterRender(s)
        BY <2>1 DEF SetSaleType, Set
      <3> HIDE DEF s
      <3> QED
        BY <1>2, <1>3, <3>1, <3>2
    <2>2. ASSUME NEW given \in BOOLEAN, SetCustomer(given) \/ SetDueDate(given) PROVE <1>4
      <3>1. PICK s \in {[sale EXCEPT !.customer = given], [sale EXCEPT !.dueDate = given]} :
                sale' = AfterRender(s)
        BY <2>2 DEF SetCustomer, SetDueDate, Set
      <3>2. s \in Settled /\ s.discountAmount = sale.discountAmount
        BY <1>3 DEF Settled
      <3> QED
        BY <1>2, <1>3, <3>1, <3>2
    <2>3. ASSUME NEW amount \in Amounts, SetReceived(amount) PROVE <1>4
      <3> DEFINE s == [sale EXCEPT !.amountReceived = amount]
      <3>1. s \in Settled /\ s.discountAmount = sale.discountAmount
        BY <1>3, PointOfSaleAssumption DEF Settled
      <3>2. sale' = AfterRender(s)
        BY <2>3 DEF SetReceived, Set
      <3> HIDE DEF s
      <3> QED
        BY <1>2, <1>3, <3>1, <3>2
    <2>4. ASSUME NEW amount \in Discounts, SetDiscount(amount) PROVE <1>4
      <3> DEFINE s == [sale EXCEPT !.discountAmount = amount]
      <3>1. s \in Settled /\ s.discountAmount = amount /\ Whole(amount)
        BY <1>3, PointOfSaleAssumption DEF Settled, WholeAmounts
      <3>2. sale' = AfterRender(s)
        BY <2>4 DEF SetDiscount, Set
      <3> HIDE DEF s
      <3> QED
        BY <1>2, <3>1, <3>2
    <2>5. ASSUME NEW tax \in TaxRates \cup {NoTax}, SetTaxRate(tax) PROVE <1>4
      <3> DEFINE s == [sale EXCEPT !.taxRate = tax]
      <3>1. s \in Settled /\ s.discountAmount = sale.discountAmount
        BY <1>3 DEF Settled
      <3>2. sale' = AfterRender(s)
        BY <2>5 DEF SetTaxRate, Set
      <3> HIDE DEF s
      <3> QED
        BY <1>2, <1>3, <3>1, <3>2
    <2> QED
      BY <2>1, <2>2, <2>3, <2>4, <2>5 DEF Settings
  <1> QED
    BY <1>1, <1>4 DEF MoneyInv, MoneyAgrees, Whole

\* A new request holds what the page has worked out.
LEMMA SaleKeepsMoney == ASSUME IInv, MoneyInv, CompleteSale PROVE MoneyInv'
  <1>1. PICK e \in Errors :
             /\ phase' = "sent" /\ request' = Payload(e) /\ CanCompleteSale(e)
             /\ UNCHANGED <<catalog, rates, shown, shownRates, cart, sale, receipt>>
    BY DEF CompleteSale, server, copies, page, bounds
  <1>2. SentOK(request)'
    <2>1. SentOK(request')
      BY <1>1, PayloadIsRight
    <2> QED
      BY <2>1 DEF SentOK, Subtotal, TaxOn, Whole
  <1>3. request'.items = cart
    BY <1>1 DEF Payload
  <1> QED
    BY <1>1, <1>2, <1>3 DEF MoneyInv, MoneyAgrees, Whole

\* The server stores the amounts of the request.
LEMMA ServerKeepsMoney == ASSUME IInv, MoneyInv, ServerSells PROVE MoneyInv'
  <1>1. /\ phase = "sent" /\ phase' = "stored"
        /\ UNCHANGED <<rates, shown, shownRates, cart, sale, request>>
    BY DEF ServerSells, copies, page
  <1> DEFINE total(e) == StoredTotal(request, e)
             paid     == Round(request.payment, Stored)
             cash     == Round(request.received, Stored)
  <1>2. PICK e \in Errors :
             /\ receipt'.total = total(e) /\ receipt'.paid = paid
             /\ receipt'.saleType = request.saleType
             /\ request.saleType = "CASH" => receipt'.received = cash /\ cash >= total(e)
             /\ receipt'.current = (request.rates = rates)
             /\ receipt'.tied = Tied(request)
    BY DEF ServerSells, Sufficient
  <1>3. ASSUME NEW p \in Products PROVE Whole(catalog'[p].unit_price)
    <2>1. catalog'[p] = [catalog[p] EXCEPT !.quantity_on_hand =
                            catalog[p].quantity_on_hand - request.items[p].quantity]
      BY DEF ServerSells
    <2>2. catalog'[p].unit_price = catalog[p].unit_price
      BY <2>1 DEF IInv, Product
    <2> QED
      BY <2>2 DEF MoneyInv
  <1>4. request.rates = rates => /\ paid = total(e) \/ Tied(request)
                                 /\ paid - total(e) \in {-Stored, 0, Stored}
    <2> SUFFICES ASSUME request.rates = rates PROVE /\ paid = total(e) \/ Tied(request)
                                                    /\ paid - total(e) \in {-Stored, 0, Stored}
      OBVIOUS
    <2>1. PICK d \in Errors : paid = total(d)
      BY <1>1, TotalsAgree
    <2>2. total(d) - total(e) \in {-Stored, 0, Stored}
      BY <1>1, TotalsAgree
    <2>3. ~ Tied(request) => total(d) = total(0) /\ total(e) = total(0)
      BY DEF Tied
    <2> HIDE DEF total, paid
    <2> QED
      BY <2>1, <2>2, <2>3
  <1> HIDE DEF total, paid, cash
  <1>5. MoneyAgrees'
    <2>1. receipt'.current => request.rates = rates
      BY <1>2, Zenon
    <2>2. receipt'.current => /\ receipt'.paid = receipt'.total \/ receipt'.tied
                              /\ receipt'.paid - receipt'.total \in {-Stored, 0, Stored}
      <3>1. receipt'.paid = paid /\ receipt'.total = total(e)
            /\ (Tied(request) => receipt'.tied)
        BY <1>2, Zenon
      <3> QED
        BY <1>4, <2>1, <3>1
    <2>3. receipt'.saleType = "CASH" => receipt'.received >= receipt'.total
      BY <1>2
    <2> QED
      BY <2>2, <2>3 DEF MoneyAgrees
  <1> QED
    BY <1>1, <1>3, <1>5 DEF MoneyInv, Whole

LEMMA MoneyStep ==
    ASSUME WholeAmounts, IInv, MoneyInv, [Next]_vars PROVE MoneyInv'
  <1> USE DEF server, copies, page, bounds
  <1>1. CASE ServerRefuses \/ SaleSucceeds \/ SaleFails \/ AnswerIsLost
    <2>1. /\ UNCHANGED <<catalog, rates, shown, shownRates, receipt>> /\ phase' # "sent"
          /\ cart' \in {cart, EmptyCart} /\ sale' \in {sale, ResetSale}
          /\ request' \in {request, NoRequest}
      BY <1>1 DEF ServerRefuses, SaleSucceeds, SaleFails, AnswerIsLost
    <2>2. /\ ResetSale \in Settled /\ ResetSale.discountAmount = 0
          /\ \A p \in Products : EmptyCart[p] = NoItem /\ NoRequest.items[p] = NoItem
      BY PointOfSaleAssumption
         DEF ResetSale, AfterRender, FreshSale, Settled, EmptyCart, NoRequest
    <2>3. \A p \in Products : Whole(cart'[p].unit_price) /\ Whole(request'.items[p].unit_price)
      BY <2>1, <2>2, NothingIsWhole DEF MoneyInv
    <2>4. sale' \in Settled /\ Whole(sale'.discountAmount)
      BY <2>1, <2>2, NothingIsWhole DEF MoneyInv
    <2> QED
      BY <2>1, <2>3, <2>4 DEF MoneyInv, MoneyAgrees, Whole
  <1>2. CASE Elsewhere
    <2>1. UNCHANGED <<cart, sale, phase, request, receipt>>
      BY <1>2 DEF Elsewhere, OtherSale, NewPrice, NewRate, RefetchProducts, RefetchRates
    <2>2. /\ \A p \in Products : Whole(catalog'[p].unit_price) /\ Whole(shown'[p].unit_price)
          /\ rates' \in [TaxRates -> Nat] /\ shownRates' \in [TaxRates -> Nat]
      <3>1. ASSUME NEW p \in Products, OtherSale(p) PROVE <2>2
        <4>1. /\ UNCHANGED <<rates, shown, shownRates>>
              /\ catalog' = [catalog EXCEPT ![p].quantity_on_hand = @ - 1]
          BY <3>1 DEF OtherSale
        <4>2. \A q \in Products : catalog'[q].unit_price = catalog[q].unit_price
          BY <4>1 DEF IInv, Product
        <4> QED
          BY <4>1, <4>2 DEF MoneyInv
      <3>2. ASSUME NEW p \in Products, NEW price \in Prices, NewPrice(p, price) PROVE <2>2
        <4>1. /\ UNCHANGED <<rates, shown, shownRates>>
              /\ catalog' = [catalog EXCEPT ![p].unit_price = price]
          BY <3>2 DEF NewPrice
        <4>2. \A q \in Products : catalog'[q].unit_price \in {catalog[q].unit_price, price}
          BY <4>1 DEF IInv, Product
        <4> QED
          BY <4>1, <4>2 DEF MoneyInv, WholeAmounts
      <3>3. ASSUME NEW tax \in TaxRates, NewRate(tax) PROVE <2>2
        <4>1. /\ UNCHANGED <<catalog, shown, shownRates>>
              /\ rates' = [rates EXCEPT ![tax] = rates[tax] * 2]
          BY <3>3 DEF NewRate
        <4>2. rates[tax] * 2 \in Nat
          BY DEF MoneyInv
        <4> QED
          BY <4>1, <4>2 DEF MoneyInv
      <3>4. CASE RefetchProducts \/ RefetchRates
        BY <3>4 DEF RefetchProducts, RefetchRates, MoneyInv
      <3> QED
        BY <1>2, <3>1, <3>2, <3>3, <3>4 DEF Elsewhere
    <2> QED
      BY <2>1, <2>2 DEF MoneyInv, MoneyAgrees, Whole
  <1>3. CASE UNCHANGED vars
    BY <1>3 DEF vars, MoneyInv, MoneyAgrees, Whole
  <1> QED
    BY <1>1, <1>2, <1>3, EditKeepsMoney, SettingsKeepMoney, SaleKeepsMoney, ServerKeepsMoney
       DEF Next, Answer

\* MoneyAgrees: while prices and discounts have no more digits than the database
\* stores, a sale made with the tax rates the server uses is stored with the total the
\* page took payment for, or one unit beside it where the errors of floating-point
\* arithmetic, less than half a unit each, decide how the tax is rounded; and the cash
\* received covers it.
THEOREM MoneyAlwaysBalances == WholeAmounts => (Spec => []MoneyAgrees)
  <1> SUFFICES ASSUME WholeAmounts PROVE Spec => []MoneyAgrees
    OBVIOUS
  <1>1. Init => MoneyInv
    BY MoneyInit
  <1>2. IInv /\ MoneyInv /\ [Next]_vars => MoneyInv'
    BY MoneyStep
  <1>3. MoneyInv => MoneyAgrees
    BY DEF MoneyInv
  <1> QED
    BY <1>1, <1>2, <1>3, InvariantHolds, PTL DEF Spec
=============================================================================
