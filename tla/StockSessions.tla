---------------------------- MODULE StockSessions ----------------------------
(***************************************************************************)
(* The stock path of the FastAPI backend: sales_service, returns_service   *)
(* and inventory_service, served by concurrent request workers.            *)
(*                                                                         *)
(* A worker serves one request with one SQLAlchemy session.  The session   *)
(* copies rows into its identity map when it first reads them, the service *)
(* works on the copies, and commit writes the changed columns back as      *)
(* absolute values.  Nothing locks or versions the rows in between: the    *)
(* database runs READ COMMITTED SNAPSHOT, so a read sees what is committed *)
(* at that moment and an UPDATE overwrites whatever it finds.              *)
(*                                                                         *)
(* Each action is one database read, or the processing of one line with    *)
(* the alert query it makes, or the commit of the whole unit of work.  The *)
(* UPDATEs flushed shortly before a commit are part of it: other readers   *)
(* do not see them, and other writers wait for that commit.                *)
(*                                                                         *)
(* In production the UPDATE of a quantity also fires the low-stock trigger *)
(* of the database (LowStockTrigger); the SQLite databases of development  *)
(* and of the tests have no trigger.                                       *)
(*                                                                         *)
(* A definition named Operator_Change is a variant of Operator with a      *)
(* plausible mistake in it; no specification uses it.  It is there to show *)
(* that a property notices the mistake (README, "Mutants").                *)
(***************************************************************************)
EXTENDS Journal, LowStockTrigger

CONSTANTS
    Workers,        \* the request handlers running at the same time
    Products,       \* the catalogue
    Services,       \* the products that hold no stock (is_service)
    Threshold,      \* products.low_stock_threshold
    InitStock,      \* quantity on hand to begin with
    Trigger,        \* does the database have TRG_inventory_low_stock
    Scale,          \* the sale quantity that stands for one whole unit
    Requests,       \* the requests clients send
    MaxRequests     \* bound: requests served in a behaviour

VARIABLES
    onHand,         \* inventory.quantity_on_hand
    ledger,         \* inventory_transactions of a product, oldest first
    alerts,         \* low_stock_alerts of a product: TRUE while OPEN
    sales,          \* the sales, by sale_id
    phase,          \* where a worker is in its request
    uow,            \* the session of a worker: its identity map and pending rows
    served          \* how many requests have been received

db   == <<onHand, ledger, alerts, sales>>
vars == <<onHand, ledger, alerts, sales, phase, uow, served>>

\* The promise this path is compared with.
Ledger == INSTANCE StockLedger
-----------------------------------------------------------------------------
\* Requests, sales and sessions
Status == {"COMPLETED", "VOIDED", "REFUNDED"}

\* A sale item; return_items is the quantity of its return_items rows.
Item == [product : Products, quantity : Nat, returned_qty : Nat,
         is_returned : BOOLEAN, return_items : Nat]
Sale == [status : Status, items : Seq(Item), total_amount : Int]

\* A line names a product (sale, restock, adjustment) or a sale item (return);
\* sale and return quantities count fractions of 1/Scale, the others whole units.
Line == [product : Products, item : Nat, quantity : Int]

Ops == {"SALE", "VOID", "RETURN", "RESTOCK", "COUNT", "CHANGE"}

\* adjustment: what tax adds to and a header discount takes from a sale's total.
Request == [op : Ops, sale : Nat, lines : Seq(Line), adjustment : Int]

\* What the request schemas let through: at least one line, sold and returned
\* quantities above zero, counts not below.
Accepted(request) ==
    /\ request.op # "VOID" => request.lines # <<>>
    /\ \A k \in DOMAIN request.lines :
          /\ request.op \in {"SALE", "RETURN"} => request.lines[k].quantity > 0
          /\ request.op = "COUNT" => request.lines[k].quantity >= 0
    /\ request.op \in {"RESTOCK", "COUNT", "CHANGE"} => Len(request.lines) = 1

ASSUME SessionsAssumption ==
    /\ Services \subseteq Products
    /\ Threshold \in [Products -> Nat]
    /\ InitStock \in [Products -> Nat]
    /\ Trigger \in BOOLEAN
    /\ Scale \in Nat \ {0}
    /\ Requests \subseteq Request
    /\ \A request \in Requests : Accepted(request)
    /\ MaxRequests \in Nat

Phases == {"idle", "products", "sale", "items", "lines"}

\* int(quantity): a session moves whole units only.
Whole(q) == q \div Scale

NewSession(request) ==
    [op |-> request.op, sale |-> request.sale, lines |-> request.lines,
     adjustment |-> request.adjustment,
     next     |-> 1,                               \* the line to process
     seen     |-> {},                              \* products in the identity map
     base     |-> [p \in Products |-> 0],          \* the stock as it was read
     stock    |-> [p \in Products |-> 0],          \* the stock to be written
     rows     |-> [p \in Products |-> <<>>],       \* pending inventory_transactions
     raised   |-> [p \in Products |-> 0],          \* pending new alerts
     resolved |-> [p \in Products |-> {}],         \* alerts to be marked RESOLVED
     loaded   |-> <<>>,                            \* sale items as they were read
     items    |-> <<>>,                            \* sale items to be written
     status   |-> "COMPLETED",                     \* sale status as it was read
     total    |-> 0,                               \* sale total as it was read
     amount   |-> 0]                               \* subtotal, or refund so far

NoSession == NewSession([op |-> "SALE", sale |-> 0, lines |-> <<>>, adjustment |-> 0])

Init == /\ onHand = InitStock
        /\ ledger = [p \in Products |-> <<>>]
        /\ alerts = [p \in Products |-> <<>>]
        /\ sales = <<>>
        /\ phase = [w \in Workers |-> "idle"]
        /\ uow = [w \in Workers |-> NoSession]
        /\ served = 0
-----------------------------------------------------------------------------
\* What the services do to a session

\* session.get(Product) joins the inventory row: the first read of a product
\* copies its stock, a later one finds it in the identity map.
Load(u, ps) ==
    LET new == ps \ u.seen IN
    [u EXCEPT !.seen  = @ \cup ps,
              !.base  = [p \in Products |-> IF p \in new THEN onHand[p] ELSE u.base[p]],
              !.stock = [p \in Products |-> IF p \in new THEN onHand[p] ELSE u.stock[p]]]

\* The journal row of a movement: the snapshots around the change.
JournalRow_ReadLate(u, p, kind, change) == Movement(kind, change, u.stock[p] + change)
JournalRow(u, p, kind, change) == Movement(kind, change, u.stock[p])

\* Set quantity_on_hand on the copy and add the journal row.
Move(u, p, kind, change) ==
    [u EXCEPT !.stock[p] = @ + change,
              !.rows[p]  = Append(@, JournalRow(u, p, kind, change))]

\* A movement that would leave less than nothing is refused.
Enough_Unchecked(u, p, change) == TRUE
Enough(u, p, change) == u.stock[p] + change >= 0

LowOnStock_Below(u, p) == u.stock[p] < Threshold[p]
LowOnStock(u, p) == u.stock[p] <= Threshold[p]

\* The UPDATE of quantity_on_hand: an absolute value, and only if it changed.
NewStock_Relative(u, p) == onHand[p] + u.stock[p] - u.base[p]
NewStock(u, p) == IF u.stock[p] # u.base[p] THEN u.stock[p] ELSE onHand[p]

\* The alert rows as that UPDATE leaves them: the trigger sees the quantity it
\* replaces, not the one the session had read.
Triggered(u) ==
    [p \in Products |-> IF Trigger /\ u.stock[p] # u.base[p]
                        THEN AfterUpdate(alerts[p], onHand[p], u.stock[p], Threshold[p])
                        ELSE alerts[p]]

\* Re-evaluate the alert of p after a movement.  The query takes any OPEN row; it
\* does not see the rows this session is still to insert (autoflush is off).
HandleLowStock(u, p, rows) ==
    IF LowOnStock(u, p)
    THEN {IF OpenIn(rows) = {} THEN [u EXCEPT !.raised[p] = @ + 1] ELSE u}
    ELSE IF OpenIn(rows) = {} THEN {u}
         ELSE {[u EXCEPT !.resolved[p] = @ \cup {a}] : a \in OpenIn(rows)}

Continue(w, u, ph) == /\ uow' = [uow EXCEPT ![w] = u]
                      /\ phase' = [phase EXCEPT ![w] = ph]

Close(w) == /\ Continue(w, NoSession, "idle")
            /\ UNCHANGED served

\* The alert rows of a product once those in done are RESOLVED and n are added.
WrittenAlerts(rows, n, done) ==
    [a \in 1 .. Len(rows) + n |->
        IF a \in DOMAIN rows THEN rows[a] /\ a \notin done ELSE TRUE]

\* The UPDATEs and INSERTs of inventory, inventory_transactions and
\* low_stock_alerts, in that order.
WriteStock(u) ==
    /\ onHand' = [p \in Products |-> NewStock(u, p)]
    /\ ledger' = [p \in Products |-> ledger[p] \o u.rows[p]]
    /\ alerts' = [p \in Products |->
                     WrittenAlerts(Triggered(u)[p], u.raised[p], u.resolved[p])]

\* Move stock for the current line of w, then go on to the next line; products
\* that are services are left alone.
MoveLine(w, u, p, kind, change) ==
    /\ IF p \in Services
       THEN Continue(w, [u EXCEPT !.next = @ + 1], "lines")
       ELSE /\ Enough(u, p, change)
            /\ \E v \in HandleLowStock(Move(u, p, kind, change), p, alerts[p]) :
                  Continue(w, [v EXCEPT !.next = @ + 1], "lines")
    /\ UNCHANGED <<db, served>>

AtLine(w, ops) == /\ phase[w] = "lines"
                  /\ uow[w].op \in ops
                  /\ uow[w].next <= Len(uow[w].lines)

LinesDone(w, ops) == /\ phase[w] = "lines"
                     /\ uow[w].op \in ops
                     /\ uow[w].next > Len(uow[w].lines)

CurrentLine(w) == uow[w].lines[uow[w].next]
-----------------------------------------------------------------------------
\* Serving a request

\* get_db opens a session for a request.
Receive(w) ==
    /\ phase[w] = "idle"
    /\ served < MaxRequests
    /\ \E request \in Requests :
          Continue(w, NewSession(request),
                   IF request.op \in {"VOID", "RETURN"} THEN "sale" ELSE "products")
    /\ served' = served + 1
    /\ UNCHANGED db

\* Read the product of the next line.  A sale checks that there is enough of it;
\* restocking and adjusting a service is refused.
LoadProduct(w) ==
    LET line == CurrentLine(w)
        p    == line.product
        u    == Load(uow[w], {p}) IN
    /\ phase[w] = "products"
    /\ uow[w].op = "SALE" =>
          p \in Services \/ u.stock[p] * Scale >= line.quantity
    /\ uow[w].op # "SALE" => p \notin Services
    /\ IF uow[w].next < Len(uow[w].lines)
       THEN Continue(w, [u EXCEPT !.next = @ + 1], "products")
       ELSE Continue(w, [u EXCEPT !.next = 1], "lines")
    /\ UNCHANGED <<db, served>>

\* SELECT the sale: its status and total.
LoadSale(w) ==
    LET s == uow[w].sale IN
    /\ phase[w] = "sale"
    /\ s \in DOMAIN sales
    /\ Continue(w, [uow[w] EXCEPT !.status = sales[s].status,
                                  !.total  = sales[s].total_amount], "items")
    /\ UNCHANGED <<db, served>>

\* Only a COMPLETED sale can be voided or returned.
Alterable_Unrefunded(u) == u.status # "REFUNDED"
Alterable(u) == u.status = "COMPLETED"

\* SELECT its items, joined with their products and stock, and then check the
\* status.  A void walks over every item, a return over the lines of the request.
LoadItems(w) ==
    LET items == sales[uow[w].sale].items
        u     == Load(uow[w], {items[k].product : k \in DOMAIN items}) IN
    /\ phase[w] = "items"
    /\ Alterable(uow[w])
    /\ Continue(w, [u EXCEPT !.loaded = items, !.items = items,
                             !.lines = IF uow[w].op = "RETURN" THEN @
                                       ELSE [k \in DOMAIN items |->
                                                [product  |-> items[k].product,
                                                 item     |-> k,
                                                 quantity |-> items[k].quantity]]],
                "lines")
    /\ UNCHANGED <<db, served>>
-----------------------------------------------------------------------------
\* Processing a line

Sold_OneUnit(line) == -1
Sold(line) == -Whole(line.quantity)

\* create_sale adds the item (built at commit) and deducts its stock.
DeductStock(w) ==
    /\ AtLine(w, {"SALE"})
    /\ LET line == CurrentLine(w) IN
       MoveLine(w, [uow[w] EXCEPT !.amount = @ + line.quantity], line.product,
                "SALE", Sold(line))

\* void_sale restores the quantity sold on the item.
RestoreVoided(w) ==
    /\ AtLine(w, {"VOID"})
    /\ MoveLine(w, uow[w], CurrentLine(w).product, "VOID", Whole(CurrentLine(w).quantity))

\* What can still be returned of an item, and the item with q more returned.
Returnable_Sold(item) == item.quantity
Returnable(item) == item.quantity - item.returned_qty

BookReturn_Overwrite(item, q) ==
    [item EXCEPT !.returned_qty = q,
                 !.is_returned  = @ \/ q >= item.quantity,
                 !.return_items = @ + q]
BookReturn(item, q) ==
    [item EXCEPT !.returned_qty = @ + q,
                 !.is_returned  = @ \/ item.returned_qty + q >= item.quantity,
                 !.return_items = @ + q]

\* process checks a return line against what the item has left, books it on the
\* item and restores the stock.
ReturnLine(w) ==
    /\ AtLine(w, {"RETURN"})
    /\ LET line == CurrentLine(w)
           item == uow[w].items[line.item] IN
       /\ line.item \in DOMAIN uow[w].items
       /\ line.quantity <= Returnable(item)
       /\ MoveLine(w, [uow[w] EXCEPT !.amount = @ + line.quantity,
                                     !.items[line.item] = BookReturn(item, line.quantity)],
                   item.product, "RETURN", Whole(line.quantity))

\* restock adds a positive quantity.
Restock(w) ==
    /\ AtLine(w, {"RESTOCK"})
    /\ CurrentLine(w).quantity > 0
    /\ MoveLine(w, uow[w], CurrentLine(w).product, "RESTOCK", CurrentLine(w).quantity)

\* adjust takes a counted quantity, or a signed change.  It flushes the UPDATE
\* before it looks at the alerts, so it sees what the trigger did, and holds the
\* row locked from there to its commit.
Adjust(w) ==
    /\ AtLine(w, {"COUNT", "CHANGE"})
    /\ LET p      == CurrentLine(w).product
           q      == CurrentLine(w).quantity
           change == IF uow[w].op = "COUNT" THEN q - uow[w].stock[p] ELSE q
           u      == Move(uow[w], p, "ADJUSTMENT", change) IN
       /\ Enough(uow[w], p, change)
       /\ \E v \in HandleLowStock(u, p, Triggered(u)[p]) : WriteStock(v)
    /\ UNCHANGED sales
    /\ Close(w)
-----------------------------------------------------------------------------
\* Commit and rollback

CommitRestock(w) ==
    /\ LinesDone(w, {"RESTOCK"})
    /\ WriteStock(uow[w])
    /\ UNCHANGED sales
    /\ Close(w)

\* The new sale and its items; a negative total fails its CHECK constraint.
CommitSale(w) ==
    LET u == uow[w] IN
    /\ LinesDone(w, {"SALE"})
    /\ u.amount + u.adjustment >= 0
    /\ WriteStock(u)
    /\ sales' = Append(sales,
          [status       |-> "COMPLETED",
           items        |-> [k \in DOMAIN u.lines |->
                                [product      |-> u.lines[k].product,
                                 quantity     |-> u.lines[k].quantity,
                                 returned_qty |-> 0,
                                 is_returned  |-> FALSE,
                                 return_items |-> 0]],
           total_amount |-> u.amount + u.adjustment])
    /\ Close(w)

CommitVoid(w) ==
    /\ LinesDone(w, {"VOID"})
    /\ WriteStock(uow[w])
    /\ sales' = [sales EXCEPT ![uow[w].sale].status = "VOIDED"]
    /\ Close(w)

WriteItem_NoRows(item, old, new) ==
    [item EXCEPT !.returned_qty = new.returned_qty, !.is_returned = new.is_returned]

\* An item as the return leaves it: the columns this session changed, and the
\* return_items rows it inserts.
WriteItem(item, old, new) ==
    [item EXCEPT
        !.returned_qty = IF new.returned_qty # old.returned_qty THEN new.returned_qty ELSE @,
        !.is_returned  = IF new.is_returned # old.is_returned THEN new.is_returned ELSE @,
        !.return_items = @ + (new.return_items - old.return_items)]

\* The sale becomes REFUNDED when every item is returned and this return alone
\* pays back at least the sale's total.
Refunded(u) == /\ \A k \in DOMAIN u.items : u.items[k].is_returned
               /\ u.amount >= u.total

CommitReturn(w) ==
    LET u    == uow[w]
        sale == sales[u.sale] IN
    /\ LinesDone(w, {"RETURN"})
    /\ WriteStock(u)
    /\ sales' = [sales EXCEPT ![u.sale] =
          [sale EXCEPT
              !.items  = [k \in DOMAIN sale.items |->
                             WriteItem(sale.items[k], u.loaded[k], u.items[k])],
              !.status = IF Refunded(u) THEN "REFUNDED" ELSE @]]
    /\ Close(w)

\* Any exception - a failed check, a violated constraint, a lock timeout, a lost
\* connection - rolls the session back.
Rollback(w) ==
    /\ phase[w] # "idle"
    /\ UNCHANGED db
    /\ Close(w)

\* The bound on requests is used up and every request is answered.
Quiet == /\ served = MaxRequests
         /\ \A w \in Workers : phase[w] = "idle"
         /\ UNCHANGED vars

Next == \/ \E w \in Workers :
              \/ Receive(w) \/ LoadProduct(w) \/ LoadSale(w) \/ LoadItems(w)
              \/ DeductStock(w) \/ RestoreVoided(w) \/ ReturnLine(w)
              \/ Restock(w) \/ Adjust(w)
              \/ CommitRestock(w) \/ CommitSale(w) \/ CommitVoid(w) \/ CommitReturn(w)
              \/ Rollback(w)
        \/ Quiet

Spec == Init /\ [][Next]_vars
=============================================================================
