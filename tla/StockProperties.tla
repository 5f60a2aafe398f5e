--------------------------- MODULE StockProperties ---------------------------
(***************************************************************************)
(* What has to be true of the backend's stock path (StockSessions), first  *)
(* whatever the number of workers, then for requests served one at a time. *)
(***************************************************************************)
EXTENDS StockSessions, FiniteSets, FiniteSetsExt

\* A session between two requests, or at work on one.
Session ==
    [op : Ops, sale : Nat, lines : Seq(Line), adjustment : Int, next : Nat \ {0},
     seen : SUBSET Products, base : [Products -> Nat], stock : [Products -> Nat],
     rows : [Products -> Seq(Row)], raised : [Products -> Nat],
     resolved : [Products -> SUBSET Nat], loaded : Seq(Item), items : Seq(Item),
     status : Status, total : Int, amount : Int]

\* The types of the stored rows and of the sessions.  No stored or pending
\* quantity on hand is ever negative (CK_inventory_quantity_non_negative never
\* has to reject a write of the backend).
TypeOK ==
    /\ onHand \in [Products -> Nat]
    /\ ledger \in [Products -> Seq(Row)]
    /\ alerts \in [Products -> Seq(BOOLEAN)]
    /\ sales \in Seq(Sale)
    /\ phase \in [Workers -> Phases]
    /\ uow \in [Workers -> Session]
    /\ served \in 0 .. MaxRequests

-----------------------------------------------------------------------------
\* Sums over the journal and over the items sold

\* The units the journal of p has moved under one of the given kinds.
Journaled(p, kinds) == UnitsMoved(ledger[p], kinds)

SaleItem(i) == sales[i[1]].items[i[2]]

\* The sale items of a product, as pairs of a sale and a position in it.
ItemsOf(p) == {i \in UNION {{s} \X DOMAIN sales[s].items : s \in DOMAIN sales} :
                  SaleItem(i).product = p}

\* The whole units sold on a set of sale items, and the quantity of their return rows.
UnitsOn(items) == SumFunctionOnSet([i \in items |-> Whole(SaleItem(i).quantity)], items)
ReturnedOn(items) == SumFunctionOnSet([i \in items |-> SaleItem(i).return_items], items)

-----------------------------------------------------------------------------
\* Any number of workers

\* The newest journal row that moved anything shows the quantity on hand, also
\* after requests that raced: whoever committed last wrote both (deduct_stock,
\* restore_stock, restock and adjust never change one without the other).  Rows
\* that moved nothing (a count that confirms the stock, a sale of less than a
\* unit) are written without an UPDATE, so they may show a stale quantity.
LastMoveIsStock ==
    \A p \in Products :
        LET moves == {i \in DOMAIN ledger[p] : ledger[p][i].change # 0} IN
        moves # {} => ledger[p][Max(moves)].after = onHand[p]

\* Every unit on a stored sale item has left the journal as a SALE movement, and
\* no SALE movement is without its item: header, items and stock commit together.
SoldStockIsJournaled ==
    \A p \in Products \ Services :
        Journaled(p, {"SALE"}) = -UnitsOn(ItemsOf(p))

\* No sale item is ever booked as returned beyond what was sold, even when two
\* returns of it race: each writes a value it has checked against the quantity.
ReturnedWithinSold ==
    \A s \in DOMAIN sales : \A k \in DOMAIN sales[s].items :
        sales[s].items[k].returned_qty <= sales[s].items[k].quantity

-----------------------------------------------------------------------------
\* Requests served one at a time (a single worker)

\* The backend's stock path does what StockLedger promises.
LedgerSpec == Ledger!Spec

\* The journal leads from the opening stock to the quantity on hand without a
\* gap: no movement starts from a quantity another request had replaced.
LedgerChains == Ledger!LedgerChains

\* Once a product has moved, it has an OPEN low-stock alert exactly while its
\* quantity on hand is at or below its threshold (inventory_service raises and
\* resolves next to the trigger, which resolves all that the service leaves OPEN).
LowStockIsAlerted ==
    \A p \in Products \ Services : ledger[p] # <<>> =>
        (OpenIn(alerts[p]) # {} <=> onHand[p] <= Threshold[p])

\* A product never has two OPEN alerts.
OneOpenAlert == \A p \in Products : Cardinality(OpenIn(alerts[p])) <= 1

\* The return rows of an item add up to what the item says was returned.
ReturnsAddUp ==
    \A s \in DOMAIN sales : \A k \in DOMAIN sales[s].items :
        sales[s].items[k].return_items = sales[s].items[k].returned_qty

\* The return rows of an item never add up to more than was sold (BR-RET-02).
ReturnItemsWithinSold ==
    \A s \in DOMAIN sales : \A k \in DOMAIN sales[s].items :
        sales[s].items[k].return_items <= sales[s].items[k].quantity

\* Every returned quantity is restored to stock (BR-INV-03).
ReturnsRestoreStock ==
    \A p \in Products \ Services :
        Journaled(p, {"RETURN"}) = Whole(ReturnedOn(ItemsOf(p)))

\* A void puts back what the voided sale had taken, once.
VoidsRestoreOnce ==
    \A p \in Products \ Services :
        Journaled(p, {"VOID"}) =
            UnitsOn({i \in ItemsOf(p) : sales[i[1]].status = "VOIDED"})

\* Returns and voids together never put back more of a product than sales took.
RestoredWithinSold ==
    \A p \in Products \ Services : Journaled(p, {"SALE", "RETURN", "VOID"}) <= 0

\* void_sale also takes a sale that was returned in part, and restores what was sold:
\* RestoredWithinSold fails for no other reason.
ReturnsOnVoided ==
    \E s \in DOMAIN sales : /\ sales[s].status = "VOIDED"
                           /\ \E k \in DOMAIN sales[s].items : sales[s].items[k].return_items > 0

RestoredUnlessVoided == ReturnsOnVoided \/ RestoredWithinSold

\* No return is booked on a sale that is voided (BR-RET-01).
NoReturnOnVoided ==
    [][\A s \in DOMAIN sales : sales[s].status = "VOIDED" =>
          \A k \in DOMAIN sales[s].items :
              sales'[s].items[k].return_items = sales[s].items[k].return_items]_sales

-----------------------------------------------------------------------------
\* The invariant behind the properties of any number of workers

\* The last of the rows that moved anything ends at q, and some row did.
LastMove(rows, q) ==
    \E i \in DOMAIN rows : /\ rows[i].change # 0
                           /\ rows[i].after = q
                           /\ \A j \in DOMAIN rows : j > i => rows[j].change = 0

NoMove(rows) == \A i \in DOMAIN rows : rows[i].change = 0

\* A session that has processed no line has nothing to write.
NothingPending(u) ==
    \A p \in Products : /\ u.rows[p] = <<>> /\ u.stock[p] = u.base[p]
                        /\ u.raised[p] = 0 /\ u.resolved[p] = {}

\* What a session has pending: rows that lead from the stock it read to the stock
\* it will write, all of them in the direction of its operation, so that it writes
\* the stock exactly if one of them moved something.
ChainsOK(u) == \A p \in Products : Chained(u.base[p], u.rows[p], u.stock[p])

MovesOK(u) == \A p \in Products : IF u.stock[p] = u.base[p] THEN NoMove(u.rows[p])
                                  ELSE LastMove(u.rows[p], u.stock[p])

Directed(u, change) == IF u.op = "SALE" THEN change <= 0 ELSE change >= 0

PendingOK(u) == /\ ChainsOK(u)
                /\ MovesOK(u)
                /\ \A p \in Products : Directed(u, u.stock[p] - u.base[p])

Counted(lines) == \A k \in DOMAIN lines : lines[k].quantity \in Nat

\* How far the lines of a request have come.
CourseOK(u, ph) ==
    /\ ph \in {"sale", "items"} => u.op \in {"VOID", "RETURN"} /\ u.next = 1
    /\ ph = "products" => /\ u.op \notin {"VOID", "RETURN"}
                          /\ u.next \in DOMAIN u.lines
    /\ u.op \in {"RESTOCK", "COUNT", "CHANGE"} => Len(u.lines) = 1
    /\ u.op \in {"SALE", "RETURN"} => Counted(u.lines)
    /\ u.op = "VOID" /\ ph = "lines" => Counted(u.lines)
    /\ ph # "lines" \/ u.next = 1 \/ u.op \in {"COUNT", "CHANGE"} => NothingPending(u)

\* A void or a return works on the items of a stored sale; whatever became of its
\* copies since, they name the same products and quantities, and no copy is
\* booked as returned beyond its quantity.
CopiesOK(u, ph) ==
    /\ ph = "items" => u.sale \in DOMAIN sales
    /\ ph = "lines" /\ u.op \in {"VOID", "RETURN"} =>
          /\ u.sale \in DOMAIN sales
          /\ DOMAIN u.loaded = DOMAIN sales[u.sale].items
          /\ DOMAIN u.items = DOMAIN sales[u.sale].items
          /\ \A k \in DOMAIN u.items :
                /\ u.items[k].product = sales[u.sale].items[k].product
                /\ u.items[k].quantity = sales[u.sale].items[k].quantity
                /\ u.items[k].returned_qty <= u.items[k].quantity
                /\ u.items[k].return_items >= u.loaded[k].return_items

WorkerOK(w) == /\ PendingOK(uow[w])
               /\ CourseOK(uow[w], phase[w])
               /\ CopiesOK(uow[w], phase[w])

IInv == /\ TypeOK
        /\ \A p \in Products : NoMove(ledger[p]) \/ LastMove(ledger[p], onHand[p])
        /\ ReturnedWithinSold
        /\ \A w \in Workers : WorkerOK(w)

-----------------------------------------------------------------------------
\* The invariant behind the properties of a single worker

\* The session has read every product it moves, and nobody has replaced the stock
\* it read.
ReadOK(u, ph) ==
    /\ \A p \in u.seen : u.base[p] = onHand[p]
    /\ \A p \in Products \ u.seen : u.rows[p] = <<>>
    /\ ph = "products" => \A k \in 1 .. u.next - 1 : u.lines[k].product \in u.seen
    /\ ph = "lines" /\ u.op # "RETURN" =>
          \A k \in DOMAIN u.lines : u.lines[k].product \in u.seen
    /\ ph = "lines" /\ u.op = "RETURN" =>
          \A k \in DOMAIN u.items : u.items[k].product \in u.seen

\* Its copies of the sale are the sale, and the sale is COMPLETED.
FreshOK(u, ph) ==
    /\ ph \in {"items", "lines"} /\ u.op \in {"VOID", "RETURN"} =>
          u.status = sales[u.sale].status
    /\ ph = "lines" /\ u.op \in {"VOID", "RETURN"} =>
          /\ u.status = "COMPLETED"
          /\ u.loaded = sales[u.sale].items
          /\ u.op = "VOID" =>
                /\ DOMAIN u.lines = DOMAIN u.loaded
                /\ \A k \in DOMAIN u.lines :
                      /\ u.lines[k].product = u.loaded[k].product
                      /\ u.lines[k].quantity = u.loaded[k].quantity
          /\ \A k \in DOMAIN u.items : u.items[k].return_items = u.items[k].returned_qty

\* What a session is going to do to the alerts of what it moves.
AlertingOK(u, ph) ==
    /\ ph = "lines" /\ u.op = "SALE" =>
          \A k \in 1 .. u.next - 1 : k \in DOMAIN u.lines =>
              u.lines[k].product \in Services \/ u.rows[u.lines[k].product] # <<>>
    /\ \A p \in Products \ Services :
          /\ u.raised[p] > 0 => u.rows[p] # <<>> /\ LowOnStock(u, p)
          /\ u.resolved[p] # {} => u.rows[p] # <<>> /\ ~LowOnStock(u, p)
          /\ u.rows[p] # <<>> /\ LowOnStock(u, p) =>
                u.raised[p] > 0 \/ OpenIn(alerts[p]) # {}
          /\ u.op \in {"VOID", "RETURN"} => u.raised[p] = 0
          /\ u.op = "SALE" => u.resolved[p] = {}

\* The alerts and the journal of a product that was sold, and of one that never
\* moved.
AlertsOK ==
    /\ LowStockIsAlerted
    /\ \A p \in Products \ Services : ledger[p] = <<>> => OpenIn(alerts[p]) = {}
    /\ \A s \in DOMAIN sales : \A k \in DOMAIN sales[s].items :
          sales[s].items[k].product \in Services \/ ledger[sales[s].items[k].product] # <<>>

SerialInv ==
    /\ IInv
    /\ ReturnsAddUp
    /\ \A w \in Workers : ReadOK(uow[w], phase[w]) /\ FreshOK(uow[w], phase[w])

AlertInv ==
    /\ SerialInv
    /\ AlertsOK
    /\ \A w \in Workers : AlertingOK(uow[w], phase[w])

-----------------------------------------------------------------------------
\* The invariant behind the sums over the journal

\* The movement type that an operation writes.
KindOf(op) == IF op \in {"COUNT", "CHANGE"} THEN "ADJUSTMENT" ELSE op

\* The lines of a product that a session has processed, and the units on them.
LinesOf(u, p) == {k \in DOMAIN u.lines : k < u.next /\ u.lines[k].product = p}
LineUnits(u, p) ==
    SumFunctionOnSet([k \in DOMAIN u.lines |-> Whole(u.lines[k].quantity)], LinesOf(u, p))

\* What a session has booked as returned of the items of a product.
CopiesOf(u, p) == {k \in DOMAIN u.items : u.items[k].product = p}
BookedOn(u, p) ==
    SumFunctionOnSet([k \in DOMAIN u.items |-> u.items[k].return_items
                                                 - u.loaded[k].return_items], CopiesOf(u, p))

WholeLines(lines) ==
    \A k \in DOMAIN lines : lines[k].quantity = Scale * Whole(lines[k].quantity)

\* Nobody returns a fraction of a unit.
WholeReturns == \A r \in Requests : r.op = "RETURN" => WholeLines(r.lines)

\* The pending rows of a session move what its lines say.
MovedOK(u, ph) ==
    /\ \A p \in Products : \A i \in DOMAIN u.rows[p] : u.rows[p][i].kind = KindOf(u.op)
    /\ WholeReturns /\ u.op = "RETURN" => WholeLines(u.lines)
    /\ ph = "lines" => \A p \in Products \ Services :
          /\ u.op = "SALE" => UnitsMoved(u.rows[p], {"SALE"}) = -LineUnits(u, p)
          /\ u.op = "VOID" => UnitsMoved(u.rows[p], {"VOID"}) = LineUnits(u, p)
          /\ WholeReturns /\ u.op = "RETURN" =>
                Scale * UnitsMoved(u.rows[p], {"RETURN"}) = BookedOn(u, p)

\* While nobody returns a fraction of a unit, what the return rows say is whole, stored
\* or copied.
InWholeUnits(q) == q = Scale * Whole(q)
WholeBooked(items) == \A k \in DOMAIN items : InWholeUnits(items[k].return_items)

WholeItems ==
    /\ \A s \in DOMAIN sales : WholeBooked(sales[s].items)
    /\ \A w \in Workers : uow[w].op = "RETURN" =>
          WholeBooked(uow[w].items) /\ WholeBooked(uow[w].loaded)

\* What was returned is what the journal has moved under RETURN.
ReturnsAreJournaled ==
    \A p \in Products \ Services :
        Scale * Journaled(p, {"RETURN"}) = ReturnedOn(ItemsOf(p))

\* For any number of workers.
JournalInv ==
    /\ IInv
    /\ SoldStockIsJournaled
    /\ WholeReturns => ReturnsAreJournaled
    /\ \A w \in Workers : MovedOK(uow[w], phase[w])
=============================================================================
