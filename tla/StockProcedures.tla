--------------------------- MODULE StockProcedures ---------------------------
(***************************************************************************)
(* The stock path of the database: SP_CreateSale, SP_ProcessReturn,        *)
(* SP_RestockProduct and SP_AdjustStock, called by concurrent connections, *)
(* with the low-stock trigger on dbo.inventory.                            *)
(*                                                                         *)
(* A call is one transaction.  It holds an update lock on every inventory  *)
(* row it has read WITH (UPDLOCK) or has written, and on every sale_items  *)
(* row it has written, until it ends; what it wrote is private until then. *)
(* An action is the work between two lock requests.  A call that waits for *)
(* a lock has no enabled step; one that waits in a circle is ended by the  *)
(* deadlock monitor of the server.                                         *)
(*                                                                         *)
(* Every product has its inventory row: SP_CreateProduct inserts both.     *)
(*                                                                         *)
(* Operator_Change is a mistaken variant of Operator (README, "Mutants").  *)
(***************************************************************************)
EXTENDS Journal, LowStockTrigger, SequencesExt

CONSTANTS
    Workers,        \* the connections that call the procedures
    Products,       \* the catalogue
    Inactive,       \* the archived products (is_active = 0)
    Threshold,      \* products.low_stock_threshold
    InitStock,      \* quantity on hand to begin with
    Scale,          \* the sale quantity that stands for one whole unit
    Requests,       \* the calls clients make
    MaxRequests     \* bound: calls made in a behaviour

VARIABLES
    onHand,         \* inventory.quantity_on_hand
    ledger,         \* inventory_transactions of a product, oldest first
    alerts,         \* low_stock_alerts of a product: TRUE while OPEN
    notices,        \* LOW_STOCK notifications sent about a product
    sales,          \* the items of the sales, by sale_id and item
    phase,          \* where a connection is in its call
    txn,            \* the call and its open transaction
    called          \* how many calls have been made

db   == <<onHand, ledger, alerts, notices, sales>>
vars == <<onHand, ledger, alerts, notices, sales, phase, txn, called>>

Ledger == INSTANCE StockLedger
-----------------------------------------------------------------------------
\* A sale item, named by the line of the sale it was made from.
Item == [product : Products, quantity : Nat, returned_qty : Nat]

\* A line names a product (sale, restock, adjustment) or a sale item (return);
\* sale and return quantities count fractions of 1/Scale, the others whole units.
Line    == [product : Products, item : Nat, quantity : Int]
Ops     == {"SALE", "RETURN", "RESTOCK", "ADJUST"}
Request == [op : Ops, sale : Nat, lines : Seq(Line)]

ASSUME ProceduresAssumption ==
    /\ Inactive \subseteq Products
    /\ Threshold \in [Products -> Nat]
    /\ InitStock \in [Products -> Nat]
    /\ Scale \in Nat \ {0}
    /\ Requests \subseteq Request
    /\ \A r \in Requests : r.op \in {"RESTOCK", "ADJUST"} => Len(r.lines) = 1
    /\ MaxRequests \in Nat

\* The lines a call can have; they number the items of a sale, too.
LineNumbers == UNION {DOMAIN r.lines : r \in Requests}

Phases == {"idle", "check", "write", "expand", "book", "restore"}

\* A DECIMAL(12,3) stored in an INT column or variable loses its fraction.
Whole(q) == IF q >= 0 THEN q \div Scale ELSE -((-q) \div Scale)

NewTxn(r) ==
    [op |-> r.op, sale |-> r.sale, lines |-> r.lines,
     staged  |-> {},                               \* the lines in the temporary table
     todo    |-> {},                               \* those still to process
     next    |-> 1,                                \* the one being processed
     held    |-> {},                               \* inventory rows locked
     heldItems |-> {},                             \* sale items locked
     stock   |-> [p \in Products |-> 0],           \* uncommitted: quantity on hand,
     rows    |-> [p \in Products |-> <<>>],        \* journal rows,
     alerts  |-> [p \in Products |-> <<>>],        \* alerts
     notices |-> [p \in Products |-> 0],           \* and notifications
     booked  |-> [i \in LineNumbers |-> 0]]         \* and returned quantity, per item

NoTxn == NewTxn([op |-> "SALE", sale |-> 0, lines |-> <<>>])

Init == /\ onHand = InitStock
        /\ ledger = [p \in Products |-> <<>>]
        /\ alerts = [p \in Products |-> <<>>]
        /\ notices = [p \in Products |-> 0]
        /\ sales = <<>>
        /\ phase = [w \in Workers |-> "idle"]
        /\ txn = [w \in Workers |-> NoTxn]
        /\ called = 0
-----------------------------------------------------------------------------
\* The course of a call

CurrentLine(w) == txn[w].lines[txn[w].next]

Continue(w, t, ph) == /\ txn' = [txn EXCEPT ![w] = t]
                      /\ phase' = [phase EXCEPT ![w] = ph]

\* Go on with another line in phase ph - joins and cursors give the lines no
\* order - or, after the last one, to what the procedure does at its end.
Advance(w, t, ph) ==
    \/ t.todo = {} /\ Continue(w, t, "write")
    \/ \E k \in t.todo : Continue(w, [t EXCEPT !.next = k, !.todo = @ \ {k}], ph)

\* The call ends, and its locks are released.
Close_KeepsLocks(w) == Continue(w, [NoTxn EXCEPT !.held = txn[w].held], "idle")
Close(w) == Continue(w, NoTxn, "idle")

\* THROW: the transaction is rolled back.
Refuse(w) == Close(w) /\ UNCHANGED <<db, called>>
-----------------------------------------------------------------------------
\* Locks and writes of a transaction

\* No other transaction holds the inventory row of p, or the sale item i.
RowFree_NoLock(w, p) == TRUE
RowFree(w, p)  == \A v \in Workers \ {w} : p \notin txn[v].held
ItemFree_NoLock(w, i) == TRUE
ItemFree(w, i) == \A v \in Workers \ {w} : i \notin txn[v].heldItems

\* Read the inventory row of p WITH (UPDLOCK), or lock it to update it.
Locked(t, p) ==
    IF p \in t.held THEN t
    ELSE [t EXCEPT !.held = @ \cup {p},
                   !.stock[p]  = onHand[p],
                   !.alerts[p] = alerts[p]]

\* UPDATE dbo.inventory: the new quantities, and what the trigger makes of them.
Update(t, new) ==
    [t EXCEPT !.stock   = new,
              !.alerts  = [p \in Products |->
                              AfterUpdate(@[p], t.stock[p], new[p], Threshold[p])],
              !.notices = [p \in Products |->
                              @[p] + Notified(t.alerts[p], t.stock[p], new[p], Threshold[p])]]

\* A row for dbo.inventory_transactions.
JournalRow(kind, change, before, after) ==
    [kind |-> kind, change |-> change, before |-> before, after |-> after]

\* COMMIT: what the transaction wrote replaces the rows it has locked.
WriteStock(t) ==
    /\ onHand'  = [p \in Products |-> IF p \in t.held THEN t.stock[p] ELSE onHand[p]]
    /\ alerts'  = [p \in Products |-> IF p \in t.held THEN t.alerts[p] ELSE alerts[p]]
    /\ ledger'  = [p \in Products |-> ledger[p] \o t.rows[p]]
    /\ notices' = [p \in Products |-> notices[p] + t.notices[p]]
-----------------------------------------------------------------------------
\* The parameter checks of a call, up to its first lock.  The validation of
\* SP_CreateSale sets @Err to NULL for a line without an active product: it
\* refuses only active products with no quantity, and the staging join then
\* leaves the other lines out.
Active(r)  == {k \in DOMAIN r.lines : r.lines[k].product \notin Inactive}

Staged(r) == IF r.op = "SALE" THEN Active(r) ELSE DOMAIN r.lines

Accepted(r) ==
    CASE r.op = "SALE"    -> \A k \in Active(r) : r.lines[k].quantity > 0
      [] r.op = "RESTOCK" -> r.lines[1].quantity > 0
      [] r.op = "ADJUST"  -> r.lines[1].quantity # 0
      [] r.op = "RETURN"  -> r.sale \in DOMAIN sales

Call(w) ==
    /\ phase[w] = "idle"
    /\ called < MaxRequests
    /\ \E r \in Requests :
          /\ Accepted(r)
          /\ IF r.op = "RETURN" THEN Continue(w, NewTxn(r), "expand")
             ELSE Advance(w, [NewTxn(r) EXCEPT !.staged = Staged(r), !.todo = Staged(r)],
                          "check")
    /\ called' = called + 1
    /\ UNCHANGED db

\* There is less of the product than the line of a sale takes, or an adjustment
\* would leave less than nothing.
Short_OnlyEmpty(t, line) == t.op # "RESTOCK" /\ t.stock[line.product] = 0
Short(t, line) ==
    \/ t.op = "SALE" /\ t.stock[line.product] * Scale < line.quantity
    \/ t.op = "ADJUST" /\ t.stock[line.product] + line.quantity < 0

\* Lock and read the inventory row of the next line.
LockRow(w) ==
    LET line == CurrentLine(w)
        t    == Locked(txn[w], line.product) IN
    /\ phase[w] = "check"
    /\ RowFree(w, line.product)
    /\ IF Short(t, line) THEN Close(w) ELSE Advance(w, t, "check")
    /\ UNCHANGED <<db, called>>
-----------------------------------------------------------------------------
\* SP_CreateSale, once every row is locked

LinesOf(t, p) == {k \in t.staged : t.lines[k].product = p}

\* UPDATE ... JOIN #sale_lines updates a row once, with one of the lines that join.
Deducted(t, line) ==
    Update(t, [p \in Products |-> IF p \in t.held
                                  THEN Whole(t.stock[p] * Scale - t.lines[line[p]].quantity)
                                  ELSE t.stock[p]])

\* One journal row per line, worked out from the quantity the UPDATE has left.
SaleRow(quantity, after) ==
    JournalRow("SALE", Whole(-quantity), Whole(after * Scale + quantity), after)

CreateSale(w) ==
    LET t == txn[w] IN
    /\ phase[w] = "write" /\ t.op = "SALE"
    /\ \E line \in [t.held -> t.staged] :
       \E order \in [Products -> UNION {SetToSeqs(LinesOf(t, p)) : p \in Products}] :
          /\ \A p \in t.held : line[p] \in LinesOf(t, p)
          /\ \A p \in Products : order[p] \in SetToSeqs(LinesOf(t, p))
          /\ LET d == Deducted(t, line) IN
             WriteStock([d EXCEPT !.rows =
                [p \in Products |-> [i \in DOMAIN order[p] |->
                                        SaleRow(t.lines[order[p][i]].quantity, d.stock[p])]]])
    /\ sales' = Append(sales, [k \in t.staged |-> [product      |-> t.lines[k].product,
                                                   quantity     |-> t.lines[k].quantity,
                                                   returned_qty |-> 0]])
    /\ Close(w)
    /\ UNCHANGED called
-----------------------------------------------------------------------------
\* SP_RestockProduct and SP_AdjustStock, once the row is locked

Moved(t, p, kind, change) ==
    [Update(t, [t.stock EXCEPT ![p] = @ + change]) EXCEPT
        !.rows[p] = Append(@, JournalRow(kind, change, t.stock[p], t.stock[p] + change))]

\* A product that is still low after a restock is notified about.
StillLow(t, p) == IF t.stock[p] <= Threshold[p] THEN 1 ELSE 0

Restocked(t, p, q) ==
    LET m == Moved(t, p, "RESTOCK", q) IN
    [m EXCEPT !.notices = [m.notices EXCEPT ![p] = @ + StillLow(m, p)]]

RestockProduct(w) ==
    LET line == CurrentLine(w) IN
    /\ phase[w] = "write" /\ txn[w].op = "RESTOCK"
    /\ WriteStock(Restocked(txn[w], line.product, line.quantity))
    /\ Close(w)
    /\ UNCHANGED <<sales, called>>

AdjustStock(w) ==
    LET line == CurrentLine(w) IN
    /\ phase[w] = "write" /\ txn[w].op = "ADJUST"
    /\ WriteStock(Moved(txn[w], line.product, "ADJUSTMENT", line.quantity))
    /\ Close(w)
    /\ UNCHANGED <<sales, called>>
-----------------------------------------------------------------------------
\* SP_ProcessReturn

\* The lines that match an item of the sale; one that does not is refused,
\* unless another line names its item rightly.
Matching(t) ==
    {k \in DOMAIN t.lines : /\ t.lines[k].item \in DOMAIN sales[t.sale]
                            /\ t.lines[k].product = sales[t.sale][t.lines[k].item].product}

\* What is left to return of an item.
Returnable(item) == item.quantity - item.returned_qty

\* Stage the lines with what is left to return of their items, read without a lock.
ExpandLines(w) ==
    LET t     == txn[w]
        items == sales[t.sale] IN
    /\ phase[w] = "expand"
    /\ IF /\ \A k \in DOMAIN t.lines : \E m \in Matching(t) : t.lines[m].item = t.lines[k].item
          /\ \A m \in Matching(t) : t.lines[m].quantity <= Returnable(items[t.lines[m].item])
       THEN Advance(w, [t EXCEPT !.staged = Matching(t), !.todo = Matching(t)], "book")
       ELSE Close(w)
    /\ UNCHANGED <<db, called>>

\* What the call has returned of an item, with the line.
Booked_Overwrite(t, line) == line.quantity
Booked(t, line) == t.booked[line.item] + line.quantity

\* Add the quantity to the item; two CHECK constraints guard the write.
WithinSold_NoCheck(item, booked) == TRUE
WithinSold(item, booked) == item.returned_qty + booked <= item.quantity

BookItem(w) ==
    LET t    == txn[w]
        line == CurrentLine(w)
        id   == <<t.sale, line.item>> IN
    /\ phase[w] = "book"
    /\ ItemFree(w, id)
    /\ IF line.quantity > 0 /\ WithinSold(sales[t.sale][line.item], Booked(t, line))
       THEN Continue(w, [t EXCEPT !.heldItems = @ \cup {id},
                                  !.booked[line.item] = Booked(t, line)], "restore")
       ELSE Close(w)
    /\ UNCHANGED <<db, called>>

\* The journal row of a return: @OldStock is read back from the new quantity.
ReturnRow(q, after) ==
    LET old == Whole(after * Scale - q) IN
    JournalRow("RETURN", Whole(q), old, Whole(old * Scale + q))

\* The stock, with q more of p, and its journal row.
Restored(t, p, q) ==
    LET new == Whole(t.stock[p] * Scale + q) IN
    [Update(t, [t.stock EXCEPT ![p] = new]) EXCEPT !.rows[p] = Append(@, ReturnRow(q, new))]

RestoreLine(w) ==
    LET line == CurrentLine(w) IN
    /\ phase[w] = "restore"
    /\ RowFree(w, line.product)
    /\ Advance(w, Restored(Locked(txn[w], line.product), line.product, line.quantity), "book")
    /\ UNCHANGED <<db, called>>

\* The items of a sale, with what was booked returned.
Returned(items, booked) ==
    [i \in DOMAIN items |-> [items[i] EXCEPT !.returned_qty = @ + booked[i]]]

CommitReturn(w) ==
    LET t == txn[w] IN
    /\ phase[w] = "write" /\ t.op = "RETURN"
    /\ WriteStock(t)
    /\ sales' = [sales EXCEPT ![t.sale] = Returned(sales[t.sale], t.booked)]
    /\ Close(w)
    /\ UNCHANGED called
-----------------------------------------------------------------------------
\* Waiting and failing

\* The connections that hold the lock w asks for.
Blockers(w) ==
    {v \in Workers \ {w} :
        \/ phase[w] \in {"check", "restore"} /\ CurrentLine(w).product \in txn[v].held
        \/ phase[w] = "book" /\ <<txn[w].sale, CurrentLine(w).item>> \in txn[v].heldItems}

\* The deadlock monitor ends a call that waits, in a circle, for itself.
DeadlockVictim(w) ==
    /\ \E circle \in SUBSET Workers :
          /\ w \in circle
          /\ \A v \in circle : /\ Blockers(v) \cap circle # {}
                              /\ \E u \in circle : v \in Blockers(u)
    /\ Refuse(w)

\* Any other error - a lost connection, a negative total, a missing method of
\* payment - rolls the call back too.
Abort(w) == phase[w] # "idle" /\ Refuse(w)

Step(w) == \/ LockRow(w) \/ CreateSale(w) \/ RestockProduct(w) \/ AdjustStock(w)
           \/ ExpandLines(w) \/ BookItem(w) \/ RestoreLine(w) \/ CommitReturn(w)

\* The bound on calls is used up and every call has ended.
Quiet == /\ called = MaxRequests
         /\ \A w \in Workers : phase[w] = "idle"
         /\ UNCHANGED vars

Next == \/ \E w \in Workers : Call(w) \/ Step(w) \/ DeadlockVictim(w) \/ Abort(w)
        \/ Quiet

Spec == Init /\ [][Next]_vars

\* The server goes on with every call that does not wait, and resolves deadlocks.
Fairness == \A w \in Workers : WF_vars(Step(w)) /\ WF_vars(DeadlockVictim(w))

FairSpec == Spec /\ Fairness
=============================================================================
