-------------------------- MODULE ProcedureInvariant --------------------------
(***************************************************************************)
(* The inductive invariant of the stored procedures: what their row locks  *)
(* and their checks establish at each point of a call.  t is a transaction *)
(* and ph the phase it is in.                                              *)
(***************************************************************************)
EXTENDS ProcedureProperties

\* No row is locked twice.
Exclusive ==
    \A v, w \in Workers : v # w => /\ txn[v].held \cap txn[w].held = {}
                                   /\ txn[v].heldItems \cap txn[w].heldItems = {}

\* What a call is, and which line it is at.
CourseOK(t, ph) ==
    /\ ph = "idle" => t = NoTxn
    /\ ph # "idle" => \E r \in Requests : t.op = r.op /\ t.lines = r.lines
    /\ ph = "check" => t.op # "RETURN"
    /\ ph \in {"expand", "book", "restore"} => t.op = "RETURN"
    /\ ph \in {"check", "book", "restore"} => t.next \in t.staged
    /\ ph = "write" => t.todo = {}

\* The lines whose inventory row a sale, a restock or an adjustment has checked.
Checked(t, ph) == IF ph = "check" THEN t.staged \ (t.todo \cup {t.next}) ELSE t.staged

\* Those rows are locked and still hold enough; nothing is written before.
CheckedOK(t, ph) ==
    ph # "idle" /\ t.op # "RETURN" =>
        /\ \A p \in Products : t.rows[p] = <<>>
        /\ t.op # "ADJUST" => \A k \in t.staged : t.lines[k].quantity > 0
        /\ t.op # "SALE" => t.next \in t.staged
        /\ \A k \in Checked(t, ph) : t.lines[k].product \in t.held /\ ~Short(t, t.lines[k])

\* A return books only on items it has locked, within what was sold of them.
ReturnOK(t, ph) ==
    ph # "idle" /\ t.op = "RETURN" =>
        /\ t.sale \in DOMAIN sales
        /\ ph = "restore" => t.lines[t.next].quantity > 0
        /\ ph # "expand" => \A k \in t.staged : t.lines[k].item \in DOMAIN sales[t.sale]
        /\ \A i \in DOMAIN sales[t.sale] :
              IF <<t.sale, i>> \in t.heldItems
              THEN WithinSold(sales[t.sale][i], t.booked[i])
              ELSE t.booked[i] = 0

CallOK(w) == /\ CourseOK(txn[w], phase[w])
             /\ CheckedOK(txn[w], phase[w])
             /\ ReturnOK(txn[w], phase[w])

\* Every reachable state satisfies it, and every step preserves it.
IInv == TypeOK /\ ReturnedWithinSold /\ Exclusive /\ \A w \in Workers : CallOK(w)

\* The pending journal rows of a call lead from the stored quantity of every row
\* it has locked to the one it is going to store (whole quantities only).
RowsChain(t) ==
    \A p \in Products : IF p \in t.held THEN Chained(onHand[p], t.rows[p], t.stock[p])
                       ELSE t.rows[p] = <<>>

PendingRowsChain == \A w \in Workers : RowsChain(txn[w])

\* The calls that post their movements as StockLedger says: quantities are whole,
\* and no sale names a product on two lines.
WholeCalls ==
    /\ Scale = 1
    /\ \A r \in Requests : r.op = "SALE" =>
          \A j, k \in DOMAIN r.lines : j # k => r.lines[j].product # r.lines[k].product

\* A product has one OPEN alert while q is at or below its threshold, else none.
OneAlertIfLow(p, rows, q) ==
    IF q <= Threshold[p] THEN \E a \in OpenIn(rows) : OpenIn(rows) = {a}
    ELSE OpenIn(rows) = {}

\* So it is with the pending alerts of the rows a call has locked ...
AlertsRight(t) ==
    \A p \in t.held : InitStock[p] > Threshold[p] =>
        OneAlertIfLow(p, t.alerts[p], t.stock[p])

\* ... and with the stored ones, of a product that was stocked above its threshold.
PendingAlertsFollow ==
    /\ \A p \in Products : InitStock[p] > Threshold[p] =>
          OneAlertIfLow(p, alerts[p], onHand[p])
    /\ \A w \in Workers : AlertsRight(txn[w])

-----------------------------------------------------------------------------
\* The items of p in the sale a return is for, and what it has booked on them.
ItemsWith(t, p) == {i \in DOMAIN sales[t.sale] : sales[t.sale][i].product = p}
BookedOn(t, p) == SumFunctionOnSet(t.booked, ItemsWith(t, p))

\* The quantity of p it has booked and has not restored to stock.
ToRestore(t, ph, p) ==
    IF ph = "restore" /\ t.lines[t.next].product = p THEN t.lines[t.next].quantity ELSE 0

\* A return has only RETURN rows pending, for what it has booked.
RowsFitBooked(t, ph) ==
    ph # "idle" /\ t.op = "RETURN" =>
        /\ ph # "expand" => \A k \in t.staged :
              t.lines[k].product = sales[t.sale][t.lines[k].item].product
        /\ \A p \in Products :
              /\ \A i \in DOMAIN t.rows[p] : t.rows[p][i].kind = "RETURN"
              /\ BookedOn(t, p) = UnitsMoved(t.rows[p], {"RETURN"}) + ToRestore(t, ph, p)

FiniteSales == \A s \in DOMAIN sales : IsFiniteSet(DOMAIN sales[s])

\* So the journal and the sale items can be added up (whole quantities only).
JournalInv ==
    /\ IInv
    /\ ItemsAreJournaled
    /\ FiniteSales
    /\ \A w \in Workers : RowsFitBooked(txn[w], phase[w])
===============================================================================
