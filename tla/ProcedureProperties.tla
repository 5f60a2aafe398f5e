------------------------- MODULE ProcedureProperties -------------------------
(***************************************************************************)
(* What has to be true of the stored procedures (StockProcedures), for any *)
(* number of connections.                                                  *)
(***************************************************************************)
EXTENDS StockProcedures, FiniteSets, FiniteSetsExt

\* A sale has an item for each line it kept.
SaleOK(items) == /\ DOMAIN items \subseteq LineNumbers
                 /\ items \in [DOMAIN items -> Item]

Txn == [op : Ops, sale : Nat, lines : Seq(Line),
        staged : SUBSET Nat, todo : SUBSET Nat, next : Nat,
        held : SUBSET Products, heldItems : SUBSET (Nat \X Nat),
        stock : [Products -> Nat], rows : [Products -> Seq(Row)],
        alerts : [Products -> Seq(BOOLEAN)], notices : [Products -> Nat],
        booked : [LineNumbers -> Nat]]

TxnOK(t) == /\ t \in Txn
            /\ t.staged \subseteq DOMAIN t.lines
            /\ t.todo \subseteq t.staged

StoreOK ==
    /\ onHand \in [Products -> Nat]
    /\ ledger \in [Products -> Seq(Row)]
    /\ alerts \in [Products -> Seq(BOOLEAN)]
    /\ notices \in [Products -> Nat]
    /\ sales \in Seq(Range(sales))
    /\ \A s \in DOMAIN sales : SaleOK(sales[s])

\* The types of the stored rows and of the transactions.  Quantities on hand are
\* natural numbers: the checks made under lock leave nothing for
\* CK_inventory_quantity_non_negative to reject.
TypeOK ==
    /\ StoreOK
    /\ phase \in [Workers -> Phases]
    /\ txn \in [Workers -> Txn]
    /\ \A w \in Workers : TxnOK(txn[w])
    /\ called \in 0 .. MaxRequests

-----------------------------------------------------------------------------
\* The units the journal of p has moved under the given kind.
Journaled(p, kind) == UnitsMoved(ledger[p], {kind})

SaleItem(i) == sales[i[1]][i[2]]

\* All sale items, as pairs of a sale and a line of it, and those of a product.
AllItems == UNION {{s} \X DOMAIN sales[s] : s \in DOMAIN sales}
ItemsOf(p) == {i \in AllItems : SaleItem(i).product = p}

\* What was sold of a product, and what was returned of it.
SoldOf(p) == SumFunctionOnSet([i \in AllItems |-> SaleItem(i).quantity], ItemsOf(p))
ReturnedOf(p) == SumFunctionOnSet([i \in AllItems |-> SaleItem(i).returned_qty], ItemsOf(p))

-----------------------------------------------------------------------------
\* The procedures do what StockLedger promises, however their calls interleave:
\* the row locks keep every read quantity true until it is written.
LedgerSpec == Ledger!Spec

\* The journal leads from the opening stock to the quantity on hand without a gap.
LedgerChains == Ledger!LedgerChains

\* Sale items and SALE movements commit together, and so do returned quantities
\* and RETURN movements, also when returns of one item race.
ItemsAreJournaled ==
    \A p \in Products :
        /\ Journaled(p, "SALE") = -SoldOf(p)
        /\ Journaled(p, "RETURN") = ReturnedOf(p)

\* No sale item is returned beyond what was sold, although SP_ProcessReturn reads
\* the returnable quantity without a lock (BR-RET-02).
ReturnedWithinSold ==
    \A s \in DOMAIN sales : \A k \in DOMAIN sales[s] :
        sales[s][k].returned_qty <= sales[s][k].quantity

\* A product that was stocked above its threshold has exactly one OPEN alert
\* while it is at or below it, and none while it is above.
AlertsFollowStock ==
    \A p \in Products : InitStock[p] > Threshold[p] =>
        Cardinality(OpenIn(alerts[p])) = IF onHand[p] <= Threshold[p] THEN 1 ELSE 0

\* Every alert the trigger has raised has been notified to the managers.
AlertsAreNotified == \A p \in Products : notices[p] >= Len(alerts[p])

\* A stored sale has an item for every line the client asked for.
SaleHasEveryLine ==
    [][\A w \in Workers : Len(sales') > Len(sales) /\ txn'[w] # txn[w] =>
          DOMAIN sales'[Len(sales')] = DOMAIN txn[w].lines]_<<sales, txn>>

\* Every call ends: no connection waits for a lock forever.
CallsEnd == \A w \in Workers : phase[w] # "idle" ~> phase[w] = "idle"
=============================================================================
