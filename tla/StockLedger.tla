----------------------------- MODULE StockLedger -----------------------------
(***************************************************************************)
(* What SmartPOS promises about stock, whichever path writes it: the       *)
(* quantity on hand of a product changes only together with rows appended  *)
(* to its movement journal (dbo.inventory_transactions), and those rows    *)
(* lead, one from the other, from the old quantity to the new one.  The    *)
(* SQLAlchemy backend (StockSessions) and the stored procedures            *)
(* (StockProcedures) are both compared with this specification.            *)
(***************************************************************************)
EXTENDS Journal

CONSTANTS Products,     \* the products that exist
          InitStock     \* InitStock[p]: quantity on hand before the first movement

VARIABLES onHand,       \* inventory.quantity_on_hand, per product
          ledger        \* inventory_transactions, per product, oldest first

-----------------------------------------------------------------------------
\* The rows the current step appends to the journal of p.
Appended(p) == SubSeq(ledger'[p], Len(ledger[p]) + 1, Len(ledger'[p]))

-----------------------------------------------------------------------------
Init == /\ onHand = InitStock
        /\ ledger = [p \in Products |-> <<>>]

\* One transaction posts movements of any of the products.
Post == /\ onHand' \in [Products -> Nat]
        /\ ledger' \in [Products -> Seq(Row)]
        /\ \A p \in Products :
              /\ ledger'[p] = ledger[p] \o Appended(p)
              /\ Chained(onHand[p], Appended(p), onHand'[p])

Spec == Init /\ [][Post]_<<onHand, ledger>>

\* The journal explains the stock: read from the first row to the last, it
\* leads from the opening stock to the quantity on hand, with no gap.
LedgerChains == \A p \in Products : Chained(InitStock[p], ledger[p], onHand[p])
=============================================================================
