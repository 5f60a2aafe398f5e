------------------------------- MODULE Journal -------------------------------
(***************************************************************************)
(* The movement journal dbo.inventory_transactions: what a row records,    *)
(* and when rows explain the way from one quantity on hand to another.     *)
(***************************************************************************)
EXTENDS Integers, Sequences, FiniteSetsExt

\* The movement types of the journal.
Kinds == {"SALE", "RESTOCK", "RETURN", "ADJUSTMENT", "VOID"}

\* A journal row: the signed quantity and the two stock snapshots around it.
Row == [kind : Kinds, change : Int, before : Nat, after : Nat]

\* The row a movement of the given size writes when it finds the stock at q.
Movement(kind, change, q) ==
    [kind |-> kind, change |-> change, before |-> q, after |-> q + change]

\* The rows take the stock from b to e, each starting where the last one ended.
Chained(b, rows, e) ==
    /\ \A i \in DOMAIN rows :
          /\ rows[i].after = rows[i].before + rows[i].change
          /\ rows[i].before = IF i = 1 THEN b ELSE rows[i - 1].after
    /\ e = IF rows = <<>> THEN b ELSE rows[Len(rows)].after

\* The units that the rows of the given kinds have moved.
UnitsMoved(rows, kinds) ==
    SumFunctionOnSet([i \in DOMAIN rows |-> rows[i].change],
                     {i \in DOMAIN rows : rows[i].kind \in kinds})
=============================================================================
