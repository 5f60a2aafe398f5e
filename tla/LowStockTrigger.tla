--------------------------- MODULE LowStockTrigger ---------------------------
(***************************************************************************)
(* TRG_inventory_low_stock, the AFTER UPDATE trigger that the SQL Server   *)
(* scripts put on dbo.inventory.  It runs inside the transaction of the    *)
(* UPDATE, once the row is locked, with the old and the new quantity, and  *)
(* compares them with products.low_stock_threshold.                        *)
(*                                                                         *)
(* rows is the product's part of low_stock_alerts, oldest first: TRUE for  *)
(* a row that is OPEN, FALSE for one that is RESOLVED.  Dropped_Below is a *)
(* mistaken variant of Dropped (README, "Mutants").                        *)
(***************************************************************************)
EXTENDS Integers, Sequences

\* The OPEN alerts of a product.
OpenIn(rows) == {a \in DOMAIN rows : rows[a]}

Dropped_Below(old, new, threshold) == old > threshold /\ new < threshold
Dropped(old, new, threshold)   == old > threshold /\ new <= threshold
Recovered(old, new, threshold) == old <= threshold /\ new > threshold

\* 1a: a drop raises an alert unless the product has an OPEN one.
Raised(rows, old, new, threshold) ==
    IF Dropped(old, new, threshold) /\ OpenIn(rows) = {} THEN Append(rows, TRUE) ELSE rows

\* 1b: a drop sends a wave of notifications, by the same condition as 1a; but it
\* runs after 1a, and so finds the alert that 1a has raised.
Notified(rows, old, new, threshold) ==
    IF Dropped(old, new, threshold) /\ OpenIn(Raised(rows, old, new, threshold)) = {}
    THEN 1 ELSE 0

\* 2: a recovery resolves every OPEN alert.
AfterUpdate(rows, old, new, threshold) ==
    IF Recovered(old, new, threshold) THEN [a \in DOMAIN rows |-> FALSE]
    ELSE Raised(rows, old, new, threshold)
=============================================================================
