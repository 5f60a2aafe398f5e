-------------------------- MODULE MCStockProcedures --------------------------
(* The instances of the stored procedures that TLC explores. *)
EXTENDS ProcedureInvariant

CONSTANTS p1, p2, w1, w2

\* p1 starts one unit above its threshold, p2 starts at it.
MCThreshold == [p \in Products |-> 1]
MCInitStock == [p \in Products |-> IF p = p1 THEN 2 ELSE 1]

Of(p, q)      == [product |-> p, item |-> 0, quantity |-> q]
Back(p, k, q) == [product |-> p, item |-> k, quantity |-> q]
Ask(op, sale, lines) == [op |-> op, sale |-> sale, lines |-> lines]

\* Sales that lock p1 and p2 in both orders, returns that race on one item and
\* that lock in both orders, restocks and adjustments of the same rows.
RacingCalls ==
    {Ask("SALE", 0, <<Of(p1, 2), Of(p2, 1)>>),
     Ask("SALE", 0, <<Of(p2, 1), Of(p1, 1)>>),
     Ask("RESTOCK", 0, <<Of(p1, 1)>>),
     Ask("ADJUST", 0, <<Of(p1, -1)>>),
     Ask("RETURN", 1, <<Back(p1, 1, 1)>>),
     Ask("RETURN", 1, <<Back(p1, 1, 1), Back(p1, 1, 1)>>),
     Ask("RETURN", 1, <<Back(p2, 2, 1), Back(p1, 1, 2)>>)}

\* The smallest sets of calls that show each disagreement with the comments.
RepeatedLine == {Ask("SALE", 0, <<Of(p1, 1), Of(p1, 1)>>)}
OneSale      == {Ask("SALE", 0, <<Of(p1, 1)>>)}
UnknownLine  == {Ask("SALE", 0, <<Of(p1, 1), Of(p2, 1)>>)}
=============================================================================
