--------------------------- MODULE MCStockSessions ---------------------------
(* The instances of the backend's stock path that TLC explores. *)
EXTENDS StockProperties

CONSTANTS p1, p2, p3, w1, w2

\* p1 starts one unit above its threshold, so that a sale crosses the threshold
\* and a return, a void or a restock crosses it back; p2 starts
\* at its threshold; p3 is a service.
MCThreshold == [p \in Products |-> 1]
MCInitStock == [p \in Products |-> IF p = p1 THEN 2 ELSE 1]

Of(p, q)   == [product |-> p, item |-> 0, quantity |-> q]
Back(k, q) == [product |-> p1, item |-> k, quantity |-> q]
Ask(op, sale, lines) == [op |-> op, sale |-> sale, lines |-> lines, adjustment |-> 0]
Taxed(request, tax)  == [request EXCEPT !.adjustment = tax]

\* One request at a time: every operation, sales of one, two (of the same
\* product) and three lines, with
\* tax (so that a full return stays below the total) and with a discount.
SerialRequests ==
    {Ask("SALE", 0, <<Of(p1, 1)>>),
     Taxed(Ask("SALE", 0, <<Of(p1, 1)>>), 1),
     Taxed(Ask("SALE", 0, <<Of(p1, 2), Of(p2, 1), Of(p3, 1)>>), -3),
     Ask("SALE", 0, <<Of(p1, 1), Of(p1, 1)>>),
     Ask("RESTOCK", 0, <<Of(p1, 1)>>),
     Ask("COUNT", 0, <<Of(p1, 2)>>),
     Ask("CHANGE", 0, <<Of(p1, -1)>>),
     Ask("RETURN", 1, <<Back(1, 2), Back(2, 1), Back(3, 1)>>)}
    \cup {Ask("VOID", s, <<>>) : s \in 1 .. 2}
    \cup {Ask("RETURN", s, <<Back(1, 1)>>) : s \in 1 .. 2}

\* Two workers racing on one product and one sale.
RacingRequests ==
    {Ask("SALE", 0, <<Of(p1, 2)>>),
     Ask("RESTOCK", 0, <<Of(p1, 1)>>),
     Ask("CHANGE", 0, <<Of(p1, -1)>>),
     Ask("COUNT", 0, <<Of(p1, 1)>>),
     Ask("VOID", 1, <<>>),
     Ask("RETURN", 1, <<Back(1, 1)>>),
     Ask("RETURN", 1, <<Back(1, 2)>>)}

\* The smallest sets of requests that show each disagreement with the documents.
RacingSales   == {Ask("SALE", 0, <<Of(p1, 1)>>)}
RacingReturns == {Ask("SALE", 0, <<Of(p1, 2)>>), Ask("RETURN", 1, <<Back(1, 2)>>)}
VoidAndReturn == {Ask("SALE", 0, <<Of(p1, 2)>>), Ask("RETURN", 1, <<Back(1, 1)>>),
                  Ask("VOID", 1, <<>>)}
TwoLines      == {Ask("SALE", 0, <<Of(p1, 1), Of(p1, 1)>>), Ask("RESTOCK", 0, <<Of(p1, 2)>>)}
Halves        == {Ask("SALE", 0, <<Of(p1, 2)>>), Ask("RETURN", 1, <<Back(1, 1)>>)}
=============================================================================
