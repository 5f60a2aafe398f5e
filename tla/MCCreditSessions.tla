--------------------------- MODULE MCCreditSessions ---------------------------
(* The instances of the credit path that TLC explores. *)
EXTENDS CreditProperties

CONSTANTS c1, c2, w1, w2

MCInitLimit == [c \in Customers |-> IF c = c1 THEN 4 ELSE 1]

Sell(c, amount, paid) ==
    [op |-> "SALE", customer |-> c, sale |-> 0, amount |-> amount, paid |-> paid]
Settle(s, amount) ==
    [op |-> "SETTLE", customer |-> c1, sale |-> s, amount |-> amount, paid |-> 0]
Void(s) == [op |-> "VOID", customer |-> c1, sale |-> s, amount |-> 0, paid |-> 0]
Limit(c, amount) ==
    [op |-> "LIMIT", customer |-> c, sale |-> 0, amount |-> amount, paid |-> 0]
Delete(c) == [op |-> "DELETE", customer |-> c, sale |-> 0, amount |-> 0, paid |-> 0]

\* One request at a time: sales with and without a down payment, one of them paid
\* at once, settlements in part and in full, voids, and changes to the customers.
SerialRequests ==
    {Sell(c1, 3, 0), Sell(c1, 3, 1), Sell(c1, 2, 2), Sell(c2, 2, 1),
     Limit(c1, 1), Limit(c2, 3), Delete(c1)}
    \cup {Settle(s, amount) : s \in 1 .. 2, amount \in 1 .. 2}
    \cup {Void(s) : s \in 1 .. 2}

\* Two workers racing on one customer and one or two sales.
RacingRequests ==
    {Sell(c1, 3, 0), Sell(c1, 2, 1), Settle(1, 1), Settle(1, 2), Settle(1, 3), Void(1),
     Limit(c1, 2), Delete(c1)}

\* The smallest sets of requests that show each disagreement with the documents.
TwoSales       == {Sell(c1, 3, 0)}
TwoSettlements == {Sell(c1, 3, 0), Settle(1, 1), Settle(1, 3)}
=============================================================================
