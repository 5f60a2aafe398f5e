---------------------------- MODULE MCReturnForm ----------------------------
\* Two sales of one item each: the first of two units, at a discount of 1.
EXTENDS ReturnForm

CONSTANTS s1, s2, i1, i2

MCSaleItem == [i \in {i1, i2} |-> IF i = i1
                 THEN [sale |-> s1, quantity |-> 2, line_total |-> 4]
                 ELSE [sale |-> s2, quantity |-> 1, line_total |-> 3]]
MCPaid == [s \in {s1, s2} |-> 3]
=============================================================================
