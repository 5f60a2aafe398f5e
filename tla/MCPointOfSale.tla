---------------------------- MODULE MCPointOfSale ----------------------------
\* A till with two products, one tax rate and amounts in ten-thousandths of a
\* cent: the prices and the 12.5% tax give totals that both roundings change, and
\* taxes both beside (2525) and in the middle (3750, 1250) of two stored amounts.
EXTENDS PointOfSale

CONSTANTS p1, p2, vat

MCProducts == {p1, p2}
MCCatalog  == [p \in {p1, p2} |-> [unit_price |-> IF p = p1 THEN 30000 ELSE 10000,
                                   quantity_on_hand |-> 1]]
MCPrices   == {20200}
MCRates    == [t \in {vat} |-> 125]
MCAmounts  == {0, 50000}
MCDiscounts == {0, 10000}
MCErrors   == {-1, 0, 1}
=============================================================================
