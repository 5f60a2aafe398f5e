SPECIFICATION Spec
CONSTANTS
    p1 = p1
    p2 = p2
    vat = vat
    NoTax = NoTax
    Products <- MCProducts
    InitCatalog <- MCCatalog
    Prices <- MCPrices
    TaxRates = {vat}
    InitRates <- MCRates
    DefaultTax = vat
    Amounts <- MCAmounts
    Discounts <- MCDiscounts
    Stored = 100
    Cent = 10000
    Errors <- MCErrors
    MaxUnits = 2
    MaxSales = 1
    MaxChanges = 1
    MaxRateChanges = 1
INVARIANT CreditIsOwed
CHECK_DEADLOCK FALSE
