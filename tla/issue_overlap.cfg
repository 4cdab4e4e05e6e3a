\* Two documents compete for the lots and the indent lines of one product, from any form.
CONSTANTS
    Issues = {i1, i2}
    IndentLines <- MCTwoIndents
    IndentQty <- MCIndentQty2
    Lots <- MCLots
    OpeningQty <- MCOpening
    Products = {"rod"}
    ProductOf <- MCRods
    Qtys = {2}
    Unit = 1
    StaleForms = TRUE
SPECIFICATION Spec
INVARIANTS TypeOK LotLedger IndentChargedOnce MovesMatchLots
PROPERTY CardSpec
CHECK_DEADLOCK FALSE
