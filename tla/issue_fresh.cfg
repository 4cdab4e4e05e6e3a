\* One document over two products, in halves of a unit, every click on a freshly read form.
CONSTANTS
    Issues = {i1}
    IndentLines <- MCTwoIndents
    IndentQty <- MCIndentQty2
    Lots <- MCLots
    OpeningQty <- MCOpening
    Products = {"rod", "plate"}
    ProductOf <- MCRodsAndPlates
    Qtys = {1, 2}
    Unit = 2
    StaleForms = FALSE
SPECIFICATION Spec
INVARIANTS IssuedOnce ItemsWithinLot
CHECK_DEADLOCK FALSE
