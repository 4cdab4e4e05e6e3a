\* Orders that pick and load the same lines of two products, every click on a fresh form.
CONSTANTS
    Orders = {o1, o2, o3}
    PiLines <- MCLines
    PiQty <- MCQty2
    Products = {1, 2}
    ProductOf <- MCTwoProducts
    Qtys = {1}
    PoStale = FALSE
SPECIFICATION Spec
INVARIANTS PoTypeOK PendingWithinIndent TakenIsOrdered FlagHasOrder
SYMMETRY OrdersAlike
CHECK_DEADLOCK FALSE
