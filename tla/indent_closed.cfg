\* One indent line, one purchase indent, and the closing of the line.
CONSTANTS
    Pi1 = Pi1
    Pi2 = Pi2
    Pis = {Pi1}
    DiLines <- MCLine
    Products = {1}
    ProductOf <- MCLineProduct
    Asked <- MCLineAsked
    Qtys = {1, 2}
    PiStale = FALSE
SPECIFICATION Spec
PROPERTY ClosedUnreferred
CHECK_DEADLOCK FALSE
