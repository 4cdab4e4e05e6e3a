\* Two purchase indents over two indent lines of one product, every click on
\* a fresh form.
CONSTANTS
    Pi1 = Pi1
    Pi2 = Pi2
    Pis <- MCPis
    DiLines <- MCLines
    Products = {1}
    ProductOf <- MCOneProduct
    Asked <- MCAsked
    Qtys = {1, 2, 3}
    PiStale = FALSE
SPECIFICATION Spec
INVARIANTS IndentTypeOK PendingFollows DoneIsDone TakenIsIndented
SYMMETRY PisAlike
CHECK_DEADLOCK FALSE
