\* Refuted: a line that stands for two indent lines charges neither.
CONSTANTS
    Orders = {1, 2}
    PiLines <- MCLines
    PiQty <- MCQty2
    Products = {1}
    ProductOf <- MCSameProduct
    Qtys = {1, 2}
    PoStale = FALSE
SPECIFICATION OneByOneSpec
INVARIANT WithinIndent
CHECK_DEADLOCK FALSE
