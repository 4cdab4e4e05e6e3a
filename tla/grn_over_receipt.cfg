\* Refuted: two receipts loaded before either is confirmed take in twice the order.
CONSTANTS
    Orders = {1}
    PoLines <- MCLineA
    OrderOf <- MCOfOneA
    OrderQty <- MCQtyA
    Tolerance <- MCNoToleranceA
    Grns <- MCGrns
    Users = {u1, u2}
    NoUser = nobody
    Qtys = {1, 2}
    Rejects = {0}
    Batches = {0}
    Removable = {}
    Lots <- MCLotsA
    GrnLots <- MCLotsA
    GrnOf <- MCGrnOfA
    PoLineOf <- MCLineOfA
    GrnStale = FALSE
    MaxReceived = 4
    MaxReturn = 2
SPECIFICATION Spec
INVARIANT WithinOrder
CHECK_DEADLOCK FALSE
