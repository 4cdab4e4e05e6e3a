\* Two receipts of one order line overlap, from whichever forms; goods go back.
CONSTANTS
    Orders = {1}
    PoLines <- MCLineA
    OrderOf <- MCOfOneA
    OrderQty <- MCQty3A
    Tolerance <- MCTolerance1A
    Grns <- MCGrns
    Users = {u1, u2}
    NoUser = nobody
    Qtys = {1}
    Rejects = {0, 1}
    Batches = {0, 1}
    Removable = {1}
    Lots <- MCLotsA
    GrnLots <- MCLotsA
    GrnOf <- MCGrnOfA
    PoLineOf <- MCLineOfA
    GrnStale = TRUE
    MaxReceived = 4
    MaxReturn = 2
SPECIFICATION Spec
INVARIANTS GrnTypeOK FourEyes OpenQty OpenQtyReturned ReceivedInLots
PROPERTY WithheldWhileWaiting
SYMMETRY UsersAlike
CHECK_DEADLOCK FALSE
