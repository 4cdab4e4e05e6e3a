\* Receipts of both kinds from fresh forms and issues from any form, over the same lots.
CONSTANTS
    Orders = {1}
    PoLines <- MCPoLines
    OrderOf <- MCOrderOf
    OrderQty <- MCOrderQty
    Tolerance <- MCTolerance
    Grns <- MCGrns
    Users = {u1, u2}
    NoUser = nobody
    Rejects = {0}
    Batches = {0}
    Removable = {}
    GrnLots <- MCGrnLots
    GrnOf <- MCGrnOf
    PoLineOf <- MCPoLineOf
    GrnStale = FALSE
    MaxReceived = 2
    MaxReturn = 2
    GenGrns = {1}
    GenLines <- MCGenLines
    GenOf <- MCGenOf
    GenQtys = {1}
    GenBatches = {0, 1}
    GenLots <- MCGenLots
    GenLineOf <- MCGenLineOf
    GenStale = FALSE
    Issues = {i1}
    IndentLines <- MCIndentLines
    Products = {"rod"}
    ProductOf <- MCProductOf
    IndentQty <- MCIndentQty
    Unit = 1
    StaleForms = TRUE
    Lots <- MCLots
    Qtys = {1}
SPECIFICATION Spec
INVARIANTS LedgerShowsStock MovesInMatchLots ApprovedInStock
PROPERTY StoreCard
SYMMETRY UsersAlike
CHECK_DEADLOCK FALSE
