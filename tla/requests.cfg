\* Three handlers over three rows, two connections, restarts at any moment.
CONSTANTS
    Requests <- MCRequests
    Rows <- MCRows
    NoRow = none
    Writes <- MCWrites
    NoWaitRows = {"number"}
    Slots = {s1, s2}
    NoSlot = noslot
    Databases = {"main"}
    NoDb = nodb
    DbOf <- MCDbOf
    MaxTries = 1
SPECIFICATION Spec
INVARIANTS RequestsTypeOK PoolKept Numbered
PROPERTIES FullMeansInUse Answered AtomicHandlers
CHECK_DEADLOCK FALSE
