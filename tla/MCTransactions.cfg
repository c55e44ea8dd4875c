SPECIFICATION TSpec
CONSTANTS
    Threads = {"p", "q"}
    Objects = {"x", "y", "z"}
    MaxId = 3
INVARIANTS TransactionTypeOK TxnIdsUnique
PROPERTIES OutcomeFinal MutexReleased
CHECK_DEADLOCK FALSE
