SPECIFICATION PSpec
CONSTANTS
    MAX_RECORDS_PER_TABLE = 2
    MAX_INDEXES_PER_TABLE = 0
    INT_MAX = 3
    GLOBAL_COUNTER = 2
    MAX_TABLES = 1
    MAX_FIELDS_PER_TABLE = 2
    BATCH_INSERT_SIZE = 2
    MAX_TRANSACTION_LEVEL = 1
    Names = {"a"}
    Truncated <- Same
    Schemas <- MCSchemas
    Rows <- OneRow
    Batches <- OneBatch
    Values = {}
    MaxNodes = 2
    MaxVersion = 1
    Renamed <- Quoted
    Escaped <- Escape
    Printed <- Round
    NoNumber <- Odd
    Remade <- Winter
    Coerced <- Zero
    Files = {"s", "b"}
    StateFile = "s"
    BackupFile <- Backup
    Handlers = {"signal", "exit"}
INVARIANT AtomicWrite
CHECK_DEADLOCK FALSE
