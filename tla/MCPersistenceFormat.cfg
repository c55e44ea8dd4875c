SPECIFICATION PSpec
CONSTANTS
    MAX_RECORDS_PER_TABLE = 2
    MAX_INDEXES_PER_TABLE = 0
    INT_MAX = 3
    GLOBAL_COUNTER = 2
    MAX_TABLES = 1
    MAX_FIELDS_PER_TABLE = 7
    BATCH_INSERT_SIZE = 2
    MAX_TRANSACTION_LEVEL = 1
    Names = {"a", "q"}
    Truncated <- Cut
    Schemas <- FormatSchemas
    Rows <- FormatRows
    Batches = {}
    Values = {}
    MaxNodes = 2
    MaxVersion = 1
    Renamed <- Quoted
    Escaped <- Escape
    Printed <- Round
    NoNumber <- Odd
    Remade <- Winter
    Coerced <- Zero
    Files = {"s"}
    StateFile = "s"
    BackupFile <- NoBackup
    Handlers = {}
VIEW EngineAndFiles
PROPERTIES ReloadFaithful WholeFilesLoad LoadReturns
CHECK_DEADLOCK FALSE
