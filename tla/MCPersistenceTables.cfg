SPECIFICATION PSpec
CONSTANTS
    MAX_RECORDS_PER_TABLE = 2
    MAX_INDEXES_PER_TABLE = 0
    INT_MAX = 3
    GLOBAL_COUNTER = 2
    MAX_TABLES = 2
    MAX_FIELDS_PER_TABLE = 2
    BATCH_INSERT_SIZE = 2
    MAX_TRANSACTION_LEVEL = 1
    Names = {"a", "b", "q", "along"}
    Truncated <- Cut
    Schemas <- MCSchemas
    Rows <- KeyedRows
    Batches = {}
    Values = {}
    MaxNodes = 1
    MaxVersion = 1
    Renamed <- Quoted
    Escaped <- Escape
    Printed <- Round
    NoNumber <- Odd
    Remade <- Winter
    Coerced <- Zero
    Files = {"s"}
    StateFile = "s"
    BackupFile <- NoBackup
    Handlers = {}
VIEW EngineAndFiles
INVARIANTS AutoIdFresh NamesDistinct
PROPERTIES ReloadFaithful WholeFilesLoad
CHECK_DEADLOCK FALSE
