SPECIFICATION Spec
CONSTANTS
    MAX_RECORDS_PER_TABLE = 2
    MAX_INDEXES_PER_TABLE = 1
    INT_MAX = 3
    GLOBAL_COUNTER = 2
    MAX_TABLES = 1
    MAX_FIELDS_PER_TABLE = 2
    BATCH_INSERT_SIZE = 2
    MAX_TRANSACTION_LEVEL = 2
    Names = {"a", "b"}
    Truncated <- Short
    Schemas <- OneSchema
    Rows <- MCRows
    Batches <- MCBatches
    Values = {1, 2, 3}
    MaxNodes = 3
    MaxVersion = 2
INVARIANT UpdatedKeysDistinct
