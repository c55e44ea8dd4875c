SPECIFICATION SSpec
CONSTANTS
    HISTORY_SIZE = 1
    Texts = {"a"}
    Clipped <- Same
    MAX_TABLES = 1
    MAX_INDEXES_PER_TABLE = 1
    TableNames = {"t"}
    Fields = {1}
    Files = {"state", "default", "backup"}
    StateFile = "state"
    DefaultFile = "default"
    Backups = {"backup"}
INVARIANTS ShellTypeOK MenusHaveDatabase
PROPERTIES ExitSaves TablesStay ErrorsHarmless EofSettles
