SPECIFICATION HSpec
CONSTANTS
    HISTORY_SIZE = 4
    Texts = {"a", "b", "c", "long"}
    Clipped <- Cut
INVARIANT NoDuplicates
