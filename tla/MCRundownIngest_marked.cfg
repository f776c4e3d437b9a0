SPECIFICATION IngestSpec
CONSTANTS
    Settings <- IngestSettings
INVARIANTS
    DeletedIsMarked
CHECK_DEADLOCK FALSE
