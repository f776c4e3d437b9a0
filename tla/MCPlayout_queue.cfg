SPECIFICATION Spec
CONSTANTS
    Settings <- OnlyHolds
PROPERTIES ConsumedQueueIsCleared
CHECK_DEADLOCK FALSE
