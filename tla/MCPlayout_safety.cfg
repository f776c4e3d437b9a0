SPECIFICATION Spec
CONSTANTS
    Settings <- AllSettings
INVARIANTS
    TypeOK SlotsMatchInstances SlotsDistinct SelectedShareActivation HoldPairs ResetRecovers
PROPERTIES MovesCompletely
CHECK_DEADLOCK FALSE
