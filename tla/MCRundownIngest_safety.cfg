SPECIFICATION IngestSpec
CONSTANTS
    Settings <- IngestSettings
INVARIANTS
    IngestTypeOK SlotsFollowRundown RundownFollowsNrcs
PROPERTIES
    OrphansStayTended
CHECK_DEADLOCK FALSE
