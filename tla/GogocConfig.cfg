\* gogoc, an editor and the device map on their files.
CONSTANTS
    Facts <- MCFacts
    HACCESS = TRUE
    V4V6_SUPPORT = TRUE
    DEBUG = FALSE
    Texts <- MCTexts
    DeviceTexts <- MCDeviceTexts
    DefaultTexts <- MCDefaultTexts
    Openings <- MCOpenings
    Edits <- MCEdits
    Mappings <- MCMappings
    Casts <- MCCasts

SPECIFICATION Spec

INVARIANT UsedConfigConsistent
PROPERTIES SavedIsReadBack NoStaleSuccess

\* The bounds stop every process in the end.
CHECK_DEADLOCK FALSE
