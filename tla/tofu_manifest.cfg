CONSTANTS
    Lower = Lower
    Higher = Higher
    Conn = {c1}
    None = None
    Patient = TRUE
    Budget <- Once
SPECIFICATION FairSpec
PROPERTIES
    ManifestFollows
CHECK_DEADLOCK FALSE
