CONSTANTS
    Lower = Lower
    Higher = Higher
    Conn = {c1, c2}
    None = None
    Patient = FALSE
    Budget <- Lossy
SPECIFICATION FairSpec
INVARIANTS
    TypeOK
    ConsentFirst
    KeyAgreement
PROPERTIES
    PairsUp
CHECK_DEADLOCK FALSE
