CONSTANTS
    Peer = {p}
    Tab = {t}
    Capacity = 2
    Budget <- Some
SPECIFICATION Spec
INVARIANTS
    NeverMisses
CHECK_DEADLOCK FALSE
