CONSTANTS
    Peer = {p}
    Tab = {t}
    Capacity = 2
    Budget <- Some
SPECIFICATION Spec
INVARIANTS
    TabFollows
CHECK_DEADLOCK FALSE
