CONSTANTS
    Peer = {p1}
    File = {f1, f2}
    Data = {d1, d2, d3, d4, d5}
    Key = {k1}
    None = None
    Absent = Absent
    f1 = f1
    f2 = f2
    d1 = d1
    d2 = d2
    d3 = d3
    d4 = d4
    d5 = d5
    Version <- Long
    MaxConcurrentFiles = 2
    Window = 2
    EncryptedProtocol = TRUE
    Budget <- Slow
SPECIFICATION Spec
INVARIANTS
    StreamCap
CHECK_DEADLOCK FALSE
