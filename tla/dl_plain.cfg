CONSTANTS
    Peer = {p1}
    File = {f1, f2}
    Data = {d1, d2, d3}
    Key = {k1}
    None = None
    Absent = Absent
    f1 = f1
    f2 = f2
    d1 = d1
    d2 = d2
    d3 = d3
    d4 = d4
    d5 = d5
    Version <- Sharing
    MaxConcurrentFiles = 1
    Window = 1
    EncryptedProtocol = FALSE
    Budget <- Busy
SPECIFICATION Spec
INVARIANTS
    TypeOK
    GotVerified
    NoTornFile
PROPERTIES
    DeliversFiles
CHECK_DEADLOCK FALSE
