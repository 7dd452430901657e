CONSTANTS
    ChunkSize = 2
    Version <- Versions
    File = {a}
    Path = {a, c0, c1, out, tmp}
    Refused = {out}
    Second = {0, 1}
    CopyName <- CopyNames
    Temp <- Temporaries
    Dest = {a, out}
    None = None
    Absent = Absent
    Torn = Torn
    Budget <- Some
    a = a
    c0 = c0
    c1 = c1
    out = out
    tmp = tmp
SPECIFICATION Spec
INVARIANTS
    KeysAgree
    
    NoPartialExport
    SavedKept
CHECK_DEADLOCK FALSE
