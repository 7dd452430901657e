CONSTANTS
    NodeA = NodeA
    NodeB = NodeB
    File = {f, g}
    Conflict <- Names
    Content = {v0, v1, v2}
    Absent = Absent
    Dir <- Folders
    None = None
    Initial <- Start
    Patient = {"save", "remove", "folder"}
    Budget <- Turns
    f = f
    g = g
    c = c
    v0 = v0
    v1 = v1
    v2 = v2
    d1 = d1
    d2 = d2
SPECIFICATION FairSpec
INVARIANTS
    SettledAgree
PROPERTIES
    SettlesDown
CHECK_DEADLOCK FALSE
