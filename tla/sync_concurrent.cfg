CONSTANTS
    NodeA = NodeA
    NodeB = NodeB
    File = {f}
    Conflict <- OneName
    Content = {v0, v1, v2}
    Absent = Absent
    Dir <- OneFolder
    None = None
    Initial <- Shared
    Patient = {"folder"}
    Budget <- Rapid
    f = f
    g = g
    c = c
    v0 = v0
    v1 = v1
    v2 = v2
    d1 = d1
    d2 = d2
SPECIFICATION Spec
INVARIANTS
    FileSurvives
CHECK_DEADLOCK FALSE
