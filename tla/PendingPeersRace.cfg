CONSTANTS
    r1 = r1
    r2 = r2
    p1 = p1
    p2 = p2
    v1 = v1
    v2 = v2
    Requests = {r1, r2}
    Peers = {p1, p2}
    Values = {v1, v2}
    Actions = {"add", "remove", "bogus"}
    ChangeLists <- MCChangeLists
    InitialFiles <- MCInitialFiles
    LoadMayFail = FALSE
SPECIFICATION Spec
PROPERTY AtomicChange
