\* All the actors of one row.
SPECIFICATION Spec
CONSTANTS
    m1 = m1  r1 = r1  r2 = r2  r3 = r3  s1 = s1  o1 = o1
    p1 = p1  p2 = p2  p3 = p3
    NoProc = NoProc  NoOne = NoOne
    Row = m1
    Models <- MCModels
    Threads <- MCThreads
    Readers = {r1, r2}
    Procs <- MCProcs
    Port <- MCPort
    Pid <- MCPid
    Requests = {r1, r2}
    Sweepers = {s1}
    Operators = {o1}
    Kinds = {"stream", "audio"}
    Window = 2
SYMMETRY Symmetry
INVARIANTS TypeOK InFlightAccurate OwnershipExclusive
PROPERTIES StopsOnlyItsOwn UnloadAfterQuietWindow
CHECK_DEADLOCK FALSE
