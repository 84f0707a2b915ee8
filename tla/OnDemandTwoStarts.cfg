\* A request and an operator start the same row.
SPECIFICATION Spec
CONSTANTS
    m1 = m1  r1 = r1  r2 = r2  r3 = r3  s1 = s1  o1 = o1
    p1 = p1  p2 = p2  p3 = p3
    NoProc = NoProc  NoOne = NoOne
    Row = m1
    Models <- MCModels
    Threads <- MCThreads
    Readers = {r1}
    Procs <- MCTwoProcs
    Port <- MCPort
    Pid <- MCPidOfTwo
    Requests = {r1}
    Sweepers = {}
    Operators = {o1}
    Kinds = {"chat"}
    Window = 2
INVARIANTS NoDoubleSpawn
CHECK_DEADLOCK FALSE
