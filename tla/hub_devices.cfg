SPECIFICATION Spec
CONSTANTS
    Chars = {"a", "b", "0", "1", "bar"}
    Devices <- PrefixDevices
    Ids <- ManyIds
    Conns = {c1}
    Reqs = {r1, r2}
    Msgs = {r1, r2}
    NoConn = NoConn
    NoReq = NoReq
    Free = Free
    SendCap = 2
    MaxAttempts = 2
SYMMETRY Symmetry
INVARIANTS SentToItsDevice AnswersMatch AnswersFromOwnDevice
PROPERTIES ClosedForAReason 
CHECK_DEADLOCK FALSE
