SPECIFICATION Spec
CONSTANTS
    Chars = {"a", "b", "0", "1", "bar"}
    Devices <- OneDevice
    Ids <- OneId
    Conns = {c1}
    Reqs = {r1}
    Msgs = {r1}
    NoConn = NoConn
    NoReq = NoReq
    Free = Free
    SendCap = 1
    MaxAttempts = 2
CHECK_DEADLOCK FALSE
INVARIANT NoPanic
