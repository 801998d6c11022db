SPECIFICATION FairSpec
CONSTANTS
    Chars = {"a", "b", "0", "1", "bar"}
    Devices <- OneDevice
    Ids <- OneId
    Conns = {c1}
    Reqs = {r1, r2}
    Msgs = {r1, r2}
    NoConn = NoConn
    NoReq = NoReq
    Free = Free
    SendCap = 1
    MaxAttempts = 2
INVARIANTS StepsEnabled
PROPERTIES EveryCallEnds
CHECK_DEADLOCK FALSE
