SPECIFICATION Spec
CONSTANTS
    Chars = {"a", "b", "0", "1", "bar"}
    Devices <- OneDevice
    Ids <- OneId
    Conns = {c1, c2}
    Reqs = {r1, r2}
    Msgs = {r1, r2}
    NoConn = NoConn
    NoReq = NoReq
    Free = Free
    SendCap = 1
    MaxAttempts = 2
SYMMETRY Symmetry
INVARIANTS PendingIsOpen OpenIsPendingAndTimed NoWaitOnOffline NoTheft
PROPERTIES ClosedIsFinal ImplementsCalls
CHECK_DEADLOCK FALSE
