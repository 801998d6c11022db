SPECIFICATION ConnSpec
CONSTANTS
    Chars = {"a", "b", "0", "1", "bar"}
    Devices <- OneDevice
    Conns = {c1, c2}
    Msgs = {m}
    NoConn = NoConn
    Free = Free
    SendCap = 1
PROPERTY StaysListed
CHECK_DEADLOCK FALSE
