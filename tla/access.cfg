SPECIFICATION Spec
CONSTANTS
    Chars = {"a", "b", "0", "1", "bar"}
    Devices <- OneDevice
    Conns = {c1, c2}
    Msgs = {m}
    NoConn = NoConn
    Free = Free
    SendCap = 1
    Registers = {g1}
    Pairings = {}
    Confirms = {}
    Revokes = {v1, v2}
    Loader = Loader
    Old = {old}
    Codes = {}
    NoCred = NoCred
    Blank = Blank
    Garbled = Garbled
    DiskFails = TRUE
SYMMETRY Symmetry
INVARIANTS OnlyLateSocketsStay
CHECK_DEADLOCK FALSE
