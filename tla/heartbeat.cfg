SPECIFICATION FairSpec
CONSTANTS
    Chars = {"a", "b", "0", "1", "bar"}
    Devices <- OneDevice
    Conns = {c1}
    Msgs = {m1}
    NoConn = NoConn
    Free = Free
    SendCap = 1
    PongWait = 12
    WriteWait = 2
    Hold = 1
    Lag = 0
    MaxOwed = 2
INVARIANTS PromptPeerStays ZombieIsBrief DrainIsBrief
PROPERTIES EndsUnlessPonged
CHECK_DEADLOCK FALSE
