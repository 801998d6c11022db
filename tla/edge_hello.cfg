SPECIFICATION FairSpec
CONSTANTS
    Chars = {"a", "b", "0", "1", "bar"}
    Devices <- OneDevice
    Conns = {c1, c2}
    Hellos = {x1, x2}
    NoHello = NoHello
    Msgs <- Handshakes
    NoConn = NoConn
    Free = Free
    SendCap = 1
INVARIANTS ListedIsOpen OpenIsListed StrangersAreCutOff LiveReadersSurvive LatestIsShown HandshakeEchoes StepsEnabled
PROPERTIES EverySocketEnds ImplementsLinks
CHECK_DEADLOCK FALSE
