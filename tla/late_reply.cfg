SPECIFICATION Spec
CONSTANTS
    Posts = {1, 2, 3}
    Names = {n1}
    None = None
    SessionTTL = 3
    RequestTimeout = 2
    WriteTimeout = 1
    ShutdownTimeout = 1
INVARIANTS CallersAreTold
CHECK_DEADLOCK FALSE
