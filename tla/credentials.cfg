SPECIFICATION CredSpec
CONSTANTS
    Chars = {"a", "b", "0", "1", "bar"}
    Devices <- TwoDevices
    Registers = {g1}
    Pairings = {p1}
    Confirms = {k1, k2}
    Revokes = {v1}
    Loader = Loader
    Old = {old}
    Codes = {n1}
    NoCred = NoCred
    Blank = Blank
    Garbled = Garbled
    DiskFails = TRUE
SYMMETRY Symmetry
INVARIANTS SavedUnlessSuspect CodeUsedOnce OnlyConfirmedAdmitted
CHECK_DEADLOCK FALSE
