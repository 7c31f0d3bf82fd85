SPECIFICATION Spec
CONSTANTS
    Keys = {k1, k2}
    Txs = {t1, t2, t3}
    NoTx = NoTx
    Reported = {"installing"}
    MaxClock = 2
SYMMETRY Symmetric
INVARIANTS
    CurrentIsLatest
PROPERTIES
    ViewSpec
CHECK_DEADLOCK FALSE
