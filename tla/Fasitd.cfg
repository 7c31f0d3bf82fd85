SPECIFICATION FairSpec
CONSTANTS
    Envs = {e1}
    Sessions = {s1, s2}
    Commands = {c1, c2}
    None = None
    SendBuffer = 1
    Faults = {"db_fail", "restart"}
INVARIANTS
    OneSession
    UndeliverableIsFinal
    NoReplay
    AgentOrder
PROPERTIES
    DispatchEnds
    SlotIsFreed
CHECK_DEADLOCK FALSE
