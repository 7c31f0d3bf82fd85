SPECIFICATION Spec
CONSTANTS
    r1 = r1
    r2 = r2
    r3 = r3
    s1 = s1
    s2 = s2
    Writers = {r1, r2, r3}
    Streams = {s1, s2}
    Mixes <- Meetings
    Decisions = {d1, d2, d3}
    Skips = {d1}
    NumWorkers = 2
    ChanCap = 1
    TriggerCap = 1
    MaxFaults = 1
    MaxExits = 1
    NoStream = NoStream
INVARIANTS
    NoLostWakeup
    StreamIsExact
PROPERTIES
    ChangesAreActedOn
    
    SignalEndsProcess
