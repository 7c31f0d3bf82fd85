SPECIFICATION Spec
CONSTANTS
    r1 = r1
    r2 = r2
    r3 = r3
    s1 = s1
    s2 = s2
    Writers = {r1, r2, r3}
    Streams = {s1, s2}
    Mixes <- Crowd
    Decisions = {d1, d2}
    Skips = {d1}
    NumWorkers = 1
    ChanCap = 1
    TriggerCap = 1
    MaxFaults = 0
    MaxExits = 0
    NoStream = NoStream
PROPERTIES
    StreamIsAnswered
