CONSTANTS
    s = s
    m1 = m1
    m2 = m2
    j1 = j1
    Seq0 = s
    NoMiner = NoMiner
    NoEnvelope = NoEnvelope
    Nodes = {s, m1, m2}
    Links <- Star
    Thinkers <- Both
    Benchmarks = {1}
    Envelopes <- AllEnvelopes
    MaxSockets = 3
    MaxBreaks = 1
SPECIFICATION MemoryFairSpec
CONSTRAINT OneUse
CHECK_DEADLOCK FALSE
INVARIANTS
    HeardOnce
    
PROPERTIES
    Reconnects
