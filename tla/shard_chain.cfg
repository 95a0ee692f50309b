CONSTANTS
    j1 = j1
    j2 = j2
    j3 = j3
    j4 = j4
    m1 = m1
    m2 = m2
    m3 = m3
    NoJob = NoJob
    NoMiner = NoMiner
    Jobs = {j1, j2}
    Miners = {m1, m2}
    Shards <- OneShard
    MaxDispatch = 1
    Mode <- RaceMode
    NShards <- Singles
    Parent <- Chained
SPECIFICATION FairSpec
PROPERTIES
    ChainedJobsSettle
    RootJobsSettle
    ImplementsLifecycle
