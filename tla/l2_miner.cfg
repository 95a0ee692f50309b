CONSTANTS
    m1 = m1
    m2 = m2
    j1 = j1
    j2 = j2
    Miners = {m1, m2}
    Jobs = {j1, j2}
    Assigned <- SmallAssigned
    PipelineJobs = {j2}
    Context <- SmallContext
    Takes <- SmallTakes
    RpcMiners = {m2}
    NoPiece = NoPiece
    NoContext = NoContext
    MaxShards = 2
    MaxOffers = 2
SPECIFICATION Spec
CONSTRAINT FewOffers
CHECK_DEADLOCK FALSE
INVARIANTS
    MinerIsConsistent
    ConfirmedPieceIsUsed
    
    NoIdleQueue
