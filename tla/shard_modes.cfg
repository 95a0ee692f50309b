CONSTANTS
    j1 = j1
    j2 = j2
    j3 = j3
    j4 = j4
    m1 = m1
    m2 = m2
    m3 = m3
    NoJob = NoJob
    NoMiner = NoMiner
    Jobs = {j1, j2, j3, j4}
    Miners = {m1, m2, m3}
    Shards <- ThreeShards
    MaxDispatch = 2
    Mode <- FourModes
    NShards <- OneToThree
    Parent <- NoParents
SPECIFICATION Spec
CONSTRAINT FewInFlight
CONSTRAINT OneJobPosted
CONSTRAINT OneRecovered
SYMMETRY MinerSymmetry
INVARIANTS
    ResultFromAssignee
    CommitsAreOfAssembledJobs
    CommitsFitTheMode
    PaidPerAssembly
PROPERTIES
    AssembledIsFinal
    SlashesTheAssignee
