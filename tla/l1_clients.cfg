CONSTANTS
    Jobs <- JobIdsMC
    Miner = miner
    Client = client
    Other = other
    Accounts = {miner, client, other}
    Models = {mistral}
    Supported = {mistral}
    Tokens <- OneSize
    NoOne = NoOne
    CLAIM_WINDOW = 1
    SUBMIT_DEADLINE = 1
    CHALLENGE_PERIOD = 1
    DISPUTE_TIMEOUT = 1
    JOB_FEE = 10
    MINER_BOND = 3
    FeeBps = {1000}
    RoyaltyBps = {}
    Tips = {0}
    MAX_SUPPLY = 100
    HALVING_INTERVAL = 1000
    BASE_REWARD <- OneTier
    Requests = {q1}
    max_jobs = 1
    challenge_wait = 2
    MinerRetries = 2
    ClientRetries = 2
    MaxFaults = 1
SPECIFICATION FairClients
CHECK_DEADLOCK FALSE
INVARIANTS
    MinerActsOnChain
    InferIsHonest
PROPERTIES
    SubmittedIsSettled
    SlotsReturn
