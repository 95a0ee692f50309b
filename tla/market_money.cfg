CONSTANTS
    Jobs = {j1, j2}
    Accounts = {a1, a2}
    Models = {mistral}
    Tokens <- OneSize
    NoOne = NoOne
    CLAIM_WINDOW = 1
    SUBMIT_DEADLINE = 1
    CHALLENGE_PERIOD = 1
    DISPUTE_TIMEOUT = 1
    JOB_FEE = 10
    MINER_BOND = 3
    FeeBps = {1000}
    RoyaltyBps = {5000}
    Tips = {0}
    MAX_SUPPLY = 5
    HALVING_INTERVAL = 2
    BASE_REWARD <- BigTier
    MaxEth = 29
SPECIFICATION Spec
CONSTRAINT EthBound
SYMMETRY MarketSymmetry
INVARIANTS
    Solvent
    NoStrandedBond
    MintedOnceWithinCap
PROPERTIES
    PunishedForCause
