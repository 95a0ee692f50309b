CONSTANTS
    client = client
    miner = miner
    Accounts = {client, miner}
    Wallets = {client}
    Miners = {miner}
    Jobs = {j1}
    Deposits = {d1}
    Amounts = {2}
    Fees = {3}
    ShardCounts = {2}
    GasPrices = {1, 2}
    GenesisBalance <- SmallBalance
    GenesisStake <- SmallStake
    Deposit <- SmallDeposit
    MAX_SIZE = 3
    MAX_TXS = 2
    SNAPSHOT_EVERY = 2
    NoOne = NoOne
    NoId = NoId
    MaxNonce = 1
    MaxAssemblies = 1
    MaxSlashes = 1
    MaxRelays = 1
SPECIFICATION FairSpec
CONSTRAINT FewSubmitted
INVARIANTS
    
    OncePerNonce
    PendingNoncesAreReal
PROPERTIES
    PoolDrains
