CONSTANTS
    Miners = {m1, m2}
    Vault = Vault
    HashNonces = {1}
    Amounts = {3}
    MAX_SUPPLY = 7
    INITIAL_REWARD = 4
    HALVING_INTERVAL = 2
    DIFFICULTY_INTERVAL = 1
    TARGET_BLOCK_TIME = 1
    MINIMUM_TARGET = 2
    MAXIMUM_TARGET = 8
    SNAPSHOT_EVERY = 2
    MaxBlock = 3
    MaxRestarts = 1
SPECIFICATION Spec
CONSTRAINTS FewWaiting FewBlocks
INVARIANT SupplyAcrossLayers
