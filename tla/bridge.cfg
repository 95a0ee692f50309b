CONSTANTS
    Challengers = {alice}
    Owner = owner
    Zero = zero
    Roots <- SmallRoots
    NoRoot = NoRoot
    L2Root <- SmallRoot
    STATE_ROOT_INTERVAL = 2
    FRAUD_WINDOW = 1
    CHALLENGE_BOND = 1
    Values = {1}
    MaxBlock = 4
    MaxEth = 2
    Withdrawals = {w1}
    Worth <- SmallWorth
    Amounts = {2}
    MaxDeposits = 2
    MaxUnanswered = 1
SPECIFICATION FairSpec
CONSTRAINT FewThings
INVARIANTS
    
    BridgeIsSound
    CreditsExplained
PROPERTIES
    FinalizedIsPermanent
    DepositArrives
