SPECIFICATION LPSpec
CONSTANTS
    Accounts = {a1}
    Keys = {k1, k2}
    Names = {}
    Proposals = {}
    NoBond = NoBond
    NoName = NoName
    NoEpoch = NoEpoch
    NoAccount = NoAccount
    BpsDenom = 10
    Fee = 0
    BurnMinBps = 4
    BurnMaxBps = 7
    BurnDefaultBps = 5
    MinBond = 4
    LockLedgers = 3
    BondAmounts = {4}
    Rounds = {}
    Hashes = {}
    InitialBalance = 8
    InitialTreasury = 20
    MaxSeq = 9
    MaxSigned = 0
    EpochLedgers = 2
    FlagInterval = 1
    FirstEmissionEpoch = 1
    EmissionBps <- MCEmissionBps
    TreasuryPerBps = 2
    TreasurySensitivity = 1
    BpsPerProvider = 1
    MaxProviders = 2
    MaxLpBps = 2
    MinComposite = 1
    EmaNewBps = 3
    RawScores = {0, 9}
    Vaults = {}
    Amms = {}
    AmmReserve = 1
    MinMantissa = 1
    MaxShares = 1
    MaxTokens = 1
SYMMETRY Symmetric
INVARIANTS
    PoolFunded
    PoolAccounting
    AggregateCoversBonded
    OneRewardPerEpoch
CHECK_DEADLOCK FALSE
