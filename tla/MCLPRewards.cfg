SPECIFICATION LPSpec
CONSTANTS
    Accounts = {a1, a2}
    Keys = {k1}
    Names = {}
    Proposals = {}
    NoBond = NoBond
    NoName = NoName
    NoEpoch = NoEpoch
    NoAccount = NoAccount
    BpsDenom = 10
    Fee = 0
    BurnMinBps = 4
    BurnMaxBps = 7
    BurnDefaultBps = 5
    MinBond = 4
    LockLedgers = 3
    BondAmounts = {4}
    Rounds = {}
    Hashes = {}
    InitialBalance = 4
    InitialTreasury = 20
    MaxSeq = 5
    MaxSigned = 0
    EpochLedgers = 2
    FlagInterval = 1
    FirstEmissionEpoch = 1
    EmissionBps <- MCEmissionBps
    TreasuryPerBps = 2
    TreasurySensitivity = 1
    BpsPerProvider = 4
    MaxProviders = 2
    MaxLpBps = 4
    MinComposite = 1
    EmaNewBps = 3
    RawScores = {9}
    Vaults = {v1}
    Amms = {m1}
    AmmReserve = 1
    MinMantissa = 1
    MaxShares = 2
    MaxTokens = 1
SYMMETRY Symmetric
INVARIANTS
    LpTypeOK
    PoolFunded
    PoolAccounting
    LpBasketKept
CHECK_DEADLOCK FALSE
