SPECIFICATION GovSpec
CONSTANTS
    Accounts = {a1}
    Keys = {k1}
    Names = {}
    Proposals = {p1}
    NoBond = NoBond
    NoName = NoName
    NoEpoch = NoEpoch
    NoAccount = NoAccount
    BpsDenom = 10
    Fee = 0
    BurnMinBps = 4
    BurnMaxBps = 7
    BurnDefaultBps = 5
    MinBond = 4
    LockLedgers = 6
    BondAmounts = {4}
    Rounds = {}
    Hashes = {}
    InitialBalance = 4
    InitialTreasury = 10
    MaxSeq = 10
    MaxSigned = 0
    EpochLedgers = 4
    FlagInterval = 2
    FirstEmissionEpoch = 1
    EmissionBps <- MCEmissionBps
    TreasuryPerBps = 2
    TreasurySensitivity = 1
    BpsPerProvider = 1
    MaxProviders = 2
    MaxLpBps = 2
    MinComposite = 1
    EmaNewBps = 3
    RawScores = {0, 9}
    Vaults = {}
    Amms = {}
    AmmReserve = 1
    MinMantissa = 1
    MaxShares = 0
    MaxTokens = 1
    VotingLedgers = 4
    SupermajorityBps = 7
    ProposalValues = {7}
    MaxU32 = 100
    NoProposal = NoProposal
    NoParams = NoParams
PROPERTIES
    ListDrains
CHECK_DEADLOCK FALSE
