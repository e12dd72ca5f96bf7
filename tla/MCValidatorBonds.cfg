SPECIFICATION Spec
CONSTANTS
    Accounts = {a1, a2}
    Keys = {k1, k2}
    Names = {}
    Proposals = {}
    NoBond = NoBond
    NoName = NoName
    NoEpoch = NoEpoch
    NoAccount = NoAccount
    BpsDenom = 10
    Fee = 2
    BurnMinBps = 4
    BurnMaxBps = 7
    BurnDefaultBps = 5
    MinBond = 4
    LockLedgers = 2
    BondAmounts = {3, 4}
    Rounds = {1, 2}
    Hashes = {h1, h2}
    InitialBalance = 10
    InitialTreasury = 5
    MaxSeq = 4
    MaxSigned = 2
SYMMETRY Symmetric
INVARIANTS
    TypeOK
    SupplyIsHeld
    BondsWellFormed
    OnlyEquivocatorsSlashed
    OwnerCountExact
PROPERTIES
    BondsAreEscrowed
CHECK_DEADLOCK FALSE
