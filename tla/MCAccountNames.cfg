SPECIFICATION NameSpec
CONSTANTS
    Accounts = {a1, a2}
    Keys = {k1}
    Names = {n1, n2}
    Proposals = {}
    NoBond = NoBond
    NoName = NoName
    NoEpoch = NoEpoch
    NoAccount = NoAccount
    BpsDenom = 10
    Fee = 1
    BurnMinBps = 4
    BurnMaxBps = 7
    BurnDefaultBps = 5
    MinBond = 4
    LockLedgers = 2
    BondAmounts = {4}
    Rounds = {1}
    Hashes = {h1, h2}
    InitialBalance = 9
    InitialTreasury = 5
    MaxSeq = 4
    MaxSigned = 2
    NameBond = 3
    NameUnbondLedgers = 1
SYMMETRY Symmetric
INVARIANTS
    NamesMatchOwners
    OwnerCountCoversNames
PROPERTIES
    BondsAndNamesAreEscrowed
CHECK_DEADLOCK FALSE
