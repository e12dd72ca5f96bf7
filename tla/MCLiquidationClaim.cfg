CONSTANTS
    l1 = l1
    l2 = l2
    b1 = b1
    i1 = i1
    i2 = i2
    Lenders = {l1, l2}
    Brokers = {b1}
    Loans = {i1, i2}
    NoBroker = NoBroker
    NoLoan = NoLoan
    Absent = Absent
    Principal = 2
    Interest = 1
    Payments = 2
    Penalty = 1
    ServiceFee = 1
    Collaterals = {2}
    Prices = {1, 2}
    Amounts = {1, 2}
    CoverRateMin = 2500
    CoverRateLiq = 10000
    BpsDenom = 10000
    MinCollateralBps = 15000
    LiquidationBps = 11000
    IndexScale = 12
    MaxShares = 4
    MaxAssets = 5
    MaxCover = 1
    MaxDrops = 4
    MaxDebt = 36
SPECIFICATION LendingSpec
SYMMETRY Symmetric
INVARIANT ClaimsAreHonoured
