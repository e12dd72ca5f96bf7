CONSTANTS
    self = self
    other = other
    a1 = a1
    b1 = b1
    a2 = a2
    Nodes <- TheNodes
    Ledgers <- TheLedgers
    SeqOf <- TheSeqs
    Listed <- TheLists
    Self = self
    Delays = {0, 1}
    CURRENT_EARLY = 2
    CURRENT_WALL = 1
    SET_EXPIRES = 1
    MaxTime = 3
    MaxRestarts = 1
SYMMETRY TheSymmetry
SPECIFICATION Spec
INVARIANTS
    TypeOK
    TrieMatchesLast
    VoteTracked
    CountedOnce
PROPERTY TrustIsApplied
CHECK_DEADLOCK FALSE
