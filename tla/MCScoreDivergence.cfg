SPECIFICATION Spec
CONSTANTS
    Nodes = {v1, v2}
    Servers = {x, y}
    l1 = l1
    l2 = l2
    Ledgers <- TheLedgers
    SeqOf <- TheSeqs
    Previous <- Composites
    SlashMult <- Unslashed
    CURRENT_EARLY = 3
    CURRENT_WALL = 5
    SET_EXPIRES = 10
    MaxTime = 2
INVARIANT
    ScoresAgree
CHECK_DEADLOCK FALSE
