CONSTANTS
    N = 2
    p1 = p1
    p2 = p2
    p3 = p3
    p4 = p4
    MaxHops = 3
    MaxMoves = 4
    TurnOrder <- TwoPlayers
    BlockingRule = TRUE
    NoMarble = NoMarble
    ClientPaths <- SentPaths
SPECIFICATION MCSpec
INVARIANTS
    MovesAgree
CHECK_DEADLOCK FALSE
