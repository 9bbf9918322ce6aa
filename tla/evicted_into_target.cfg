CONSTANTS
    N = 1
    p1 = p1
    p2 = p2
    p3 = p3
    p4 = p4
    MaxHops = 4
    TurnOrder <- FourPlayers
    BlockingRule = TRUE
    NoMarble = NoMarble
    ClientPaths <- SentPaths
SPECIFICATION Spec
INVARIANT FillingIsWinning
CHECK_DEADLOCK FALSE
