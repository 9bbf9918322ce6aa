CONSTANTS
    MoveLogCap = 4
    N = 1
    p1 = p1
    p2 = p2
    p3 = p3
    p4 = p4
    MaxHops = 4
    TurnOrder <- ThreePlayers
    BlockingRule = TRUE
    NoMarble = NoMarble
    ClientPaths <- SentPaths
SPECIFICATION MCSpec
INVARIANTS
    TypeOK
    MarblesConserved
    EndsWhenDecided
    WinnersStayHome
    TurnSkipsWinners
    MovesAgree
    ReplayShowsTheGame
CHECK_DEADLOCK FALSE
