CONSTANTS
    u1 = u1
    u2 = u2
    u3 = u3
    Users <- ThreeUsers
    Host = u1
    Capacity = 3
    MoveLogCap = 2
    BoardMayBlock = FALSE
    Tasks = {1}
    MaxCalls = 7
    MaxMoves = 9
    MaxCrashes = 0
    NoRoom = NoRoom
    NoState = NoState
    NoRecord = NoRecord
    NoGame = NoGame
SPECIFICATION FairSpec
INVARIANTS
    TypeOK
    LogFollowsGame
    RunningGameIsTimed
    RecordMatchesRoom
    NoGameIsLost
PROPERTIES
    TimerWaitsForDeadline
    GamesEnd
CHECK_DEADLOCK FALSE
