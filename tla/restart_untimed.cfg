CONSTANTS
    u1 = u1
    u2 = u2
    u3 = u3
    Users <- TwoUsers
    Host = u1
    Capacity = 2
    MoveLogCap = 5
    BoardMayBlock = FALSE
    Tasks = {t1}
    MaxCalls = 4
    MaxMoves = 3
    MaxCrashes = 1
    NoRoom = NoRoom
    NoState = NoState
    NoRecord = NoRecord
    NoGame = NoGame
SPECIFICATION Spec
INVARIANT TimersSurviveRestart
CHECK_DEADLOCK FALSE
