CONSTANTS
    u1 = u1
    u2 = u2
    u3 = u3
    Users <- ThreeUsers
    Host = u1
    Capacity = 3
    MoveLogCap = 0
    BoardMayBlock = TRUE
    Tasks = {t1, t2}
    MaxCalls = 4
    MaxMoves = 2
    MaxCrashes = 0
    NoRoom = NoRoom
    NoState = NoState
    NoRecord = NoRecord
    NoGame = NoGame
SPECIFICATION Spec
SYMMETRY Handlers
INVARIANTS
    StoredScoreIsSound
    RecordIsRanked
CHECK_DEADLOCK FALSE
