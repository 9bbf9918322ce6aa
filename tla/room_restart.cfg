CONSTANTS
    u1 = u1
    u2 = u2
    u3 = u3
    Users <- ThreeUsers
    Host = u1
    Capacity = 3
    MoveLogCap = 2
    BoardMayBlock = FALSE
    Tasks = {1}
    MaxCalls = 6
    MaxMoves = 9
    MaxCrashes = 2
    NoRoom = NoRoom
    NoState = NoState
    NoRecord = NoRecord
    NoGame = NoGame
SPECIFICATION Spec
INVARIANTS
    LogStaysBounded
    WaitingRoomIsListed
    OnlyPlayersPlay
    ListedGamesAreTimed
PROPERTY ImplementsGame
CHECK_DEADLOCK FALSE
