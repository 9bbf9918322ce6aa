CONSTANTS
    gA = gA
    gB = gB
    Rooms = {gA, gB}
    Begun = {gB}
    Ending = {gA}
    LobbyPage = LobbyPage
    NoGame = NoGame
    MaxPlayed <- MCMaxPlayed
    MaxInputs = 3
    RoomIds = {r1}
    Polls = {1, 2}
    CacheTtl = 0
    MaxAge = 1
    MaxChanges = 3
SPECIFICATION MCSpec
INVARIANTS
    WebTypeOK
    ViewIsAPosition
    ViewIsCurrent
    PreviewsSettle
    AnimationsInOrder
    AnswersAreFresh
PROPERTIES
    MovesArrive
    LobbyCatchesUp
CHECK_DEADLOCK FALSE
