CONSTANTS
    a1 = a1
    t1 = t1
    t2 = t2
    b1 = b1
    s1 = s1
    s2 = s2
    p1 = p1
    p2 = p2
    p3 = p3
    Accounts = {a1}
    Tabs = {t1, t2}
    BrowserOf <- OneBrowser
    TokenIds = {1, 2, 3, 4}
    Slots = {s1, s2}
    MaxClicks = 0
    MaxMishaps = 0
    Nobody = Nobody
    NoToken = NoToken
    Players = {p1, p2, p3}
    Leavers = {p1, p2}
    GameIds = {1, 2}
    Outcomes <- MCOutcomes
    WinShare <- Share
    MaxFailures = 1
    Window = 2
    MaxServed = 2
    MoveWindow = 2
    MaxMoves = 2
    MaxNow = 1
    MaxHits = 1
SPECIFICATION MCSpec
INVARIANT
    ResignerDoesNotGain
CHECK_DEADLOCK FALSE
