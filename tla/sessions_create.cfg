CONSTANTS
    a1 = a1
    a2 = a2
    Tasks = {k1, k2}
    Sockets = {s1, s2}
    Names = {a1, a2}
    Kinds = {"AccountLogin", "AccountCreate"}
    UniqueNames = FALSE
    InitialDb <- OneExists
    FirstNumber = 3
    LastNumber = 5
    ConnectionLimit = 2
    NoSocket = NoSocket
    NoName = NoName
SPECIFICATION FairSpec
INVARIANTS TypeOK NumbersAreUnique PendingIsRunning OnePendingLogin SessionsAreIndexed
PROPERTIES LoginsEnd HoldersTakeTurns
CHECK_DEADLOCK FALSE
