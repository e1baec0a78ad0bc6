CONSTANTS
    a1 = a1
    a2 = a2
    Tasks = {k1, k2, k3}
    Sockets = {s1, s2, s3}
    Names = {a1, a2}
    Kinds = {"AccountLogin"}
    UniqueNames = FALSE
    InitialDb <- BothExist
    FirstNumber = 3
    LastNumber = 6
    ConnectionLimit = 3
    NoSocket = NoSocket
    NoName = NoName
SPECIFICATION Spec
SYMMETRY TaskSocketSymmetry
INVARIANTS QueueLengthIsExact OnePendingLogin SessionsAreIndexed EntriesAreConnections
PROPERTIES HoldersTakeTurns
CHECK_DEADLOCK FALSE
