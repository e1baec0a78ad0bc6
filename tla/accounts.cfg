CONSTANTS
    a1 = a1
    a2 = a2
    s1 = s1
    s2 = s2
    h1 = h1
    h2 = h2
    Accounts = {a1, a2}
    Fields = {"Appearance", "Game", "Title", "Password"}
    Delayable = {"Appearance", "Game"}
    Immutable = {"Password"}
    Periodic = Periodic
    Shutdown = Shutdown
    Writers = {Periodic, Shutdown, h1, h2}
    Backends = {"sqlite", "mongo"}
    Values = {0, 1, 2, 3}
    Attempts = 2
    Sockets = {s1, s2}
    Plays <- Parts
    Mailboxes <- Boxes
    NoWriter = NoWriter
    NoAccount = NoAccount
    NoSocket = NoSocket
SPECIFICATION FairSpec
INVARIANTS TypeOK DelayedIsNewest NoUpdateForgotten PasswordsAreGranted
PROPERTIES WritesAreAtomic DelayedGoesOut WritesEnd
CHECK_DEADLOCK FALSE
