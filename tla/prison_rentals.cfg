CONSTANTS
    h1 = h1
    r1 = r1
    r2 = r2
    Members = {h1, r1}
    Hosts = {h1}
    Sectors = {0}
    Workers = {r1}
    Capacity = 1
    Term = 1
    Uploads <- SomeUploads
    Tasks = {k1, k2}
    Kinds = {"Login", "Rent", "OwnerDismiss", "SelfRansom", "Join"}
    SentRoles = {"Self", "Slave"}
    LastTime = 2
    Faulty = TRUE
    NoMember = NoMember
    NoSector = NoSector
SPECIFICATION Spec
SYMMETRY TaskSymmetry
INVARIANTS TypeOK
CHECK_DEADLOCK FALSE
