CONSTANTS
    h1 = h1
    r1 = r1
    r2 = r2
    Members = {h1, r1}
    Hosts = {h1}
    Sectors = {0, 1}
    Workers = {}
    Capacity = 1
    Term = 1
    Uploads <- NoUploads
    Tasks = {k1, k2}
    Kinds = {"Login", "Rent", "OwnerDismiss", "Join"}
    SentRoles = {"Self"}
    LastTime = 1
    Faulty = TRUE
    NoMember = NoMember
    NoSector = NoSector
SPECIFICATION Spec
SYMMETRY TaskSymmetry
INVARIANTS InOneSector
PROPERTIES SeatsHold
CHECK_DEADLOCK FALSE
