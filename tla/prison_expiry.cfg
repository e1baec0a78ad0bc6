CONSTANTS
    h1 = h1
    r1 = r1
    r2 = r2
    Members = {h1, r1, r2}
    Hosts = {h1}
    Sectors = {0}
    Workers = {}
    Capacity = 2
    Term = 1
    Uploads <- NoUploads
    Tasks = {k1}
    Kinds = {"Login", "Rent", "Join"}
    SentRoles = {"Self"}
    LastTime = 2
    Faulty = FALSE
    NoMember = NoMember
    NoSector = NoSector
SPECIFICATION FairSpec
PROPERTIES TermsEnd
CHECK_DEADLOCK FALSE
