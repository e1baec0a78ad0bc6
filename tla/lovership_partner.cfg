CONSTANTS
    d1 = d1
    d2 = d2
    s1 = s1
    n1 = n1
    Members = {d1, d2, s1}
    Npcs = {n1}
    Plays <- Left
    Extreme = {}
    BlackList <- NoBlackList
    OwnershipDelay = 1
    LovershipDelay = 1
    MostLovers = 2
    Settled = {d1, d2}
    Tasks = {k1}
    NoMember = NoMember
SPECIFICATION Spec
PROPERTIES PartnerKeepsOthers
CHECK_DEADLOCK FALSE
