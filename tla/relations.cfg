CONSTANTS
    d1 = d1
    d2 = d2
    s1 = s1
    n1 = n1
    Members = {d1, d2, s1}
    Npcs = {n1}
    Plays <- Parts
    Extreme = {}
    BlackList <- NoBlackList
    OwnershipDelay = 1
    LovershipDelay = 1
    MostLovers = 2
    Settled = {d1, d2}
    Tasks = {k1, k2}
    NoMember = NoMember
SPECIFICATION Spec
SYMMETRY DomTaskSymmetry
INVARIANTS TypeOK ConsentOfBoth OwnerHoldsCollar ConsentOfLovers OffersLapse
CHECK_DEADLOCK FALSE
