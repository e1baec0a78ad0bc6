CONSTANTS
    s1 = s1
    s2 = s2
    s3 = s3
    m1 = m1
    m2 = m2
    e1 = e1
    e2 = e2
    m3 = m3
    Sockets = {s1, s2}
    Members = {m1, m2, m3}
    RoomIds = {r1, r2}
    Names = {n1, n2}
    Envs = {e1, e2}
    EnvOf <- TwoEnvs
    Forms <- OneForm
    CreateSent <- FullCreates
    UpdateSent <- FullUpdates
    AdminActions = {"Update", "Kick", "Swap", "MoveLeft", "MoveRight", "Shuffle"}
    Targets = {m1, m2, m3}
    MaxJoining = 1
    MaxShared = 1
    NoMember = NoMember
    NoRoom = NoRoom
    NoSocket = NoSocket
SPECIFICATION Spec
SYMMETRY PlacesSymmetry
INVARIANTS SessionFound MembershipAgrees OccupiedOnce IndexExact NamesUnique NoDeafMember
PROPERTIES PlacementHolds
CHECK_DEADLOCK FALSE
