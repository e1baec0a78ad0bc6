CONSTANTS
    s1 = s1
    s2 = s2
    s3 = s3
    m1 = m1
    m2 = m2
    e1 = e1
    e2 = e2
    m3 = m3
    Sockets = {s1, s2}
    Members = {m1, m2}
    RoomIds = {r1, r2}
    Names = {n1}
    Envs = {e1}
    EnvOf <- OneEnv
    Forms <- OneForm
    CreateSent <- FullCreates
    UpdateSent <- FullUpdates
    AdminActions = {"Update", "Kick"}
    Targets = {m1, m2}
    MaxJoining = 1
    MaxShared = 0
    NoMember = NoMember
    NoRoom = NoRoom
    NoSocket = NoSocket
SPECIFICATION Spec
INVARIANTS ChannelIsMembership
CHECK_DEADLOCK FALSE
