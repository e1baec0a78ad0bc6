CONSTANTS
    s1 = s1
    s2 = s2
    s3 = s3
    m1 = m1
    m2 = m2
    e1 = e1
    e2 = e2
    m3 = m3
    Sockets = {s1, s2}
    Members = {m1, m2, m3}
    RoomIds = {r1}
    Names = {n1}
    Envs = {e1}
    EnvOf <- OneEnv
    Forms <- AllForms
    CreateSent <- FullCreates
    UpdateSent <- FullUpdates
    AdminActions = {"Update", "Kick", "Ban", "Unban", "Whitelist", "Unwhitelist", "Promote", "Demote"}
    Targets = {m2}
    MaxJoining = 1
    MaxShared = 1
    NoMember = NoMember
    NoRoom = NoRoom
    NoSocket = NoSocket
SPECIFICATION Spec
SYMMETRY SameEnvSymmetry
INVARIANTS TypeOK SearchIsHonest
PROPERTIES EntryIsAdmitted RulesByAdmin
CHECK_DEADLOCK FALSE
