SPECIFICATION Spec
CONSTANTS
    Owner = o
    Peers = {o, a}
    Members = {o, a}
    Threads = {t1, t2}
    Tokens = {k}
    NoPeer = NoPeer
    NoThread = NoThread
    Private = TRUE
    PermSets = {{}, {"EDIT_ROLES", "KICK_MEMBER", "ROTATE_EPOCH"}}
    SettingOps = {"webapp_remove", "icon_set"}
    MaxRoles = 1
    MaxEntries = 2
    MaxVersion = 6
SYMMETRY ThreadSymmetry
INVARIANTS TablesAgree LogAndEpochs
PROPERTIES ChangesAreLawful GovernanceGated
