\* Two accounts one after the other, two commands at the same time, a restart.
CONSTANTS
    Accounts = {a1, a2}
    Tasks = {t1, t2}
    Auth = Auth
    None = None
    Commands = {"pull", "logout"}
    MaxDevices = 2
    MaxTokens = 3
    MaxPasswords = 0
    MaxEnds = 1
    MaxLate = 0
SPECIFICATION Spec
CHECK_DEADLOCK FALSE
SYMMETRY Symmetry
INVARIANTS ConnectedUnlessCut SessionIsOneAccount SyncStateIsOfAccount
