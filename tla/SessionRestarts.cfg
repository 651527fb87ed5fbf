\* One account: requests outlive their callers, the application restarts.
CONSTANTS
    Accounts = {a1}
    Tasks = {t1}
    Auth = Auth
    None = None
    Commands = {"push", "pull", "logout", "password", "revoke"}
    MaxDevices = 2
    MaxTokens = 3
    MaxPasswords = 1
    MaxEnds = 1
    MaxLate = 1
SPECIFICATION Spec
CHECK_DEADLOCK FALSE
INVARIANTS TypeOK VaultOpensWithPassword
PROPERTY LogoutLeavesNothing
