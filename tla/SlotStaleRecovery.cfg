\* One task; Mihomo may exit.
CONSTANTS
    Slots = {s1}
    Nodes = {n1, n2}
    Steady = n1
    Fickle = n2
    Contents <- AnyContents
    Workers = {w1}
    User = w1
    Commands <- BindAndStart
    Managers = {g1, g2}
    None = None
    MaxRestartAttempts = 1
    Faults = TRUE
    CanExit = FALSE
SPECIFICATION Spec
PROPERTY RecoveryKeepsBindings
