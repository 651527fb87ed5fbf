\* One task; Mihomo may exit, calls may fail, the application may restart.
CONSTANTS
    Slots = {s1}
    Nodes = {n1, n2}
    Steady = n1
    Fickle = n2
    Contents <- AnyContents
    Workers = {w1}
    User = w1
    Commands <- AllCommands
    Managers = {g1, g2}
    None = None
    MaxRestartAttempts = 1
    Faults = TRUE
    CanExit = TRUE
SPECIFICATION Spec
SYMMETRY Symmetry
INVARIANTS TypeOK OnlyRequested NoStrayChild InSync RoutesPresent
