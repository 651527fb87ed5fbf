\* A binding task and one that starts and stops, with crashes, under fairness.
CONSTANTS
    Slots = {s1}
    Nodes = {n1, n2}
    Steady = n1
    Fickle = n2
    Contents <- Flickering
    Workers = {w1, w2}
    User = w1
    Commands <- BindAndStop
    Managers = {g1, g2}
    None = None
    MaxRestartAttempts = 1
    Faults = TRUE
    CanExit = FALSE
SPECIFICATION FairSpec
INVARIANT NoStrayChild
PROPERTY CommandsReturn
