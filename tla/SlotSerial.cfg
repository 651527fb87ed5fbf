\* One task at a time and no failure, two Slots, under fairness.
CONSTANTS
    Slots = {s1, s2}
    Nodes = {n1, n2}
    Steady = n1
    Fickle = n2
    Contents <- AnyContents
    Workers = {w1}
    User = w1
    Commands <- AllCommands
    Managers = {g1, g2}
    None = None
    MaxRestartAttempts = 1
    Faults = FALSE
    CanExit = FALSE
SPECIFICATION FairSpec
INVARIANT ActiveIsPresent
PROPERTIES BlockBeforeOrphan DisappearedIsOrphaned
