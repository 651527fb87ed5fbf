\* Two identifiers, two ports, two commands at the same time, a merge and a
\* restart; the bounds make the behaviours end.
CONSTANTS
    Slots = {s1, s2}
    MaxPort = 2
    Settings <- TwoSettings
    Tasks = {t1, t2}
    None = None
    Gone = Gone
    MaxClock = 1
    MaxLog = 2
    MaxEnds = 1
SPECIFICATION Spec
CHECK_DEADLOCK FALSE
SYMMETRY Symmetry
INVARIANTS TypeOK CooldownRespected ConflictIsForeign HiddenIsUnmerged MergedIsApplied
