\* Devices whose commands do not interleave; answers are lost, and merges cut
\* short between two events.
CONSTANTS
    Devices = {d1, d2}
    Records = {r1}
    Settings = {}
    None = None
    PageLimit = 2
    Lossy = TRUE
    Overlap = FALSE
    Interrupts = {"merge"}
    MaxEdits = 2
    MaxEvents = 2
    MaxLate = 0
SPECIFICATION Spec
SYMMETRY Symmetry
INVARIANTS LogConsistent NoBlindOverwriteOfKnown UnqueuedIsRecorded MergedIsKnown
PROPERTIES QueuedUntilStored
CHECK_DEADLOCK FALSE
