\* The server, with lost answers and requests that arrive after their sender gave up.
CONSTANTS
    Devices = {d1, d2}
    Records = {r1, set}
    Settings = {set}
    None = None
    PageLimit = 1
    Lossy = TRUE
    Overlap = FALSE
    Interrupts = {"enqueue"}
    MaxEdits = 1
    MaxEvents = 2
    MaxLate = 1
SPECIFICATION Spec
SYMMETRY Symmetry
INVARIANTS TypeOK
PROPERTIES ImplementsLog
CHECK_DEADLOCK FALSE
