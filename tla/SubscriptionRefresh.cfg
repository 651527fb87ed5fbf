\* A command of the user next to the background task, under fairness; a program
\* that has ended can always be launched again.
CONSTANTS
    Subs = {s1, s2}
    Contents = {c1, c2}
    Users = {u1}
    Background = bg
    None = None
    Scopes <- MCScopes
SPECIFICATION Spec
INVARIANTS TypeOK ChangesAreApplied BridgeIsCache
PROPERTIES DueIsAttempted ExitEnds
