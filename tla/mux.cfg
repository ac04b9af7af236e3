SPECIFICATION Spec
CONSTANTS
    PaneIds = {p1, p2, p3}
    TabIds = {t1, t2, t3}
    WindowIds = {w1, w2}
    NoTab = NoTab
    MaxSpawns = 1
    SwitchToLast = FALSE
SYMMETRY Ids
INVARIANTS MuxTypeOK OneHome RegisteredPaneIsHeld SpawningWindowStays EmptyWindowWillClose ActiveTabExists  DeadPaneIsPruned EmptyIsAnnounced
PROPERTIES ActiveTabKept
CHECK_DEADLOCK FALSE
