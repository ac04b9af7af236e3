SPECIFICATION Spec
CONSTANTS
    inside = inside
    outside = outside
    home = home
    work = work
    native = native
    tmux1 = tmux1
    tmux2 = tmux2
    shell = shell
    term = term
    Paths = {inside}
    Roots = {home}
    Under <- OnePaneUnder
    Texts = {empty, hello}
    Empty = empty
    TooLong = {}
    Binary = binary
    Absent = absent
    MaxWrites = 2
    QuietSaves = FALSE
    Spots = {native}
    OuterPane <- OnePaneOuter
    TmuxSpots = {}
    TmuxWindows = {w1}
    NoSpot = NoSpot
    NoRoot = NoRoot
    NoPath = NoPath
    NoWindow = NoWindow
    MaxRequests = 3
    MaxMoves = 1
    PatientUser = FALSE
    KeepsRoots = TRUE
PROPERTIES PendingResolves
CHECK_DEADLOCK FALSE
