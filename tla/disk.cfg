SPECIFICATION Spec
CONSTANTS
    inside = inside
    outside = outside
    home = home
    work = work
    native = native
    tmux1 = tmux1
    tmux2 = tmux2
    shell = shell
    term = term
    Paths = {inside, outside}
    Roots = {home}
    Under <- OnePaneUnder
    Texts = {empty, hello, huge}
    Empty = empty
    TooLong = {huge}
    Binary = binary
    Absent = absent
    MaxWrites = 3
    QuietSaves = TRUE
    Spots = {native}
    OuterPane <- OnePaneOuter
    TmuxSpots = {}
    TmuxWindows = {w1}
    NoSpot = NoSpot
    NoRoot = NoRoot
    NoPath = NoPath
    NoWindow = NoWindow
    MaxRequests = 3
    MaxMoves = 1
    PatientUser = TRUE
    KeepsRoots = TRUE
INVARIANTS TypeOK 
   
CHECK_DEADLOCK FALSE
