SPECIFICATION Spec
CONSTANTS
    inside = inside
    outside = outside
    home = home
    work = work
    native = native
    tmux1 = tmux1
    tmux2 = tmux2
    shell = shell
    term = term
    Paths = {inside}
    Roots = {home, work}
    Under <- PanesUnder
    Texts = {empty, hello}
    Empty = empty
    TooLong = {}
    Binary = binary
    Absent = absent
    MaxWrites = 1
    QuietSaves = FALSE
    Spots = {tmux1, tmux2, native}
    OuterPane <- PanesOuter
    TmuxSpots = {tmux1, tmux2}
    TmuxWindows = {w1}
    NoSpot = NoSpot
    NoRoot = NoRoot
    NoPath = NoPath
    NoWindow = NoWindow
    MaxRequests = 2
    MaxMoves = 2
    PatientUser = TRUE
    KeepsRoots = FALSE
INVARIANTS PendingIsOutstanding OpenFileInsideOwnerRoot
PROPERTIES OnlyNewestAnswerApplied DirtyTextKept
SYMMETRY TmuxSymmetry
CHECK_DEADLOCK FALSE
