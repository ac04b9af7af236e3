SPECIFICATION Spec
CONSTANTS
    left = left
    right = right
    native = native
    inner = inner
    other = other
    work = work
    Windows = {left, right}
    NativePanes = {}
    TmuxPanes = {inner}
    Servers = {work}
    ServerOf <- OneServerOf
    Attached <- AllAttached
    HomeWindow <- NativeInLeft
    Prompts = {p1, p2}
    NoPrompt = NoPrompt
    NoServer = NoServer
    MaxPrompts = 2
    MaxSwitches = 3
    SwitchesOff = TRUE
    SteadyPanes = FALSE
    Gaps = FALSE
INVARIANTS PromptTypeOK ReservationHasHolder ChoiceMatchesResult
SYMMETRY Interchangeable
CHECK_DEADLOCK FALSE
