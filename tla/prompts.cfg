SPECIFICATION Spec
CONSTANTS
    left = left
    right = right
    native = native
    inner = inner
    other = other
    work = work
    Windows = {left}
    NativePanes = {native}
    TmuxPanes = {inner, other}
    Servers = {work}
    ServerOf <- OneServerOf
    Attached <- AllAttached
    HomeWindow <- NativeInLeft
    Prompts = {p1, p2}
    NoPrompt = NoPrompt
    NoServer = NoServer
    MaxPrompts = 2
    MaxSwitches = 1
    SwitchesOff = FALSE
    SteadyPanes = TRUE
    Gaps = FALSE
INVARIANTS DigitOnce
CHECK_DEADLOCK FALSE
