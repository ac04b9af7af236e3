SPECIFICATION KeysSpec
CONSTANTS
    tmux1 = tmux1
    tmux2 = tmux2
    shell = shell
    Spots = {tmux1, tmux2, shell}
    TmuxSpots = {tmux1, tmux2}
    Outer <- ShellAndTmux
    NoSpot = NoSpot
INVARIANTS KeysTypeOK RegionIsFocused
PROPERTIES BufferedCommandReachesTmux
SYMMETRY Symmetry
