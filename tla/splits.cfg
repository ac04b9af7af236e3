SPECIFICATION Spec
CONSTANTS
  p1 = p1
  p2 = p2
  p3 = p3
  p4 = p4
  Panes = {p1, p2, p3}
  NoPane = NoPane
  InitialSize <- Small
  WindowSizes <- Grown
  Deltas <- OneCell
  MaxExtent = 6
  Deaths = 1
  Ops = {"split", "move", "focus", "zoom", "die", "remove", "rotate", "swap", "drag", "resize"}
SYMMETRY PaneSymmetry
CHECK_DEADLOCK FALSE
INVARIANTS SplitTypeOK ActiveInRange ZoomedHeld
PROPERTIES ActivePaneKept LayoutKept
