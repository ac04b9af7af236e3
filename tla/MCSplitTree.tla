---------------------------- MODULE MCSplitTree ----------------------------
(* Small tabs for TLC. *)
EXTENDS SplitTree, TLC

CONSTANTS p1, p2, p3, p4

\* Room for two columns or two rows, and for a split in one of them.
Small == [cols |-> 5, rows |-> 3]
Grown == {Small, [cols |-> 6, rows |-> 3]}

\* Wide enough for a split that cannot shrink inside one that can.
Wide == [cols |-> 7, rows |-> 1]
Shrunk == {[cols |-> 6, rows |-> 1]}

OneCell == {1}
PaneSymmetry == Permutations(Panes)
=============================================================================
