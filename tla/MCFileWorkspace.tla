---------------------------- MODULE MCFileWorkspace ----------------------------
\* Instances of FileWorkspace for TLC.
EXTENDS FileWorkspace, TLC

CONSTANTS inside, outside, home, work, native, tmux1, tmux2, shell, term

\* One pane, one root: every file of the disk, long histories of requests.
OnePaneUnder == [root \in Roots |-> {inside}]
OnePaneOuter == [spot \in Spots |-> term]

\* Two tmux panes in one native pane and a second native pane.
PanesUnder == [root \in Roots |-> IF root = home THEN {inside} ELSE {}]
PanesOuter == [spot \in Spots |-> IF spot = native THEN shell ELSE term]
\* The two tmux panes are interchangeable.
TmuxSymmetry == Permutations({tmux1, tmux2})
===============================================================================
