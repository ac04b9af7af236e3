------------------------------ MODULE MCKeyRouting ------------------------------
\* Two panes of tmux in one tab and a shell in another.
EXTENDS KeyRouting, TLC

CONSTANTS tmux1, tmux2, shell

ShellAndTmux == [s \in Spots |-> IF s = shell THEN "shell" ELSE "tmux"]
Symmetry == Permutations({tmux1, tmux2})
===============================================================================
