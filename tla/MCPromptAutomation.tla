-------------------------- MODULE MCPromptAutomation --------------------------
\* Instances of PromptAutomation for TLC: one tmux server per window, or one
\* server that two windows share.
EXTENDS PromptAutomation

CONSTANTS left, right, native, inner, other, work

OneServerOf == [p \in TmuxPanes |-> work]
AllAttached == [w \in Windows |-> Servers]
NativeInLeft == [p \in NativePanes |-> left]

\* Sound without native panes, which belong to one window.
Interchangeable == Permutations(Windows) \cup Permutations(Prompts)
===============================================================================
