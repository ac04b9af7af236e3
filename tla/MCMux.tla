--------------------------------- MODULE MCMux ---------------------------------
(* Mux for TLC: the ids are interchangeable. *)
EXTENDS Mux, TLC

Ids == Permutations(PaneIds) \cup Permutations(TabIds) \cup Permutations(WindowIds)
===============================================================================
