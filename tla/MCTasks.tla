------------------------------- MODULE MCTasks -------------------------------
(***************************************************************************)
(* Instances of Tasks for TLC.                                             *)
(***************************************************************************)
EXTENDS Tasks, TLC

\* No property tells one address from another.
Addresses == Permutations(Slots) \cup Permutations(Dirs)
=============================================================================
