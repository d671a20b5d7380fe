--------------------------- MODULE MCConsoleInput ---------------------------
(***************************************************************************)
(* Instances of ConsoleInput for TLC: the configurations give the sizes.   *)
(***************************************************************************)
EXTENDS ConsoleInput

=============================================================================
