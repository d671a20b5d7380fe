------------------------------ MODULE MCPaging ------------------------------
(***************************************************************************)
(* Instances of Paging for TLC.                                            *)
(***************************************************************************)
EXTENDS Paging, TLC

\* No property tells the directories of two tasks apart.
TaskDirs == Permutations(Dirs \ {kernel_directory})

\* A page of the stack and one of the heap.
SomePages == {STACK - 1, HEAP}
=============================================================================
