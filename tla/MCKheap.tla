------------------------------ MODULE MCKheap ------------------------------
(***************************************************************************)
(* Instances of Kheap for TLC: the configurations give the layout.         *)
(***************************************************************************)
EXTENDS Kheap
=============================================================================
