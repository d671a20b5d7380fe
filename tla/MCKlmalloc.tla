----------------------------- MODULE MCKlmalloc -----------------------------
(***************************************************************************)
(* Instances of Klmalloc for TLC: the configurations give the sizes.       *)
(***************************************************************************)
EXTENDS Klmalloc
=============================================================================
