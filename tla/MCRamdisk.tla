----------------------------- MODULE MCRamdisk -----------------------------
(***************************************************************************)
(* Instances of Ramdisk for TLC: the configurations give the sizes.        *)
(***************************************************************************)
EXTENDS Ramdisk
=============================================================================
