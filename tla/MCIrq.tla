-------------------------------- MODULE MCIrq --------------------------------
(***************************************************************************)
(* Instances of Irq for TLC: lines of both controllers, with the two that  *)
(* a spurious interrupt arrives on.                                        *)
(***************************************************************************)
EXTENDS Irq

\* The timer, the real-time clock, and both lowest lines.
SomeLines == {0, 7, 8, 15}
=============================================================================
