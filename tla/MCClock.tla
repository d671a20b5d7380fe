------------------------------ MODULE MCClock ------------------------------
(***************************************************************************)
(* Instances of Clock for TLC.                                             *)
(***************************************************************************)
EXTENDS Clock

Date(y, m, d, h, mi, s) == [year |-> y, month |-> m, day |-> d, hour |-> h, min |-> mi, sec |-> s]

\* Ends of years, of February in a leap year and in another, of an hour and a morning.
MCStarts == {Date(1999, 12, 31, 23, 59, 58), Date(2015, 2, 28, 23, 59, 59),
             Date(2016, 2, 29, 9, 59, 59), Date(2095, 12, 31, 13, 0, 1)}
Noon == {Date(2015, 6, 1, 11, 59, 59)}
=============================================================================
