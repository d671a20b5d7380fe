----------------------------- MODULE MCDisplay -----------------------------
(***************************************************************************)
(* Instances of Display for TLC.                                           *)
(***************************************************************************)
EXTENDS Display

\* A printable character, and every kind of key that gets treats in its own way or that
\* shows nothing.
MCKeys == {"x", BS, "\t", ESC, FKEY}
\* A long date, a short one.
MCDates == << <<"9", "9">>, <<"1">> >>
=============================================================================
