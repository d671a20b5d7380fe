--------------------------- MODULE MCUserLibrary ---------------------------
(***************************************************************************)
(* Instances of UserLibrary for TLC.                                       *)
(***************************************************************************)
EXTENDS UserLibrary

Line(name, number) == [name |-> name, uid |-> number, fields |-> 8]
EmptyField == [name |-> "guest", uid |-> 2, fields |-> 7]

\* Two names of one number, a name twice, an account that is last.
MCPasswords == {<<>>,
                <<Line("root", 0), Line("toor", 0), Line("local", 1)>>,
                <<Line("local", 1), Line("root", 0), Line("local", 2)>>}
\* An account without a full name, before another one.
WithEmptyField == {<<Line("root", 0), EmptyField, Line("local", 1)>>}
MCDefault == <<"bin", "usr">>
MCPath == <<"usr", "bin">>
=============================================================================
