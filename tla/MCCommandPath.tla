--------------------------- MODULE MCCommandPath ----------------------------
(***************************************************************************)
(* A small instance of CommandPath for TLC.                                *)
(***************************************************************************)
EXTENDS CommandPath

MCInput == [n \in 1..MaxCommands |-> <<n>>]

MCButtons == [c \in 1..MaxCommands |-> IF c % 2 = 1 THEN "F" ELSE "B"]

\* Nothing behind a command: what remains do is a matter of MCCommandUplink.
MCRecycled == {<<>>}
=============================================================================
