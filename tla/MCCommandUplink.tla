--------------------------- MODULE MCCommandUplink --------------------------
(***************************************************************************)
(* Small instances of CommandUplink for TLC.  Commands are numbered in the *)
(* order the UART delivers them.                                           *)
(***************************************************************************)
EXTENDS CommandUplink

\* More commands in one buffer than the loop has attempts for, then a single
\* command, as the Raspberry Pi sends them; it may be received into the block
\* the first buffer has left, if the receiver was without memory in between.
MCInput == <<<<1, 2, 3, 4>>, <<5>>>>

\* A third burst may be received there without such a gap.
MCThreeBursts == MCInput \o <<<<6>>>>

\* Only the main loop's own buffers leave something behind.
NothingElse == {<<>>}

\* A block without a "<", and one of the time before a reset: it held bytes
\* of telemetry and a command.
MCRecycled == {<<>>, <<0, -7>>}
=============================================================================
