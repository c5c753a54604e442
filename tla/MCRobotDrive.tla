---------------------------- MODULE MCRobotDrive ----------------------------
(***************************************************************************)
(* Small instances of RobotDrive for TLC.                                  *)
(***************************************************************************)
EXTENDS RobotDrive

MCByte == Key \cup {"<", ">", "X", "NUL", "CR", "LF"}

\* A letter processCommand has no case for, a truncated frame that ends in
\* NUL, a frame without its header, and a command with a carriage return,
\* which bt_receive_cb cuts in two.
Rejected == {Command("X"), Prefix \o <<"NUL">>, <<"<", "F", ">">>,
             Command("F") \o <<"CR">>}

\* Two commands the peer's stack put into one write: ChunkMax splits them.
Joined == {Command("F") \o Command("B")}

AllWrites == {Command(k) : k \in Key} \cup Rejected \cup Joined
=============================================================================
