--------------------------- MODULE MCPiTelemetry ----------------------------
(***************************************************************************)
(* Small instances of PiTelemetry for TLC.                                 *)
(***************************************************************************)
EXTENDS PiTelemetry

Frame(charge, rpm) == <<charge, rpm, rpm, rpm, rpm>>

\* Charges that can fall, rise and fall again to one that is not the lowest;
\* fields whose bytes are commas (44, 300, and 11308, which has two), and one
\* with a byte that is no ASCII (910).
MCFrames == {Frame(1024, 5), Frame(800, 5), Frame(1030, 5), Frame(11308, 300),
             <<5, 44, 910, 5, 5>>}

\* Charges and speeds as they occur: 910 mV, 880 mV, 60 rpm.
RealFrames == {Frame(910, 60), Frame(880, 60)}
=============================================================================
