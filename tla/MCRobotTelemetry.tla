-------------------------- MODULE MCRobotTelemetry --------------------------
(***************************************************************************)
(* Small instances of RobotTelemetry for TLC.                              *)
(***************************************************************************)
EXTENDS RobotTelemetry

Reading(v, left, right) == [VCA |-> v, DFL |-> left, DFR |-> right,
                            DBL |-> left, DBR |-> right]

MCZero == Reading(0, 0, 0)

\* Standing still, turning (the wheels of one side run backwards), and an ADC
\* that could not be read: fb_v_measure gives E_ADC_ERR, -2.
MCReadings == {MCZero, Reading(910, 54, -52), Reading(-2, 53, 53)}
=============================================================================
