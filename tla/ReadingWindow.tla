---------------------------- MODULE ReadingWindow ---------------------------
(***************************************************************************)
(* What the robot's telemetry promises: it remembers the last readings, at *)
(* most Size of them, and a frame carries, field by field, the averages of *)
(* one and the same window: no frame mixes two of them, and none is sent   *)
(* before the radio is up.                                                 *)
(***************************************************************************)
EXTENDS Integers, Sequences

CONSTANTS Readings,   \* the readings the sensors can give
          Size,       \* how many the robot remembers
          FrameOf(_)  \* the frame that stands for a window

VARIABLES window,     \* the last readings, oldest first
          frame,      \* the frame to be sent, or empty
          up          \* the radio can send

vars == <<window, frame, up>>

Init == window = <<>> /\ frame = <<>> /\ up = FALSE

\* A reading joins the window and, when it is full, pushes the oldest one out.
Slide(w, r) == IF Len(w) < Size THEN Append(w, r) ELSE Append(Tail(w), r)

Record == /\ \E r \in Readings : window' = Slide(window, r)
          /\ UNCHANGED <<frame, up>>

Compose == /\ frame = <<>>
           /\ frame' = FrameOf(window)
           /\ UNCHANGED <<window, up>>

Send == /\ up
        /\ frame' = <<>>
        /\ UNCHANGED <<window, up>>

Start == /\ up' = TRUE
         /\ UNCHANGED <<window, frame>>

Next == Record \/ Compose \/ Send \/ Start

Spec == Init /\ [][Next]_vars
=============================================================================
