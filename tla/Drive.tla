-------------------------------- MODULE Drive -------------------------------
(***************************************************************************)
(* What the robot promises the one who drives it.  Frames are accepted     *)
(* into a queue, perhaps only some of those written; each is served in     *)
(* turn, exactly once and from standstill: a command moves the robot in    *)
(* the direction it names, anything else moves nothing; and every move is  *)
(* over before the next one starts.                                        *)
(***************************************************************************)
EXTENDS RobotCommands

CONSTANTS Byte,      \* the byte values that can appear in a frame
          Capacity   \* the frames the robot can hold at once

VARIABLES queue,     \* accepted frames not served yet, oldest first
          motion     \* the direction each wheel turns in

vars == <<queue, motion>>

Init == /\ queue = <<>>
        /\ motion = fb_stop

\* Some frames, none if there is no room, join the queue.
Accept == /\ queue' \in Seq(Seq(Byte))
          /\ Len(queue) <= Len(queue') /\ Len(queue') <= Capacity
          /\ SubSeq(queue', 1, Len(queue)) = queue
          /\ UNCHANGED motion

\* The oldest frame is carried out, from standstill.
Serve == /\ queue # <<>>
         /\ motion = fb_stop
         /\ queue' = Tail(queue)
         /\ motion' = Motion(Head(queue))

\* The move ends.
Finish == /\ motion' = fb_stop
          /\ UNCHANGED queue

Next == Accept \/ Serve \/ Finish

Spec == Init /\ [][Next]_vars
=============================================================================
