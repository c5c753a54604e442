---------------------------- MODULE RemoteControl ---------------------------
(***************************************************************************)
(* What the whole system promises the person at the buttons, who sees the  *)
(* wheels and nothing in between.  A press may be lost and its move may be *)
(* late, but the robot only moves for a button that was pressed, in the    *)
(* direction of that button, in the order of the presses, from standstill, *)
(* and never a third time for the same press.                              *)
(***************************************************************************)
EXTENDS RobotCommands

CONSTANTS MaxCommands,   \* bound: the presses
          Buttons        \* the key of each press

VARIABLES pressed,       \* the presses so far; they are numbered
          moves,         \* the presses that have moved the robot, in order
          motion         \* the direction each wheel turns in

vars == <<pressed, moves, motion>>

Init == /\ pressed = 0
        /\ moves = <<>>
        /\ motion = fb_stop

Press == /\ pressed < MaxCommands
         /\ pressed' = pressed + 1
         /\ UNCHANGED <<moves, motion>>

\* The robot moves for press c: no later press has moved it, nor has c twice.
MoveFor(c) ==
    /\ motion = fb_stop
    /\ \A n \in DOMAIN moves : moves[n] <= c
    /\ \A m, n \in DOMAIN moves : m < n => moves[m] # c \/ moves[n] # c
    /\ moves' = Append(moves, c)
    /\ motion' = Mecanum(Heading(Buttons[c]))
    /\ UNCHANGED pressed

Stop == /\ motion' = fb_stop
        /\ UNCHANGED <<pressed, moves>>

Next == Press \/ (\E c \in 1..pressed : MoveFor(c)) \/ Stop

Spec == Init /\ [][Next]_vars
=============================================================================
