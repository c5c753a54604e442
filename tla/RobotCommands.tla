--------------------------- MODULE RobotCommands ---------------------------
(***************************************************************************)
(* What the robot understands and what its wheels do about it: the command *)
(* frames processCommand accepts (freebot/src/my_nus_stuff.c) and the ten  *)
(* moves of the motor driver (freebot/lib/freebot/src/fb_motor.c), together *)
(* with an independent description of the same moves, the direction        *)
(* diagram of fb_motor.h read as the kinematics of a mecanum platform.     *)
(***************************************************************************)
EXTENDS Integers, Sequences

(***************************************************************************)
(* Wheels are numbered in the order every move writes them: front left,    *)
(* front right, back left, back right.  A wheel's setting is 1 (forwards), *)
(* -1 (backwards) or 0 (stopped), and a move is one setting per wheel.     *)
(***************************************************************************)
Wheel == 1..4
Setting == {-1, 0, 1}
Move == [Wheel -> Setting]

fb_stop == <<0, 0, 0, 0>>
fb_straight_forw == <<1, 1, 1, 1>>
fb_straight_back == <<-1, -1, -1, -1>>
fb_side_right == <<-1, 1, 1, -1>>
fb_side_left == <<1, -1, -1, 1>>
fb_side_d45 == <<0, 1, 1, 0>>
\* Mutant: the front wheel of the wrong side is driven.
fb_side_d135_front_right == <<0, -1, 0, -1>>
fb_side_d135 == <<-1, 0, 0, -1>>
fb_side_d225 == <<0, -1, -1, 0>>
fb_side_d315 == <<1, 0, 0, 1>>
fb_rotate_cw == <<1, -1, 1, -1>>
fb_rotate_ccw == <<-1, 1, -1, 1>>

\* The command letters, and the call each one makes in processCommand.
Key == {"F", "B", "L", "R", "1", "2", "3", "4", "C", "D"}

MoveOf(k) ==
    CASE k = "F" -> fb_straight_forw
      [] k = "B" -> fb_straight_back
      [] k = "L" -> fb_side_left
      [] k = "R" -> fb_side_right
      [] k = "1" -> fb_side_d45
      [] k = "2" -> fb_side_d135
      [] k = "3" -> fb_side_d225
      [] k = "4" -> fb_side_d315
      [] k = "C" -> fb_rotate_cw
      [] k = "D" -> fb_rotate_ccw

(***************************************************************************)
(* A frame is the byte string of one packet_data_t.  A command is the      *)
(* length header "13", then the letter between angle brackets.             *)
(***************************************************************************)
Prefix == <<"1", "3", "<">>
Command(k) == Prefix \o <<k, ">">>

\* read_thread hands a four byte frame that ends in NUL over as three bytes.
CommandText(frame) ==
    IF Len(frame) = 4 /\ frame[4] = "NUL" THEN SubSeq(frame, 1, 3) ELSE frame

\* The checks processCommand makes before its switch, and the switch's cases.
IsCommand(cmd) ==
    /\ Len(cmd) = 5
    /\ SubSeq(cmd, 1, 3) = Prefix
    /\ cmd[Len(cmd)] = ">"
    /\ cmd[Len(cmd) - 1] \in Key

KeyOf(cmd) == cmd[Len(cmd) - 1]

-----------------------------------------------------------------------------
(***************************************************************************)
(* The reference.  fb_motor.h draws where each move takes the robot: x to  *)
(* the right, y ahead, turn clockwise seen from above.  The rollers of     *)
(* this robot's wheels make a wheel's speed y - x + turn at the front      *)
(* left, y + x - turn at the front right, y + x + turn at the back left    *)
(* and y - x - turn at the back right; only its sign reaches the driver.   *)
(***************************************************************************)
Heading(k) ==
    CASE k = "F" -> [x |-> 0, y |-> 1, turn |-> 0]
      [] k = "B" -> [x |-> 0, y |-> -1, turn |-> 0]
      [] k = "L" -> [x |-> -1, y |-> 0, turn |-> 0]
      [] k = "R" -> [x |-> 1, y |-> 0, turn |-> 0]
      [] k = "1" -> [x |-> 1, y |-> 1, turn |-> 0]
      [] k = "2" -> [x |-> 1, y |-> -1, turn |-> 0]
      [] k = "3" -> [x |-> -1, y |-> -1, turn |-> 0]
      [] k = "4" -> [x |-> -1, y |-> 1, turn |-> 0]
      [] k = "C" -> [x |-> 0, y |-> 0, turn |-> 1]
      [] k = "D" -> [x |-> 0, y |-> 0, turn |-> -1]

Sign(n) == IF n > 0 THEN 1 ELSE IF n < 0 THEN -1 ELSE 0

Mecanum(h) == <<Sign(h.y - h.x + h.turn), Sign(h.y + h.x - h.turn),
                Sign(h.y + h.x + h.turn), Sign(h.y - h.x - h.turn)>>

\* What the robot must do about a frame: move as drawn, or stay where it is.
Motion(frame) ==
    IF IsCommand(frame) THEN Mecanum(Heading(KeyOf(frame))) ELSE fb_stop
=============================================================================
