---------------------------- MODULE CommandPath -----------------------------
(***************************************************************************)
(* The way of a command from the button to the wheels: the Raspberry Pi's  *)
(* command thread (PiCommands), the gateway's main loop and its link       *)
(* (CommandUplink), and the robot, of which only the promise is used       *)
(* (Drive, which RobotDrive implements).  They share the UART between      *)
(* Raspberry Pi and gateway and the write over the air, which the robot    *)
(* accepts if it has the memory.  Writes to the UART are a second apart    *)
(* and three bytes long: each is one burst, and one that the receiver      *)
(* does not time out in.                                                   *)
(***************************************************************************)
EXTENDS CommandUplink, RobotCommands

CONSTANTS MaxCommands, MaxLosses,   \* bounds: see PiCommands
          Buttons,                  \* the key of each command
          Capacity                  \* the frames the robot's heap can hold

\* The gateway numbers the bursts that find a receiver, one command each.  Its
\* memory may hold a command of the time before a reset, but only where the
\* next command goes, since it wrote single commands then, too.
ASSUME PathAssumption ==
    /\ MaxCommands \in Nat /\ MaxLosses \in Nat
    /\ Input = [n \in 1..MaxCommands |-> <<n>>]
    /\ ~ MayCut
    /\ \A b \in Recycled : \A j \in 2..Len(b) : b[j] = 0
    /\ Buttons \in [1..MaxCommands -> Key]
    /\ Capacity \in Nat

VARIABLES sent, losses, connected, subscribed, inbox, p_pc, message, written,
          passed,    \* UART writes that have come over, or been lost there
          heard,     \* the commands the gateway's receiver got, in order
          waiting,   \* the tokens the robot has accepted and not served
          motion,    \* how its wheels turn
          moves,     \* the commands it has served, in order
          dropped    \* the robot had no memory for one

pi == <<sent, losses, connected, subscribed, inbox, p_pc, message, written>>
wire == <<passed, heard>>
robot == <<waiting, motion, moves, dropped>>
pathVars == <<pi, wire, vars, robot>>

P == INSTANCE PiCommands WITH pc <- p_pc

\* What the robot gets for a token: a command, or bytes that are none.
CommandOf(token) == heard[token]
FrameOf(token) == IF token > 0 THEN Command(Buttons[CommandOf(token)]) ELSE Prefix

D == INSTANCE Drive WITH Byte <- Key \cup {"1", "3", "<", ">"},
                         queue <- [n \in DOMAIN waiting |-> FrameOf(waiting[n])]

PathInit == /\ P!Init /\ Init
            /\ passed = 0 /\ heard = <<>>
            /\ waiting = <<>> /\ motion = fb_stop /\ moves = <<>> /\ dropped = FALSE

-----------------------------------------------------------------------------
Pi == P!Next /\ UNCHANGED <<wire, vars, robot>>

\* What the Raspberry Pi has written comes over the UART: into a buffer, or
\* nowhere while the gateway's receiver has no memory.
Arrives == /\ passed < Len(written)
           /\ passed' = passed + 1
           /\ UNCHANGED <<pi, robot>>

PathUartPut == Arrives /\ UartPut /\ heard' = Append(heard, written[passed'])
PathUartLost == Arrives /\ UartLost /\ UNCHANGED heard

\* The steps of the gateway, the radio and the link that nobody else sees.
PathUartWork == UartWork /\ UNCHANGED <<pi, wire, robot>>
Gateway == MainLoop /\ UNCHANGED <<pi, wire, robot>>
Answer == Acknowledged /\ UNCHANGED <<pi, wire, robot>>
Link == (AttError \/ Disconnect \/ Connect) /\ UNCHANGED <<pi, wire, robot>>

\* A write arrives and bt_receive_cb accepts it.
Deliver == /\ RobotReceives
           /\ UNCHANGED <<pi, wire, moves, dropped>>
           /\ waiting' = waiting \o pending
           /\ D!Accept

\* bt_receive_cb has no memory for it: the blocks hold what waits and perhaps
\* the frame being served.  The write is acknowledged all the same.
DeliverDropped == /\ RobotReceives
                  /\ Len(waiting) + 1 >= Capacity
                  /\ dropped' = TRUE
                  /\ UNCHANGED <<pi, wire, waiting, motion, moves>>

\* read_thread serves the oldest frame.
Serve == /\ waiting # <<>>
         /\ UNCHANGED <<pi, wire, vars, dropped>>
         /\ waiting' = Tail(waiting)
         /\ D!Serve
         /\ moves' = IF Head(waiting) > 0 THEN Append(moves, CommandOf(Head(waiting)))
                     ELSE moves

Finish == /\ motion # fb_stop
          /\ UNCHANGED <<pi, wire, vars, waiting, moves, dropped>>
          /\ D!Finish

PathNext == \/ Pi \/ PathUartPut \/ PathUartLost \/ PathUartWork
            \/ Gateway \/ Answer \/ Link
            \/ Deliver \/ DeliverDropped \/ Serve \/ Finish

(***************************************************************************)
(* Each part runs as its own module says.                                  *)
(***************************************************************************)
PathFairness == /\ WF_pathVars(P!mqtt_subscribe /\ UNCHANGED <<wire, vars, robot>>)
                /\ WF_pathVars(PathUartPut \/ PathUartLost)
                /\ WF_pathVars(PathUartWork) /\ WF_pathVars(Gateway)
                /\ WF_pathVars(Deliver \/ DeliverDropped \/ Answer)
                /\ WF_pathVars(Serve \/ Finish)

PathSpec == PathInit /\ [][PathNext]_pathVars
FairPathSpec == PathSpec /\ PathFairness

-----------------------------------------------------------------------------
\* WrittenInOrder: what PiCommands promises of the UART.
WrittenInOrder == P!WrittenInOrder

Remote == INSTANCE RemoteControl WITH pressed <- sent

\* ImplementsRemoteControl: through lost brokers, late answers, retries, lost
\* links, missing memory and recycled buffers the robot only moves as its
\* buttons were pressed: the wheels of the button, in order, at most twice for
\* a press.
ImplementsRemoteControl == Remote!Spec

\* MovesAsPressed: what that says of the moves alone.  They are in the order
\* of the presses, and no press moves the robot three times.
MovesAsPressed ==
    /\ \A m, n \in DOMAIN moves : m < n => moves[m] <= moves[n]
    /\ \A l, m, n \in DOMAIN moves : l < m /\ m < n => moves[l] < moves[n]

\* PressMovesRobot: a command the broker has passed on moves the robot, if
\* the broker stays, the thread lives, no burst finds the gateway's receiver
\* off, the gateway's writes succeed and the robot has memory for them.
PressMovesRobot ==
    \A c \in 1..MaxCommands :
        (\E n \in DOMAIN inbox : inbox[n] = c)
            ~> \/ \E n \in DOMAIN moves : moves[n] = c
               \/ losses > 0 \/ p_pc = "ended" \/ faulty \/ dropped
=============================================================================
