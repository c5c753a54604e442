----------------------------- MODULE RobotDrive -----------------------------
(***************************************************************************)
(* The command side of the robot: bt_receive_cb, called by the Bluetooth   *)
(* stack's receive thread, puts what the gateway wrote into fifo_rx_data,  *)
(* and read_thread takes it out, runs processCommand, sleeps CMD_RUN_DELAY *)
(* and stops the motors (freebot/src/my_nus_stuff.c).  A motor is driven   *)
(* by two pins written one after the other (fb_motor.c), and the receive   *)
(* thread may preempt read_thread between any two of these writes.         *)
(***************************************************************************)
EXTENDS RobotCommands

CONSTANTS Byte,       \* the byte values that can appear in a write
          Writes,     \* the writes a peer may send, as byte strings
          ChunkMax,   \* sizeof(tx->data) - 1: 39 in the build
          HeapSlots   \* the packet_data_t blocks the kernel heap can hold

ASSUME DriveAssumption ==
    /\ Writes \subseteq Seq(Byte)
    /\ "LF" \in Byte
    /\ ChunkMax \in Nat \ {0}
    /\ HeapSlots \in Nat

VARIABLES fifo_rx_data,  \* the frames waiting for read_thread
          free,          \* heap blocks k_malloc can still return
          pc,            \* where read_thread is
          buf,           \* the frame it holds
          move,          \* the settings being written to the motors
          m,             \* the motor whose pins are written next
          in_a, in_b     \* the level of the two pins of every motor

pins == <<in_a, in_b>>
vars == <<fifo_rx_data, free, pc, buf, move, m, in_a, in_b>>

NoFrame == <<>>
AllLow == [w \in Wheel |-> 0]

Init == /\ fifo_rx_data = <<>>
        /\ free = HeapSlots
        /\ pc = "get"
        /\ buf = NoFrame
        /\ move = fb_stop
        /\ m = 1
        /\ in_a = AllLow
        /\ in_b = AllLow

-----------------------------------------------------------------------------
(***************************************************************************)
(* bt_receive_cb cuts a write into chunks of at most ChunkMax bytes and    *)
(* adds a line feed to the last one when the write ends in a carriage      *)
(* return.  It stops, and the rest is lost, when k_malloc fails.           *)
(***************************************************************************)
ChunkCount(w) == (Len(w) + ChunkMax - 1) \div ChunkMax

Chunk(w, i) ==
    LET last == i = ChunkCount(w)
        to == IF last THEN Len(w) ELSE i * ChunkMax
        data == SubSeq(w, (i - 1) * ChunkMax + 1, to)
    IN  IF last /\ w[Len(w)] = "CR" THEN Append(data, "LF") ELSE data

Chunks(w) == [i \in 1..ChunkCount(w) |-> Chunk(w, i)]

\* Mutant: the result of k_malloc is not looked at.
FittingUnchecked(w) == ChunkCount(w)

Fitting(w) == IF ChunkCount(w) <= free THEN ChunkCount(w) ELSE free

\* Mutant: the newest frame is served first.
PutInFront(frames) == frames \o fifo_rx_data

\* k_fifo_put, for each of the frames.
Put(frames) == fifo_rx_data \o frames

BtReceive(w) ==
    /\ fifo_rx_data' = Put(SubSeq(Chunks(w), 1, Fitting(w)))
    /\ free' = free - Fitting(w)
    /\ UNCHANGED <<pc, buf, move, m, pins>>

-----------------------------------------------------------------------------
\* Mutant: what arrived during the last move is discarded with its frame.
NothingLeft == <<>>

\* What stays in the fifo.
Left == Tail(fifo_rx_data)

\* k_fifo_get: blocks while the fifo is empty.
FifoGet ==
    /\ pc = "get"
    /\ fifo_rx_data # <<>>
    /\ buf' = Head(fifo_rx_data)
    /\ fifo_rx_data' = Left
    /\ pc' = "process"
    /\ UNCHANGED <<free, move, m, pins>>

\* processCommand: returns on anything that is not a command, or starts a move.
ProcessCommand ==
    /\ pc = "process"
    /\ LET cmd == CommandText(buf)
       IN  \/ /\ IsCommand(cmd)
              /\ move' = MoveOf(KeyOf(cmd))
              /\ pc' = "drive_a"
           \/ /\ ~ IsCommand(cmd)
              /\ move' = fb_stop
              /\ pc' = "release"
    /\ m' = 1
    /\ UNCHANGED <<fifo_rx_data, free, buf, pins>>

\* set_motor_direction and set_motor_stop write in_a first, then in_b.
LevelA(setting) == IF setting = -1 THEN 1 ELSE 0
LevelB(setting) == IF setting = 1 THEN 1 ELSE 0

WriteInA(w, setting) == in_a' = [in_a EXCEPT ![w] = LevelA(setting)]
WriteInB(w, setting) == in_b' = [in_b EXCEPT ![w] = LevelB(setting)]

DriveInA ==
    /\ pc = "drive_a"
    /\ WriteInA(m, move[m])
    /\ pc' = "drive_b"
    /\ UNCHANGED <<fifo_rx_data, free, buf, move, m, in_b>>

DriveInB ==
    /\ pc = "drive_b"
    /\ WriteInB(m, move[m])
    /\ \/ m < 4 /\ m' = m + 1 /\ pc' = "drive_a"
       \/ m = 4 /\ m' = 1 /\ pc' = "release"
    /\ UNCHANGED <<fifo_rx_data, free, buf, move, in_a>>

\* Mutant: the early returns of processCommand skip k_free.
FreedIfCommand == IF IsCommand(buf) THEN 1 ELSE 0

\* The blocks k_free(buf) gives back.
Freed == 1

\* k_free(buf), then k_sleep(CMD_RUN_DELAY).
Release ==
    /\ pc = "release"
    /\ free' = free + Freed
    /\ pc' = "sleep"
    /\ UNCHANGED <<fifo_rx_data, buf, move, m, pins>>

\* Mutant: no stop between two commands when the next one already waits.
StopUnlessFrame == IF fifo_rx_data = <<>> THEN "stop_a" ELSE "get"

\* fb_stop comes after every sleep.
AfterSleep == "stop_a"

Wake ==
    /\ pc = "sleep"
    /\ pc' = AfterSleep
    /\ m' = 1
    /\ UNCHANGED <<fifo_rx_data, free, buf, move, pins>>

StopInA ==
    /\ pc = "stop_a"
    /\ WriteInA(m, fb_stop[m])
    /\ pc' = "stop_b"
    /\ UNCHANGED <<fifo_rx_data, free, buf, move, m, in_b>>

StopInB ==
    /\ pc = "stop_b"
    /\ WriteInB(m, fb_stop[m])
    /\ \/ m < 4 /\ m' = m + 1 /\ pc' = "stop_a" /\ UNCHANGED <<buf, move>>
       \/ m = 4 /\ m' = 1 /\ pc' = "get" /\ buf' = NoFrame /\ move' = fb_stop
    /\ UNCHANGED <<fifo_rx_data, free, in_a>>

-----------------------------------------------------------------------------
ReadThread == \/ FifoGet \/ ProcessCommand \/ DriveInA \/ DriveInB
              \/ Release \/ Wake \/ StopInA \/ StopInB

Next == ReadThread \/ \E w \in Writes : BtReceive(w)

\* read_thread is never blocked for good: it waits for a frame or a timer, and
\* every thread of its priority sleeps in its loop.
Fairness == WF_vars(ReadThread)

Spec == Init /\ [][Next]_vars
FairSpec == Spec /\ Fairness

-----------------------------------------------------------------------------
PcValue == {"get", "process", "drive_a", "drive_b", "release", "sleep",
            "stop_a", "stop_b"}

\* The direction a motor turns in for the levels of its pins; equal levels
\* stop it, and both high is the short circuit no move may pass through.
Spin(w) == in_b[w] - in_a[w]
Spins == [w \in Wheel |-> Spin(w)]

\* The frame read_thread holds a heap block for.
Held == pc \in {"process", "drive_a", "drive_b", "release"}

(***************************************************************************)
(* TypeOK: every variable keeps the type the code gives it.                *)
(***************************************************************************)
TypeOK ==
    /\ fifo_rx_data \in Seq(Seq(Byte))
    /\ free \in 0..HeapSlots
    /\ pc \in PcValue
    /\ buf \in Seq(Byte)
    /\ move \in Move
    /\ m \in Wheel
    /\ in_a \in [Wheel -> {0, 1}]
    /\ in_b \in [Wheel -> {0, 1}]

\* HeapAccounted: a block is either free, in the fifo or in read_thread's
\* hands: bt_receive_cb and k_free neither leak one nor return one twice,
\* whatever arrives and however a frame is rejected.
HeapAccounted ==
    free + Len(fifo_rx_data) + (IF Held THEN 1 ELSE 0) = HeapSlots

\* NoShootThrough: the pins of a motor are written one after the other, and
\* at no instant between two writes are both high, from whatever move the
\* wheels come: the fb_stop at the end of read_thread's loop is what makes
\* the order of the two writes in set_motor_direction harmless.
NoShootThrough == \A w \in Wheel : ~ (in_a[w] = 1 /\ in_b[w] = 1)

\* MotionMatchesHeading: while CMD_RUN_DELAY runs, the wheels turn the way
\* that takes the robot where fb_motor.h draws the command, and nothing
\* turns for a frame that is no command.
MotionMatchesHeading == pc \in {"release", "sleep"} => Spins = Motion(buf)

\* CommandsAreRun: once a command is in fifo_rx_data the robot comes to move
\* in its direction, however many frames arrive meanwhile.
CommandsAreRun ==
    \A k \in Key : (\E i \in 1..Len(fifo_rx_data) : fifo_rx_data[i] = Command(k))
                       ~> (pc = "sleep" /\ Spins = Mecanum(Heading(k)))

(***************************************************************************)
(* The robot implements Drive.  A frame counts as queued until the last    *)
(* pin of its move is written, and a move lasts from there to the end of   *)
(* the sleep.                                                              *)
(***************************************************************************)
AbstractQueue ==
    IF pc \in {"process", "drive_a", "drive_b"}
    THEN <<buf>> \o fifo_rx_data ELSE fifo_rx_data
AbstractMotion == IF pc \in {"release", "sleep"} THEN Spins ELSE fb_stop

D == INSTANCE Drive WITH Capacity <- HeapSlots,
                         queue <- AbstractQueue, motion <- AbstractMotion

\* ImplementsDrive: frames are served in the order they came, once each, from
\* standstill, and moves never overlap.
ImplementsDrive == D!Spec
=============================================================================
