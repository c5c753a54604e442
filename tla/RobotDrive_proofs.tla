------------------------- MODULE RobotDrive_proofs --------------------------
(***************************************************************************)
(* Theorems about RobotDrive for every heap size, every chunk size and     *)
(* every set of writes: its safety invariants and that it implements       *)
(* Drive.  The inductive invariant is IInv: types, heap accounting, and    *)
(* the level of every pin at every point of the two write loops.           *)
(***************************************************************************)
EXTENDS RobotDrive, SequenceTheorems, TLAPS

USE DEF pins, Put, Left, Freed, AfterSleep

\* The pins of motor w are as its setting in a move asks.
Set(w, settings) == in_a[w] = LevelA(settings[w]) /\ in_b[w] = LevelB(settings[w])

\* PinsFollowMove: at every instant the motors already reached by the write
\* loop have their new levels and the others still have their old ones, and
\* the move being written is the one the frame asks for.
PinsFollowMove ==
    /\ pc \in {"get", "process"} => \A w \in Wheel : Set(w, fb_stop)
    /\ pc \in {"drive_a", "drive_b"} =>
         /\ move = Motion(buf) /\ IsCommand(buf)
         /\ \A w \in Wheel : w < m => Set(w, move)
         /\ \A w \in Wheel : w > m => Set(w, fb_stop)
         /\ in_a[m] = IF pc = "drive_a" THEN 0 ELSE LevelA(move[m])
         /\ in_b[m] = 0
    /\ pc \in {"release", "sleep"} =>
         /\ move = Motion(buf)
         /\ \A w \in Wheel : Set(w, move)
    /\ pc \in {"stop_a", "stop_b"} =>
         /\ \A w \in Wheel : w < m => Set(w, fb_stop)
         /\ \A w \in Wheel : w > m => Set(w, move)
         /\ in_a[m] = IF pc = "stop_a" THEN LevelA(move[m]) ELSE 0
         /\ in_b[m] = LevelB(move[m])
    /\ pc \notin {"drive_a", "drive_b", "stop_a", "stop_b"} => m = 1

\* The inductive invariant.
IInv == TypeOK /\ HeapAccounted /\ PinsFollowMove

-----------------------------------------------------------------------------
(***************************************************************************)
(* Facts about commands and moves.                                         *)
(***************************************************************************)

\* Every case of processCommand's switch drives the wheels the way the
\* kinematics of fb_motor.h's diagram asks.
LEMMA MovesAreMecanum ==
    \A k \in Key : MoveOf(k) = Mecanum(Heading(k)) /\ MoveOf(k) \in Move
<1>1. SUFFICES ASSUME NEW k \in Key
               PROVE  MoveOf(k) = Mecanum(Heading(k)) /\ MoveOf(k) \in Move
  OBVIOUS
<1> USE DEF MoveOf, Mecanum, Heading, Sign, Move, Wheel, Setting, Key
<1>2. CASE k = "F" BY <1>2 DEF fb_straight_forw
<1>3. CASE k = "B" BY <1>3 DEF fb_straight_back
<1>4. CASE k = "L" BY <1>4 DEF fb_side_left
<1>5. CASE k = "R" BY <1>5 DEF fb_side_right
<1>6. CASE k = "1" BY <1>6 DEF fb_side_d45
<1>7. CASE k = "2" BY <1>7 DEF fb_side_d135
<1>8. CASE k = "3" BY <1>8 DEF fb_side_d225
<1>9. CASE k = "4" BY <1>9 DEF fb_side_d315
<1>10. CASE k = "C" BY <1>10 DEF fb_rotate_cw
<1>11. CASE k = "D" BY <1>11 DEF fb_rotate_ccw
<1>12. QED BY <1>2, <1>3, <1>4, <1>5, <1>6, <1>7, <1>8, <1>9, <1>10, <1>11

\* The NUL case of read_thread changes nothing: a four byte frame is no
\* command, and neither are its first three bytes.
LEMMA CommandTextSound ==
    ASSUME NEW S, NEW frame \in Seq(S)
    PROVE  /\ IsCommand(CommandText(frame)) <=> IsCommand(frame)
           /\ IsCommand(frame) => CommandText(frame) = frame
<1>1. CASE Len(frame) = 4 /\ frame[4] = "NUL"
  <2>1. CommandText(frame) = SubSeq(frame, 1, 3)
    BY <1>1 DEF CommandText
  <2>2. Len(SubSeq(frame, 1, 3)) = 3
    BY <1>1
  <2>3. QED BY <1>1, <2>1, <2>2 DEF IsCommand
<1>2. CASE ~(Len(frame) = 4 /\ frame[4] = "NUL")
  BY <1>2 DEF CommandText
<1>3. QED BY <1>1, <1>2

\* A frame that is no command moves nothing, and every motion is a Move.
LEMMA MotionType == \A frame : Motion(frame) \in Move
<1>1. fb_stop \in Move
  BY DEF fb_stop, Move, Wheel, Setting
<1>2. TAKE frame
<1>3. CASE IsCommand(frame)
  <2>1. KeyOf(frame) \in Key
    BY <1>3 DEF IsCommand, KeyOf
  <2>2. QED BY <1>3, <2>1, MovesAreMecanum DEF Motion
<1>4. CASE ~ IsCommand(frame)
  BY <1>1, <1>4 DEF Motion
<1>5. QED BY <1>3, <1>4

\* Pins that follow a move turn the wheels with its settings.
LEMMA SpinsOfSet ==
    ASSUME NEW settings \in Move, \A w \in Wheel : Set(w, settings)
    PROVE  Spins = settings
<1>1. \A w \in Wheel : Spin(w) = settings[w]
  BY DEF Set, Spin, LevelA, LevelB, Move, Wheel, Setting
<1>2. settings = [w \in Wheel |-> settings[w]]
  BY DEF Move
<1>3. QED BY <1>1, <1>2 DEF Spins

-----------------------------------------------------------------------------
(***************************************************************************)
(* Facts about the chunks of a write.                                      *)
(***************************************************************************)

\* The quotient that counts the chunks is the one of a division with remainder.
LEMMA DivBounds ==
    ASSUME NEW n \in Nat, NEW c \in Nat \ {0}
    PROVE  /\ n \div c \in Nat
           /\ (n \div c) * c <= n
           /\ n < (n \div c) * c + c
<1>1. n = c * (n \div c) + (n % c) /\ n % c \in 0..(c - 1)
  OBVIOUS
<1>2. n \div c \in Int
  OBVIOUS
<1>3. n \div c \in Nat
  OBVIOUS
<1>4. QED BY <1>1, <1>3

\* All chunks are byte strings, and chunk i + 1 starts within the write.
LEMMA ChunksType ==
    ASSUME NEW w \in Writes
    PROVE  ChunkCount(w) \in Nat /\ Chunks(w) \in Seq(Seq(Byte)) /\ Len(Chunks(w)) = ChunkCount(w)
<1> DEFINE n == Len(w)
           q == ChunkCount(w)
<1>1. w \in Seq(Byte) /\ n \in Nat
  BY DriveAssumption
<1>2. ChunkMax \in Nat \ {0} /\ "LF" \in Byte
  BY DriveAssumption
<1>3. q \in Nat /\ q * ChunkMax <= n + ChunkMax - 1 /\ n <= q * ChunkMax
  BY <1>1, <1>2, DivBounds DEF ChunkCount
<1>4. ASSUME NEW i \in 1..q
      PROVE  Chunk(w, i) \in Seq(Byte)
  <2> DEFINE from == (i - 1) * ChunkMax + 1
             to == IF i = q THEN n ELSE i * ChunkMax
             data == SubSeq(w, from, to)
  <2>1. from \in Nat /\ from >= 1
    BY <1>2, <1>3
  <2>2. to \in Nat /\ to <= n
    <3>1. CASE i = q
      BY <1>1, <3>1
    <3>2. CASE i # q
      <4>1. i + 1 <= q
        BY <1>3, <3>2
      <4>2. (i + 1) * ChunkMax <= q * ChunkMax
        BY <4>1, <1>2, <1>3
      <4>3. (i + 1) * ChunkMax = i * ChunkMax + ChunkMax /\ i * ChunkMax \in Nat
        BY <1>2
      <4>4. QED BY <4>2, <4>3, <3>2, <1>1, <1>2, <1>3
    <3>3. QED BY <3>1, <3>2
  <2>3. data \in Seq(Byte)
    <3>1. \A j \in from..to : w[j] \in Byte
      BY <1>1, <2>1, <2>2
    <3>2. QED BY <1>1, <2>1, <2>2, <3>1, SubSeqProperties
  <2>4. Append(data, "LF") \in Seq(Byte)
    BY <2>3, <1>2
  <2>5. QED BY <2>3, <2>4 DEF Chunk
<1>5. QED BY <1>3, <1>4 DEF Chunks

-----------------------------------------------------------------------------
(***************************************************************************)
(* The inductive invariant.                                                *)
(***************************************************************************)

\* At start the fifo is empty, the heap full and every pin low.
LEMMA InitIInv == Init => IInv
<1> SUFFICES ASSUME Init PROVE IInv
  OBVIOUS
<1>1. TypeOK
  BY DriveAssumption
  DEF Init, TypeOK, NoFrame, fb_stop, AllLow, PcValue, Move, Wheel, Setting
<1>2. HeapAccounted
  BY DriveAssumption DEF Init, HeapAccounted, Held
<1>3. PinsFollowMove
  BY DEF Init, PinsFollowMove, AllLow, Set, LevelA, LevelB, Wheel, fb_stop
<1>4. QED BY <1>1, <1>2, <1>3 DEF IInv

\* Frames arrive: only the fifo and the heap change, by the same number.
LEMMA BtReceiveIInv ==
    ASSUME IInv, NEW w \in Writes, BtReceive(w)
    PROVE  IInv'
<1> DEFINE taken == SubSeq(Chunks(w), 1, Fitting(w))
<1>1. free \in 0..HeapSlots /\ fifo_rx_data \in Seq(Seq(Byte))
  BY DEF IInv, TypeOK
<1>2. Fitting(w) \in Nat /\ Fitting(w) <= free /\ Fitting(w) <= ChunkCount(w)
  BY <1>1, ChunksType, DriveAssumption DEF Fitting
<1>3. taken \in Seq(Seq(Byte)) /\ Len(taken) = Fitting(w)
  BY <1>2, ChunksType, SubSeqProperties
<1>4. TypeOK'
  BY <1>1, <1>2, <1>3, DriveAssumption DEF IInv, TypeOK, BtReceive
<1>5. HeapAccounted'
  <2>1. Len(fifo_rx_data') = Len(fifo_rx_data) + Fitting(w)
    BY <1>1, <1>3 DEF BtReceive
  <2>2. free' = free - Fitting(w) /\ Held' = Held
    BY DEF BtReceive, Held
  <2>3. QED
    BY <1>1, <1>2, <2>1, <2>2, DriveAssumption, SMTT(30) DEF IInv, HeapAccounted
<1>6. PinsFollowMove'
  BY DEF IInv, PinsFollowMove, BtReceive, Set
<1>7. QED BY <1>4, <1>5, <1>6 DEF IInv

\* Writing a pin of one motor leaves every other motor as it is.
LEMMA WriteInASets ==
    ASSUME TypeOK, NEW w \in Wheel, NEW s, WriteInA(w, s)
    PROVE  /\ in_a' \in [Wheel -> {0, 1}]
           /\ in_a'[w] = LevelA(s)
           /\ \A v \in Wheel \ {w} : in_a'[v] = in_a[v]
BY DEF TypeOK, WriteInA, LevelA

\* The same for the second pin.
LEMMA WriteInBSets ==
    ASSUME TypeOK, NEW w \in Wheel, NEW s, WriteInB(w, s)
    PROVE  /\ in_b' \in [Wheel -> {0, 1}]
           /\ in_b'[w] = LevelB(s)
           /\ \A v \in Wheel \ {w} : in_b'[v] = in_b[v]
BY DEF TypeOK, WriteInB, LevelB

\* The steps of read_thread that write no pin.
LEMMA QuietIInv ==
    ASSUME IInv, FifoGet \/ ProcessCommand \/ Release \/ Wake
    PROVE  IInv'
<1>1. CASE FifoGet
  <2>1. TypeOK'
    BY <1>1 DEF FifoGet, IInv, TypeOK, PcValue
  <2>2. HeapAccounted'
    BY <1>1 DEF FifoGet, IInv, TypeOK, HeapAccounted, Held
  <2>3. PinsFollowMove'
    BY <1>1 DEF FifoGet, IInv, PinsFollowMove, Set
  <2>4. QED BY <2>1, <2>2, <2>3 DEF IInv
<1>2. CASE ProcessCommand
  <2> DEFINE cmd == CommandText(buf)
  <2>1. buf \in Seq(Byte)
    BY DEF IInv, TypeOK
  <2>2. /\ IsCommand(cmd) <=> IsCommand(buf)
        /\ IsCommand(buf) => cmd = buf
    BY <2>1, CommandTextSound
  <2>3. move' = Motion(buf)
    <3>1. CASE IsCommand(cmd)
      <4>1. KeyOf(buf) \in Key
        BY <2>2, <3>1 DEF IsCommand, KeyOf
      <4>2. move' = MoveOf(KeyOf(buf))
        BY <1>2, <2>2, <3>1 DEF ProcessCommand
      <4>3. QED BY <2>2, <3>1, <4>1, <4>2, MovesAreMecanum DEF Motion
    <3>2. CASE ~ IsCommand(cmd)
      BY <1>2, <2>2, <3>2 DEF ProcessCommand, Motion
    <3>3. QED BY <3>1, <3>2
  <2>4. TypeOK'
    BY <1>2, <2>3, MotionType
    DEF ProcessCommand, IInv, TypeOK, PcValue, Wheel
  <2>5. HeapAccounted'
    BY <1>2 DEF ProcessCommand, IInv, HeapAccounted, Held
  <2>6. PinsFollowMove'
    <3>1. \A w \in Wheel : Set(w, fb_stop)'
      BY <1>2 DEF ProcessCommand, IInv, PinsFollowMove, Set
    <3>2. in_a'[1] = 0 /\ in_b'[1] = 0
      BY <3>1 DEF Set, LevelA, LevelB, fb_stop, Wheel
    <3>3. CASE IsCommand(cmd)
      BY <1>2, <2>2, <2>3, <3>1, <3>2, <3>3
      DEF ProcessCommand, PinsFollowMove, Set, Wheel
    <3>4. CASE ~ IsCommand(cmd)
      BY <1>2, <2>3, <3>1, <3>4 DEF ProcessCommand, PinsFollowMove, Set
    <3>5. QED BY <3>3, <3>4
  <2>7. QED BY <2>4, <2>5, <2>6 DEF IInv
<1>3. CASE Release
  <2>1. TypeOK' /\ HeapAccounted'
    BY <1>3, DriveAssumption
    DEF Release, IInv, TypeOK, HeapAccounted, Held, PcValue
  <2>2. PinsFollowMove'
    BY <1>3 DEF Release, IInv, PinsFollowMove, Set
  <2>3. QED BY <2>1, <2>2 DEF IInv
<1>4. CASE Wake
  <2>1. TypeOK'
    BY <1>4 DEF Wake, IInv, TypeOK, PcValue, Wheel
  <2>2. HeapAccounted'
    BY <1>4 DEF Wake, IInv, HeapAccounted, Held
  <2>3. PinsFollowMove'
    BY <1>4 DEF Wake, IInv, PinsFollowMove, Set, Wheel
  <2>4. QED BY <2>1, <2>2, <2>3 DEF IInv
<1>5. QED BY <1>1, <1>2, <1>3, <1>4

\* The two loops that write the pins, motor by motor.
LEMMA WriteIInv ==
    ASSUME IInv, DriveInA \/ DriveInB \/ StopInA \/ StopInB
    PROVE  IInv'
<1>0. TypeOK /\ m \in Wheel /\ HeapAccounted /\ PinsFollowMove /\ move \in Move
  BY DEF IInv, TypeOK
<1>1. CASE DriveInA
  <2>1. /\ in_a' \in [Wheel -> {0, 1}]
        /\ in_a'[m] = LevelA(move[m])
        /\ \A v \in Wheel \ {m} : in_a'[v] = in_a[v]
    BY <1>0, <1>1, WriteInASets DEF DriveInA
  <2>2. TypeOK'
    BY <1>0, <1>1, <2>1 DEF DriveInA, TypeOK, PcValue
  <2>3. HeapAccounted'
    BY <1>0, <1>1 DEF DriveInA, HeapAccounted, Held
  <2>4. PinsFollowMove'
    BY <1>0, <1>1, <2>1 DEF DriveInA, PinsFollowMove, Set, Wheel
  <2>5. QED BY <2>2, <2>3, <2>4 DEF IInv
<1>2. CASE DriveInB
  <2>1. /\ in_b' \in [Wheel -> {0, 1}]
        /\ in_b'[m] = LevelB(move[m])
        /\ \A v \in Wheel \ {m} : in_b'[v] = in_b[v]
    BY <1>0, <1>2, WriteInBSets DEF DriveInB
  <2>2. TypeOK'
    BY <1>0, <1>2, <2>1 DEF DriveInB, TypeOK, PcValue, Wheel
  <2>3. HeapAccounted'
    BY <1>0, <1>2 DEF DriveInB, HeapAccounted, Held
  <2>4. \A w \in Wheel : w <= m => Set(w, move)'
    BY <1>0, <1>2, <2>1 DEF DriveInB, PinsFollowMove, Set, Wheel
  <2>5. \A w \in Wheel : w > m => Set(w, fb_stop)' /\ in_a'[w] = 0 /\ in_b'[w] = 0
    <3>1. \A w \in Wheel : fb_stop[w] = 0
      BY DEF fb_stop, Wheel
    <3>2. QED
      BY <1>0, <1>2, <2>1, <3>1
      DEF DriveInB, PinsFollowMove, Set, Wheel, LevelA, LevelB
  <2>6. PinsFollowMove'
    <3>1. CASE m < 4
      <4>1. m + 1 \in Wheel /\ m + 1 > m
        BY <1>0, <3>1 DEF Wheel
      <4>2. in_a'[m + 1] = 0 /\ in_b'[m + 1] = 0
        BY <2>5, <4>1
      <4>3. QED
        BY <1>0, <1>2, <2>4, <2>5, <3>1, <4>1, <4>2
        DEF DriveInB, PinsFollowMove, Set, Wheel
    <3>2. CASE m = 4
      BY <1>0, <1>2, <2>4, <3>2 DEF DriveInB, PinsFollowMove, Set, Wheel
    <3>3. QED BY <1>0, <3>1, <3>2 DEF Wheel
  <2>7. QED BY <2>2, <2>3, <2>6 DEF IInv
<1>3. CASE StopInA
  <2>1. /\ in_a' \in [Wheel -> {0, 1}]
        /\ in_a'[m] = LevelA(fb_stop[m])
        /\ \A v \in Wheel \ {m} : in_a'[v] = in_a[v]
    BY <1>0, <1>3, WriteInASets DEF StopInA
  <2>2. LevelA(fb_stop[m]) = 0
    BY <1>0 DEF LevelA, fb_stop, Wheel
  <2>3. TypeOK'
    BY <1>0, <1>3, <2>1 DEF StopInA, TypeOK, PcValue
  <2>4. HeapAccounted'
    BY <1>0, <1>3 DEF StopInA, HeapAccounted, Held
  <2>5. PinsFollowMove'
    BY <1>0, <1>3, <2>1, <2>2 DEF StopInA, PinsFollowMove, Set, Wheel
  <2>6. QED BY <2>3, <2>4, <2>5 DEF IInv
<1>4. CASE StopInB
  <2>1. /\ in_b' \in [Wheel -> {0, 1}]
        /\ in_b'[m] = LevelB(fb_stop[m])
        /\ \A v \in Wheel \ {m} : in_b'[v] = in_b[v]
    BY <1>0, <1>4, WriteInBSets DEF StopInB
  <2>2. TypeOK'
    <3>1. fb_stop \in Move /\ NoFrame \in Seq(Byte)
      BY DEF fb_stop, Move, Wheel, Setting, NoFrame
    <3>2. QED
      BY <1>0, <1>4, <2>1, <3>1 DEF StopInB, TypeOK, PcValue, Wheel
  <2>3. HeapAccounted'
    BY <1>0, <1>4 DEF StopInB, HeapAccounted, Held
  <2>4. \A w \in Wheel : w <= m => Set(w, fb_stop)'
    <3>1. LevelA(fb_stop[m]) = 0
      BY <1>0 DEF LevelA, fb_stop, Wheel
    <3>2. QED
      BY <1>0, <1>4, <2>1, <3>1 DEF StopInB, PinsFollowMove, Set, Wheel
  <2>5. \A w \in Wheel : w > m => in_a'[w] = LevelA(move[w]) /\ in_b'[w] = LevelB(move[w])
    BY <1>0, <1>4, <2>1 DEF StopInB, PinsFollowMove, Set, Wheel
  <2>6. PinsFollowMove'
    <3>1. CASE m < 4
      BY <1>0, <1>4, <2>4, <2>5, <3>1
      DEF StopInB, PinsFollowMove, Set, Wheel
    <3>2. CASE m = 4
      BY <1>0, <1>4, <2>4, <3>2 DEF StopInB, PinsFollowMove, Set, Wheel
    <3>3. QED BY <1>0, <3>1, <3>2 DEF Wheel
  <2>7. QED BY <2>2, <2>3, <2>6 DEF IInv
<1>5. QED BY <1>1, <1>2, <1>3, <1>4

\* Every step of the receive callback or of read_thread keeps the invariant.
LEMMA NextIInv == IInv /\ [Next]_vars => IInv'
<1> SUFFICES ASSUME IInv, [Next]_vars PROVE IInv'
  OBVIOUS
<1>1. CASE ReadThread
  BY <1>1, QuietIInv, WriteIInv DEF ReadThread
<1>2. CASE \E w \in Writes : BtReceive(w)
  BY <1>2, BtReceiveIInv
<1>3. CASE UNCHANGED vars
  BY <1>3 DEF vars, IInv, TypeOK, HeapAccounted, Held, PinsFollowMove, Set
<1>4. QED BY <1>1, <1>2, <1>3 DEF Next

\* The pins, the frame in hand and the heap agree at every point of the two
\* write loops, whatever bt_receive_cb puts into the fifo meanwhile.
THEOREM Invariance == Spec => []IInv
BY InitIInv, NextIInv, PTL DEF Spec

-----------------------------------------------------------------------------
(***************************************************************************)
(* The invariants the inductive one implies.                               *)
(***************************************************************************)

\* No motor ever has both its pins high, whatever is received and when.
THEOREM NeverShootThrough == Spec => []NoShootThrough
<1>1. IInv => NoShootThrough
  <2> SUFFICES ASSUME IInv, NEW w \in Wheel
               PROVE  ~ (in_a[w] = 1 /\ in_b[w] = 1)
    BY DEF NoShootThrough
  <2>1. \A s : ~ (LevelA(s) = 1 /\ LevelB(s) = 1)
    BY DEF LevelA, LevelB
  <2>2. m \in Wheel /\ pc \in PcValue /\ w \in Wheel
    BY DEF IInv, TypeOK
  <2>3. CASE w = m /\ pc \in {"drive_a", "drive_b", "stop_a", "stop_b"}
    BY <2>1, <2>3 DEF IInv, PinsFollowMove
  <2>4. CASE w # m \/ pc \in {"get", "process", "release", "sleep"}
    BY <2>1, <2>2, <2>4 DEF IInv, PinsFollowMove, Set, PcValue, Wheel
  <2>5. QED BY <2>2, <2>3, <2>4 DEF PcValue
<1>2. QED BY <1>1, Invariance, PTL

\* The wheels turn as fb_motor.h draws the command for the whole of its delay.
THEOREM MotionCorrect == Spec => []MotionMatchesHeading
<1>1. IInv => MotionMatchesHeading
  BY SpinsOfSet, MotionType DEF IInv, PinsFollowMove, MotionMatchesHeading
<1>2. QED BY <1>1, Invariance, PTL

\* Every variable keeps its type.
THEOREM TypeCorrect == Spec => []TypeOK
<1>1. IInv => TypeOK
  BY DEF IInv
<1>2. QED BY <1>1, Invariance, PTL

\* No heap block is leaked or freed twice.
THEOREM HeapCorrect == Spec => []HeapAccounted
<1>1. IInv => HeapAccounted
  BY DEF IInv
<1>2. QED BY <1>1, Invariance, PTL

-----------------------------------------------------------------------------
(***************************************************************************)
(* The robot implements Drive.                                             *)
(***************************************************************************)

\* Drive's own copies of RobotCommands' operators are the same ones.
LEMMA SameCommands ==
    /\ D!fb_stop = fb_stop
    /\ \A frame : D!Motion(frame) = Motion(frame)
<1>1. D!fb_stop = fb_stop
  BY DEF D!fb_stop, fb_stop
<1>2. ASSUME NEW frame
      PROVE  D!IsCommand(frame) <=> IsCommand(frame)
  BY DEF D!IsCommand, IsCommand, D!Prefix, Prefix, D!Key, Key
<1>3. ASSUME NEW k
      PROVE  D!Heading(k) = Heading(k)
  BY DEF D!Heading, Heading
<1>4. ASSUME NEW h
      PROVE  D!Mecanum(h) = Mecanum(h)
  BY DEF D!Mecanum, Mecanum, D!Sign, Sign
<1>5. ASSUME NEW frame
      PROVE  D!Motion(frame) = Motion(frame)
  BY <1>1, <1>2, <1>3, <1>4 DEF D!Motion, Motion, D!KeyOf, KeyOf
<1>6. QED BY <1>1, <1>5

\* Wheels whose pins are all low are at rest.
LEMMA SpinsOfRest ==
    ASSUME \A w \in Wheel : Set(w, fb_stop)
    PROVE  Spins = fb_stop
<1>1. fb_stop \in Move
  BY DEF fb_stop, Move, Wheel, Setting
<1>2. QED BY <1>1, SpinsOfSet

\* At start the abstract queue is empty and the abstract robot at rest.
LEMMA InitDrive == Init => D!Init
BY SameCommands DEF Init, D!Init, AbstractQueue, AbstractMotion

\* A frame that is being served is the head of the abstract queue.
LEMMA ServedHead ==
    ASSUME TypeOK
    PROVE  /\ Head(<<buf>> \o fifo_rx_data) = buf
           /\ Tail(<<buf>> \o fifo_rx_data) = fifo_rx_data
           /\ <<buf>> \o fifo_rx_data # <<>>
           /\ <<buf>> \o fifo_rx_data \in Seq(Seq(Byte))
           /\ Len(<<buf>> \o fifo_rx_data) = Len(fifo_rx_data) + 1
<1>1. buf \in Seq(Byte) /\ fifo_rx_data \in Seq(Seq(Byte))
  BY DEF TypeOK
<1>2. QED BY <1>1

\* Putting one element before a concatenation.
LEMMA PrependConcat ==
    ASSUME NEW S, NEW x \in S, NEW s \in Seq(S), NEW t \in Seq(S)
    PROVE  /\ <<x>> \o s \in Seq(S)
           /\ <<x>> \o (s \o t) = (<<x>> \o s) \o t
<1> DEFINE h == <<x>>
<1>1. h \in Seq(S)
  OBVIOUS
<1> HIDE DEF h
<1>2. h \o s \in Seq(S)
  BY <1>1, ConcatProperties
<1>3. (h \o s) \o t = h \o (s \o t)
  BY <1>1, ConcatAssociative
<1>4. QED BY <1>2, <1>3 DEF h

\* Receiving is Accept: the frames taken go to the end of the queue.
LEMMA ReceiveAccepts ==
    ASSUME IInv, NEW w \in Writes, BtReceive(w)
    PROVE  D!Accept
<1> DEFINE taken == SubSeq(Chunks(w), 1, Fitting(w))
<1>1. free \in 0..HeapSlots /\ TypeOK /\ IInv'
  BY BtReceiveIInv DEF IInv, TypeOK
<1>2. taken \in Seq(Seq(Byte))
  <2>1. Fitting(w) \in Nat /\ Fitting(w) <= ChunkCount(w)
    BY <1>1, ChunksType, DriveAssumption DEF Fitting
  <2>2. QED BY <2>1, ChunksType, SubSeqProperties
<1>3. pc' = pc /\ buf' = buf /\ fifo_rx_data' = fifo_rx_data \o taken
  BY DEF BtReceive
<1>4. AbstractQueue \in Seq(Seq(Byte)) /\ AbstractQueue' = AbstractQueue \o taken
  <2>1. buf \in Seq(Byte) /\ fifo_rx_data \in Seq(Seq(Byte))
    BY <1>1 DEF TypeOK
  <2> HIDE DEF taken
  <2>2. /\ <<buf>> \o fifo_rx_data \in Seq(Seq(Byte))
        /\ <<buf>> \o (fifo_rx_data \o taken) = (<<buf>> \o fifo_rx_data) \o taken
    BY <1>2, <2>1, PrependConcat
  <2>3. CASE pc \in {"process", "drive_a", "drive_b"}
    BY <1>3, <2>1, <2>2, <2>3, Zenon DEF AbstractQueue
  <2>4. CASE pc \notin {"process", "drive_a", "drive_b"}
    BY <1>3, <2>1, <2>4, Zenon DEF AbstractQueue
  <2>5. QED BY <2>3, <2>4
<1>5. Len(AbstractQueue') <= HeapSlots
  <2>1. fifo_rx_data' \in Seq(Seq(Byte)) /\ buf' \in Seq(Byte) /\ free' \in Nat
    BY <1>1 DEF IInv, TypeOK
  <2>2. free' + Len(fifo_rx_data') + (IF Held' THEN 1 ELSE 0) = HeapSlots
    BY <1>1 DEF IInv, HeapAccounted
  <2>3. Len(AbstractQueue') <= Len(fifo_rx_data') + (IF Held' THEN 1 ELSE 0)
    BY <2>1 DEF AbstractQueue, Held
  <2>4. Len(fifo_rx_data') \in Nat
    BY <2>1
  <2>5. QED BY <2>1, <2>2, <2>3, <2>4, DriveAssumption DEF AbstractQueue, Held
<1>6. AbstractMotion' = AbstractMotion
  BY DEF BtReceive, AbstractMotion, Spins, Spin
<1>7. QED
  <2>1. /\ Len(AbstractQueue) <= Len(AbstractQueue')
        /\ SubSeq(AbstractQueue', 1, Len(AbstractQueue)) = AbstractQueue
        /\ AbstractQueue' \in Seq(Seq(Byte))
    BY <1>2, <1>4
  <2>2. QED BY <1>5, <1>6, <2>1 DEF D!Accept

\* Every other step serves the head of the queue, ends a move or stutters.
LEMMA ReadThreadDrives ==
    ASSUME IInv, ReadThread
    PROVE  [D!Next]_(D!vars)
<1>1. TypeOK /\ PinsFollowMove /\ TypeOK' /\ PinsFollowMove' /\ m \in Wheel
  BY QuietIInv, WriteIInv DEF ReadThread, IInv, TypeOK
<1> USE DEF D!vars
<1>2. CASE FifoGet
  <2>1. AbstractQueue' = AbstractQueue
    BY <1>1, <1>2 DEF FifoGet, AbstractQueue, TypeOK
  <2>2. QED BY <1>2, <2>1 DEF FifoGet, AbstractMotion
<1>3. CASE ProcessCommand
  <2>1. IsCommand(CommandText(buf)) <=> IsCommand(buf)
    BY <1>1, CommandTextSound DEF TypeOK
  <2>2. CASE IsCommand(buf)
    BY <1>3, <2>1, <2>2 DEF ProcessCommand, AbstractQueue, AbstractMotion
  <2>3. CASE ~ IsCommand(buf)
    <3>1. /\ AbstractQueue = <<buf>> \o fifo_rx_data
          /\ AbstractQueue' = fifo_rx_data
          /\ AbstractMotion = fb_stop
      BY <1>3, <2>1, <2>3 DEF ProcessCommand, AbstractQueue, AbstractMotion
    <3>2. AbstractMotion' = Motion(buf)
      <4>1. Spins = fb_stop
        BY <1>1, <1>3, SpinsOfRest DEF PinsFollowMove, ProcessCommand
      <4>2. Spins' = Spins
        BY <1>3 DEF ProcessCommand, Spins, Spin
      <4>3. QED
        BY <1>3, <2>1, <2>3, <4>1, <4>2
        DEF ProcessCommand, AbstractMotion, Motion
    <3>3. D!Serve
      BY <1>1, <3>1, <3>2, ServedHead, SameCommands DEF D!Serve
    <3>4. QED BY <3>3 DEF D!Next
  <2>4. QED BY <2>2, <2>3
<1>4. CASE DriveInA
  BY <1>4 DEF DriveInA, AbstractQueue, AbstractMotion
<1>5. CASE DriveInB
  <2>1. CASE m < 4
    BY <1>5, <2>1 DEF DriveInB, AbstractQueue, AbstractMotion
  <2>2. CASE m = 4
    <3>1. /\ AbstractQueue = <<buf>> \o fifo_rx_data
          /\ AbstractQueue' = fifo_rx_data
          /\ AbstractMotion = fb_stop
          /\ buf' = buf
          /\ pc' = "release"
      BY <1>5, <2>2 DEF DriveInB, AbstractQueue, AbstractMotion
    <3>2. move' \in Move /\ (\A w \in Wheel : Set(w, move))' /\ move' = Motion(buf)
      BY <1>1, <3>1 DEF PinsFollowMove, TypeOK
    <3>3. Spins' = move'
      <4>1. \A w \in Wheel : Spin(w)' = move'[w]
        BY <3>2 DEF Set, Spin, LevelA, LevelB, Move, Wheel, Setting
      <4>2. move' = [w \in Wheel |-> move'[w]]
        BY <3>2 DEF Move
      <4>3. QED BY <4>1, <4>2 DEF Spins
    <3>4. D!Serve
      BY <1>1, <3>1, <3>2, <3>3, ServedHead, SameCommands
      DEF D!Serve, AbstractMotion
    <3>5. QED BY <3>4 DEF D!Next
  <2>3. QED BY <1>1, <2>1, <2>2 DEF Wheel
<1>6. CASE Release
  BY <1>6 DEF Release, AbstractQueue, AbstractMotion, Spins, Spin
<1>7. CASE Wake
  <2>1. D!Finish
    BY <1>7, SameCommands DEF Wake, D!Finish, AbstractQueue, AbstractMotion
  <2>2. QED BY <2>1 DEF D!Next
<1>8. CASE StopInA
  BY <1>8 DEF StopInA, AbstractQueue, AbstractMotion
<1>9. CASE StopInB
  BY <1>9 DEF StopInB, AbstractQueue, AbstractMotion
<1>10. QED
  BY <1>2, <1>3, <1>4, <1>5, <1>6, <1>7, <1>8, <1>9 DEF ReadThread

\* The robot serves the accepted frames in order, once each and from
\* standstill, for every heap size and every sequence of writes.
THEOREM DriveRefinement == Spec => ImplementsDrive
<1>1. IInv /\ [Next]_vars => [D!Next]_(D!vars)
  <2> SUFFICES ASSUME IInv, [Next]_vars PROVE [D!Next]_(D!vars)
    OBVIOUS
  <2>1. CASE ReadThread
    BY <2>1, ReadThreadDrives
  <2>2. CASE \E w \in Writes : BtReceive(w)
    BY <2>2, ReceiveAccepts DEF D!Next
  <2>3. CASE UNCHANGED vars
    BY <2>3 DEF vars, D!vars, AbstractQueue, AbstractMotion, Spins, Spin
  <2>4. QED BY <2>1, <2>2, <2>3 DEF Next
<1>2. QED
  BY InitDrive, Invariance, <1>1, PTL DEF Spec, ImplementsDrive, D!Spec
=============================================================================
