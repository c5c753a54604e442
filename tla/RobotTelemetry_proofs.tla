----------------------- MODULE RobotTelemetry_proofs ------------------------
(***************************************************************************)
(* Theorems about RobotTelemetry for every ring size and every set of      *)
(* readings: its invariants, and that it implements ReadingWindow.         *)
(***************************************************************************)
EXTENDS RobotTelemetry, TLAPS, WellFoundedInduction

USE DEF MayStore, Counted, Serialized, Sent

(***************************************************************************)
(* The inductive invariant.  Each semaphore's unit is in its count, with   *)
(* one thread, or not given yet; the position in the ring follows from the *)
(* number of readings until the ring is full; and what is serialized so    *)
(* far comes from the window as it is.                                     *)
(***************************************************************************)
InStore == pc_s \in {"store", "advance", "count", "give"}
InSerialize == pc_w \in {"serialize", "give"}
InSend == pc_w \in {"send", "give_ble"}
Enabled == pc_m \in {"nus_init", "adv_start", "returned"}
One(b) == IF b THEN 1 ELSE 0

ReadingLock ==
    sem_reading + One(InStore) + One(InSerialize) + One(pc_m = "start") = 1

BleLock == ble_init_ok + One(InSend) + One(~ Enabled) = 1

RingInv ==
    readings_filled < READING_MAX_SIZE =>
        reading_pos = IF pc_s = "count"
                      THEN (readings_filled + 1) % READING_MAX_SIZE
                      ELSE readings_filled

FrameInv ==
    /\ pc_w \in {"take", "sleep"} => dest = <<>>
    /\ pc_w = "serialize" =>
         \E n \in 0..4 : dest = [i \in 1..n |-> Average(Window, toTransmit[i])]
    /\ pc_w = "give" => dest = Averages(Window)
    /\ pc_w \in {"take_ble", "send", "give_ble"} => Len(dest) = 5

IInv == TypeOK /\ ReadingLock /\ BleLock /\ RingInv /\ FrameInv

-----------------------------------------------------------------------------
\* The slot of a window's j-th reading: counted from the position of the next
\* store in a full ring, from slot 0 in one that is filling up.
First == IF EffectiveFilled = READING_MAX_SIZE THEN EffectivePos ELSE 0
SlotOf(j) == IF First + j - 1 < READING_MAX_SIZE THEN First + j - 1
             ELSE First + j - 1 - READING_MAX_SIZE

WindowShape ==
    /\ EffectiveFilled \in 0..READING_MAX_SIZE
    /\ EffectivePos \in Slot
    /\ Window = [j \in 1..EffectiveFilled |-> readings[SlotOf(j)]]
    /\ Window \in Seq(Readings)
    /\ Len(Window) = EffectiveFilled

\* The window, which serialize_reading's indices describe, is a sequence of
\* as many readings as the ring holds, each in the slot SlotOf gives.
LEMMA WindowForm == TypeOK => WindowShape
<1> SUFFICES ASSUME TypeOK PROVE WindowShape
  OBVIOUS
<1> DEFINE N == READING_MAX_SIZE
<1>1. N \in Nat \ {0} /\ reading_pos \in 0..(N - 1) /\ readings_filled \in 0..N
      /\ readings \in [0..(N - 1) -> Readings]
  BY TelemetryAssumption DEF TypeOK, Slot
<1>2. EffectiveFilled \in 0..N
  BY <1>1 DEF EffectiveFilled, Grown
<1>3. (reading_pos + 1) % N = IF reading_pos + 1 < N THEN reading_pos + 1
                              ELSE reading_pos + 1 - N
  BY <1>1
<1>4. EffectivePos \in 0..(N - 1)
  BY <1>1, <1>3 DEF EffectivePos
<1>5. First \in 0..(N - 1)
  BY <1>1, <1>4 DEF First
<1>6. ASSUME NEW j \in 1..EffectiveFilled
      PROVE  (First + j - 1) % N = SlotOf(j) /\ SlotOf(j) \in 0..(N - 1)
  <2>1. First \in 0..(N - 1) /\ j - 1 \in 0..(N - 1)
    BY <1>1, <1>2, <1>5
  <2>2. N \in Nat \ {0}
    BY <1>1
  <2>3. (First + j - 1) % N = IF First + j - 1 < N THEN First + j - 1
                              ELSE First + j - 1 - N
    BY <2>1, <2>2
  <2>4. SlotOf(j) \in 0..(N - 1)
    BY <2>1, <2>2 DEF SlotOf
  <2>5. QED BY <2>3, <2>4 DEF SlotOf
<1>7. /\ Start(EffectivePos, EffectiveFilled) = First
      /\ End(EffectivePos, EffectiveFilled) - Start(EffectivePos, EffectiveFilled)
           = EffectiveFilled
  BY <1>1, <1>2, <1>4 DEF Start, End, First
<1>8. Window = [j \in 1..EffectiveFilled |-> readings[SlotOf(j)]]
  BY <1>6, <1>7 DEF Window, Span
<1>9. \A j \in 1..EffectiveFilled : readings[SlotOf(j)] \in Readings
  BY <1>1, <1>6
<1>10. Window \in Seq(Readings) /\ Len(Window) = EffectiveFilled
  BY <1>1, <1>2, <1>8, <1>9
<1>11. QED BY <1>2, <1>4, <1>8, <1>10 DEF Slot, WindowShape

\* Storing a reading slides the window, whether the ring is full, fills up
\* with it or has room left.
LEMMA StoreSlides ==
    ASSUME IInv, IInv', Store
    PROVE  Window' = W!Slide(Window, r)
<1> DEFINE N == READING_MAX_SIZE
           f == readings_filled
           p == reading_pos
<1>1. N \in Nat \ {0} /\ p \in 0..(N - 1) /\ f \in 0..N /\ r \in Readings
      /\ readings \in [0..(N - 1) -> Readings]
  BY TelemetryAssumption DEF IInv, TypeOK, Slot
<1>2. /\ pc_s = "store" /\ pc_s' = "advance"
      /\ readings' = [readings EXCEPT ![p] = r]
      /\ p' = p /\ f' = f
  BY DEF Store
<1>3. f < N => p = f
  BY <1>2 DEF IInv, RingInv
<1>4. EffectiveFilled = f /\ EffectivePos = p
  BY <1>2 DEF EffectiveFilled, EffectivePos
<1>5. /\ EffectiveFilled' = IF f < N THEN f + 1 ELSE N
      /\ EffectivePos' = IF p + 1 < N THEN p + 1 ELSE 0
  <2>1. (p + 1) % N = IF p + 1 < N THEN p + 1 ELSE p + 1 - N
    BY <1>1
  <2>2. EffectivePos' = (p + 1) % N
    BY <1>2 DEF EffectivePos
  <2>3. QED BY <1>1, <1>2, <2>1, <2>2 DEF EffectiveFilled, Grown
<1>6. /\ Window = [j \in 1..f |-> readings[SlotOf(j)]]
      /\ Window \in Seq(Readings) /\ Len(Window) = f
  BY <1>4, WindowForm DEF IInv, WindowShape
<1>7. /\ Window' = [j \in 1..(EffectiveFilled') |-> readings'[SlotOf(j)']]
      /\ Window' \in Seq(Readings) /\ Len(Window') = EffectiveFilled'
  <2>1. TypeOK'
    BY DEF IInv
  <2>2. WindowShape'
    BY <2>1, WindowForm, PTL
  <2>3. QED BY <2>2 DEF WindowShape
<1>8. CASE f < N
  <2>1. First = 0
    BY <1>1, <1>4, <1>8 DEF First
  <2>2. First' = 0
    BY <1>1, <1>3, <1>5, <1>8 DEF First
  <2>3. \A j \in 1..(f + 1) : SlotOf(j) = j - 1 /\ SlotOf(j)' = j - 1
    BY <1>1, <1>8, <2>1, <2>2 DEF SlotOf
  <2>4. Window' = [j \in 1..(f + 1) |-> IF j = f + 1 THEN r ELSE readings[j - 1]]
    BY <1>1, <1>2, <1>3, <1>5, <1>7, <1>8, <2>3
  <2>5. Append(Window, r) = [j \in 1..(f + 1) |-> IF j = f + 1 THEN r ELSE Window[j]]
    BY <1>1, <1>6
  <2>6. \A j \in 1..f : Window[j] = readings[j - 1]
    BY <1>1, <1>6, <2>3
  <2>7. Window' = Append(Window, r)
    BY <1>1, <2>4, <2>5, <2>6
  <2>8. QED BY <1>6, <1>8, <2>7 DEF W!Slide
<1>9. CASE f = N
  <2>1. First = p /\ First' = IF p + 1 < N THEN p + 1 ELSE 0
    BY <1>1, <1>4, <1>5, <1>9 DEF First
  <2>2. \A j \in 1..N :
           /\ SlotOf(j) = IF p + j - 1 < N THEN p + j - 1 ELSE p + j - 1 - N
           /\ SlotOf(j)' = IF j = N THEN p
                           ELSE IF p + j < N THEN p + j ELSE p + j - N
    BY <1>1, <2>1 DEF SlotOf
  <2>3. Window' = [j \in 1..N |-> IF j = N THEN r ELSE readings[SlotOf(j)']]
    BY <1>1, <1>2, <1>5, <1>7, <1>9, <2>2
  <2>4. \A j \in 1..(N - 1) : SlotOf(j)' = SlotOf(j + 1)
    BY <1>1, <2>2
  <2>5. Append(Tail(Window), r)
          = [j \in 1..N |-> IF j = N THEN r ELSE Window[j + 1]]
    <3>1. /\ Tail(Window) \in Seq(Readings) /\ Len(Tail(Window)) = N - 1
          /\ \A j \in 1..(N - 1) : Tail(Window)[j] = Window[j + 1]
      BY <1>1, <1>6, <1>9, SMTT(30)
    <3>2. Append(Tail(Window), r)
            = [j \in 1..N |-> IF j = N THEN r ELSE Tail(Window)[j]]
      BY <1>1, <3>1
    <3>3. QED BY <1>1, <3>1, <3>2
  <2>6. \A j \in 1..(N - 1) : Window[j + 1] = readings[SlotOf(j)']
    BY <1>1, <1>6, <1>9, <2>4
  <2>7. Window' = Append(Tail(Window), r)
    BY <1>1, <2>3, <2>5, <2>6
  <2>8. ~ (Len(Window) < N)
    BY <1>1, <1>6, <1>9
  <2>9. QED BY <2>7, <2>8 DEF W!Slide
<1>10. QED BY <1>1, <1>8, <1>9

\* Every step but Store leaves the window alone when it leaves the slots and
\* the effective position and count alone.
LEMMA SameWindow ==
    ASSUME UNCHANGED <<readings, EffectivePos, EffectiveFilled>>
    PROVE  Window' = Window
BY DEF Window, Span, Start, End

-----------------------------------------------------------------------------
(***************************************************************************)
(* The invariant is inductive.                                             *)
(***************************************************************************)

\* At start the ring is empty and neither semaphore has been given.
LEMMA InitIInv == Init => IInv
<1> SUFFICES ASSUME Init PROVE IInv
  OBVIOUS
<1>1. TypeOK
  BY TelemetryAssumption DEF Init, TypeOK, Slot, toTransmit
<1>2. ReadingLock /\ BleLock
  BY DEF Init, ReadingLock, BleLock, One, InStore, InSerialize, InSend, Enabled
<1>3. RingInv /\ FrameInv
  BY DEF Init, RingInv, FrameInv
<1>4. QED BY <1>1, <1>2, <1>3 DEF IInv

\* my_nus_main touches neither the ring nor the frame.
LEMMA MainIInv ==
    ASSUME IInv, Main
    PROVE  IInv'
<1> USE DEF ring, sensor, writer
<1>1. UNCHANGED <<readings, reading_pos, readings_filled, pc_s, r, pc_w, dest>>
  BY DEF Main, GiveReading, BtEnable, GiveBleInitOk, NusInit, AdvStart
<1>2. Window' = Window
  BY <1>1, SameWindow DEF EffectivePos, EffectiveFilled, Grown
<1>3. RingInv' /\ FrameInv'
  BY <1>1, <1>2 DEF IInv, RingInv, FrameInv
<1>4. TypeOK'
  BY <1>1 DEF IInv, TypeOK, Main, GiveReading, BtEnable, GiveBleInitOk, NusInit,
              AdvStart, Given
<1>5. ReadingLock' /\ BleLock'
  BY <1>1 DEF IInv, TypeOK, ReadingLock, BleLock, One, InStore, InSerialize,
              InSend, Enabled, Main, GiveReading, BtEnable, GiveBleInitOk,
              NusInit, AdvStart, Given
<1>6. QED BY <1>3, <1>4, <1>5 DEF IInv

\* sensor_read_thread keeps the position in step with the count; while the
\* other thread serializes it is kept out of the ring by sem_reading.
LEMMA SensorIInv ==
    ASSUME IInv, SensorThread
    PROVE  IInv'
<1> USE DEF ring, writer
<1> DEFINE N == READING_MAX_SIZE
<1>0. /\ N \in Nat \ {0} /\ reading_pos \in 0..(N - 1) /\ readings_filled \in 0..N
      /\ TypeOK /\ ReadingLock /\ BleLock /\ RingInv /\ FrameInv
  BY TelemetryAssumption DEF IInv, TypeOK, Slot
<1>1. UNCHANGED <<ble_init_ok, pc_w, dest, pc_m>>
  BY DEF SensorThread, Measure, SensorTake, Store, Advance, Count, SensorGive,
         SensorWake
<1>2. TypeOK'
  <2>1. (reading_pos + 1) % N \in Slot
    BY <1>0 DEF Slot
  <2>2. QED
    BY <1>0, <1>1, <2>1, TelemetryAssumption
    DEF TypeOK, SensorThread, Measure, SensorTake, Store, Advance, Count,
        SensorGive, SensorWake, Given
<1>3. ReadingLock' /\ BleLock'
  BY <1>0, <1>1
  DEF TypeOK, ReadingLock, BleLock, One, InStore, InSerialize, InSend, Enabled,
      SensorThread, Measure, SensorTake, Store, Advance, Count, SensorGive,
      SensorWake, Given
<1>4. RingInv'
  <2>1. CASE Advance
    BY <1>0, <2>1 DEF Advance, RingInv
  <2>2. CASE Count
    <3>1. readings_filled + 1 < N => (readings_filled + 1) % N = readings_filled + 1
      BY <1>0
    <3>2. QED BY <1>0, <2>2, <3>1 DEF Count, RingInv
  <2>3. CASE Measure \/ SensorTake \/ Store \/ SensorGive \/ SensorWake
    BY <1>0, <2>3
    DEF Measure, SensorTake, Store, SensorGive, SensorWake, RingInv
  <2>4. QED BY <2>1, <2>2, <2>3 DEF SensorThread
<1>5. FrameInv'
  <2>1. CASE InSerialize
    <3>1. ~ InStore /\ sem_reading = 0
      BY <1>0, <2>1 DEF ReadingLock, One, TypeOK
    <3>2. Measure \/ SensorWake
      BY <3>1 DEF InStore, SensorThread, SensorTake, Store, Advance, Count,
                  SensorGive
    <3>3. Window' = Window
      BY <3>2, SameWindow
      DEF Measure, SensorWake, EffectivePos, EffectiveFilled, Grown
    <3>4. QED BY <1>0, <1>1, <3>3 DEF FrameInv
  <2>2. CASE ~ InSerialize
    BY <1>0, <1>1, <2>2 DEF FrameInv, InSerialize
  <2>3. QED BY <2>1, <2>2
<1>6. QED BY <1>2, <1>3, <1>4, <1>5 DEF IInv

\* ble_write_thread appends averages of the window it holds the lock of.
LEMMA SerializeFieldFrame ==
    ASSUME NEW n \in 0..4, NEW w,
           dest = [i \in 1..n |-> Average(w, toTransmit[i])],
           dest' = Append(dest, Average(w, toTransmit[n + 1]))
    PROVE  /\ Len(dest) = n /\ Len(dest') = n + 1
           /\ dest' = [i \in 1..(n + 1) |-> Average(w, toTransmit[i])]
<1> DEFINE avg(i) == Average(w, toTransmit[i])
<1> HIDE DEF avg
<1>1. dest = [i \in 1..n |-> avg(i)] /\ dest' = Append(dest, avg(n + 1))
  BY DEF avg
<1>2. Len(dest) = n
  BY <1>1
<1>3. dest' = [i \in 1..(n + 1) |-> avg(i)] /\ Len(dest') = n + 1
  BY <1>1
<1>4. QED BY <1>2, <1>3 DEF avg

\* ble_write_thread: a field is added to the frame under sem_reading only, and
\* the frame is shredded after the send.
LEMMA WriteIInv ==
    ASSUME IInv, WriteThread
    PROVE  IInv'
<1> USE DEF ring, sensor
<1>0. TypeOK /\ ReadingLock /\ BleLock /\ RingInv /\ FrameInv
  BY DEF IInv
<1>1. UNCHANGED <<readings, reading_pos, readings_filled, pc_s, r, pc_m>>
  BY DEF WriteThread, SerializeTake, SerializeField, SerializeGive, TakeBle,
         BtNusSend, GiveBle, WriterWake
<1>2. Window' = Window
  BY <1>1, SameWindow DEF EffectivePos, EffectiveFilled, Grown
<1>3. RingInv'
  BY <1>0, <1>1 DEF RingInv
<1>4. ASSUME SerializeField
      PROVE  /\ Len(dest') \in 0..5
             /\ pc_w' \in {"serialize", "give"}
             /\ UNCHANGED <<sem_reading, ble_init_ok>>
             /\ FrameInv'
  <2>1. PICK n \in 0..4 : dest = [i \in 1..n |-> Average(Window, toTransmit[i])]
    BY <1>0, <1>4 DEF SerializeField, FrameInv
  <2>2. ~ InStore
    BY <1>0, <1>4 DEF SerializeField, ReadingLock, One, InSerialize, TypeOK
  <2>3. Window = Span(reading_pos, readings_filled)
    BY <2>2 DEF InStore, Window, EffectivePos, EffectiveFilled
  <2>4. Len(dest) = n
    BY <2>1
  <2>5. dest' = Append(dest, Average(Window, toTransmit[n + 1]))
    BY <1>4, <2>3, <2>4 DEF SerializeField, serialize_reading
  <2>6. /\ Len(dest') = n + 1
        /\ dest' = [i \in 1..(n + 1) |-> Average(Window, toTransmit[i])]
    BY <2>1, <2>5, SerializeFieldFrame
  <2>7. Len(toTransmit) = 5
    BY DEF toTransmit
  <2>8. pc_w' = IF n = 4 THEN "give" ELSE "serialize"
    BY <1>4, <2>6, <2>7 DEF SerializeField
  <2> DEFINE k == n + 1
  <2>9. dest' = [i \in 1..k |-> Average(Window', toTransmit[i])] /\ k \in 1..5
    BY <1>2, <2>6
  <2>10. FrameInv'
    <3>1. CASE n = 4
      <4>1. dest' = Averages(Window')
        BY <2>7, <2>9, <3>1 DEF Averages
      <4>2. QED BY <2>8, <3>1, <4>1 DEF FrameInv
    <3>2. CASE n # 4
      <4>1. k \in 0..4 /\ pc_w' = "serialize"
        BY <2>8, <3>2
      <4> HIDE DEF k
      <4>2. QED BY <2>9, <4>1 DEF FrameInv
    <3>3. QED BY <3>1, <3>2
  <2>11. UNCHANGED <<sem_reading, ble_init_ok>>
    BY <1>4 DEF SerializeField
  <2>12. Len(dest') \in 0..5 /\ pc_w' \in {"serialize", "give"}
    BY <2>6, <2>8
  <2>13. QED BY <2>10, <2>11, <2>12
<1>5. TypeOK'
  <2>1. CASE SerializeField
    BY <1>0, <1>1, <1>4, <2>1 DEF TypeOK, toTransmit
  <2>2. CASE ~ SerializeField
    BY <1>0, <1>1, <2>2
    DEF TypeOK, WriteThread, SerializeTake, SerializeGive, TakeBle, BtNusSend,
        GiveBle, WriterWake, Given, toTransmit
  <2>3. QED BY <2>1, <2>2
<1>6. ReadingLock' /\ BleLock'
  <2>1. CASE SerializeField
    BY <1>0, <1>1, <1>4, <2>1
    DEF SerializeField, ReadingLock, BleLock, One, InStore, InSerialize, InSend,
        Enabled
  <2>2. CASE ~ SerializeField
    BY <1>0, <1>1, <2>2
    DEF TypeOK, ReadingLock, BleLock, One, InStore, InSerialize, InSend, Enabled,
        WriteThread, SerializeTake, SerializeGive, TakeBle, BtNusSend, GiveBle,
        WriterWake, Given
  <2>3. QED BY <2>1, <2>2
<1>7. FrameInv'
  <2>1. CASE SerializeField
    BY <1>4, <2>1
  <2>2. CASE SerializeTake
    <3>1. dest' = <<>> /\ pc_w' = "serialize"
      BY <1>0, <2>2 DEF SerializeTake, FrameInv
    <3>2. dest' = [i \in 1..0 |-> Average(Window', toTransmit[i])]
      BY <3>1
    <3>3. QED BY <3>1, <3>2 DEF FrameInv
  <2>3. CASE SerializeGive
    <3>1. Len(dest') = 5
      BY <1>0, <2>3 DEF SerializeGive, FrameInv, Averages, toTransmit
    <3>2. QED BY <2>3, <3>1 DEF SerializeGive, FrameInv
  <2>4. CASE TakeBle \/ BtNusSend \/ GiveBle \/ WriterWake
    BY <1>0, <2>4 DEF TakeBle, BtNusSend, GiveBle, WriterWake, FrameInv
  <2>5. QED BY <2>1, <2>2, <2>3, <2>4 DEF WriteThread
<1>8. QED BY <1>3, <1>5, <1>6, <1>7 DEF IInv

\* The two semaphores exclude, the ring's position and count agree, and what
\* is serialized comes from the current window, in every reachable state.
THEOREM Invariance == Spec => []IInv
<1>1. IInv /\ [Next]_vars => IInv'
  <2> SUFFICES ASSUME IInv, [Next]_vars PROVE IInv'
    OBVIOUS
  <2>1. CASE Next
    BY <2>1, MainIInv, SensorIInv, WriteIInv DEF Next
  <2>2. CASE UNCHANGED vars
    <3>1. Window' = Window
      BY <2>2, SameWindow
      DEF vars, ring, sensor, EffectivePos, EffectiveFilled, Grown
    <3>2. QED
      BY <2>2, <3>1
      DEF vars, ring, sensor, writer, IInv, TypeOK, ReadingLock, BleLock, RingInv,
          FrameInv, InStore, InSerialize, InSend, Enabled
  <2>3. QED BY <2>1, <2>2
<1>2. QED BY InitIInv, <1>1, PTL DEF Spec

-----------------------------------------------------------------------------
(***************************************************************************)
(* What follows from it.                                                   *)
(***************************************************************************)

\* Every variable keeps its type; readings_filled stays within the ring.
THEOREM TypeCorrect == Spec => []TypeOK
<1>1. IInv => TypeOK
  BY DEF IInv
<1>2. QED BY <1>1, Invariance, PTL

-----------------------------------------------------------------------------
(***************************************************************************)
(* The ring, the locks and the two threads implement ReadingWindow.        *)
(***************************************************************************)

\* Storing is Record; no other step of sensor_read_thread moves the window.
LEMMA SensorRefines ==
    ASSUME IInv, IInv', SensorThread
    PROVE  [W!Next]_(W!vars)
<1> USE DEF W!vars, ring, writer
<1>1. Frame' = Frame /\ Up' = Up
  BY DEF SensorThread, Measure, SensorTake, Store, Advance, Count, SensorGive,
         SensorWake, Frame, Up
<1>2. CASE Store
  <2>1. Window' = W!Slide(Window, r)
    BY <1>2, StoreSlides
  <2>2. r \in Readings
    BY DEF IInv, TypeOK
  <2>3. W!Record
    BY <1>1, <2>1, <2>2 DEF W!Record
  <2>4. QED BY <2>3 DEF W!Next
<1>3. CASE ~ Store
  <2>1. UNCHANGED <<readings, EffectivePos, EffectiveFilled>>
    <3>1. CASE Advance
      BY <3>1 DEF Advance, EffectivePos, EffectiveFilled, Grown
    <3>2. CASE Count
      BY <3>2, TelemetryAssumption
      DEF Count, EffectivePos, EffectiveFilled, Grown, IInv, TypeOK
    <3>3. CASE Measure \/ SensorTake \/ SensorGive \/ SensorWake
      BY <3>3 DEF Measure, SensorTake, SensorGive, SensorWake, EffectivePos,
                  EffectiveFilled, Grown
    <3>4. QED BY <1>3, <3>1, <3>2, <3>3 DEF SensorThread
  <2>2. Window' = Window
    BY <2>1, SameWindow
  <2>3. QED BY <1>1, <2>2
<1>4. QED BY <1>2, <1>3

\* The last field completes Compose, and bt_nus_send is Send: its semaphore
\* was given after bt_enable.
LEMMA WriteRefines ==
    ASSUME IInv, IInv', WriteThread
    PROVE  [W!Next]_(W!vars)
<1> USE DEF W!vars, ring, sensor
<1>1. UNCHANGED <<readings, reading_pos, readings_filled, pc_s, pc_m>>
  BY DEF WriteThread, SerializeTake, SerializeField, SerializeGive, TakeBle,
         BtNusSend, GiveBle, WriterWake
<1>2. Window' = Window /\ Up' = Up
  BY <1>1, SameWindow DEF EffectivePos, EffectiveFilled, Grown, Up
<1>3. CASE SerializeField
  <2>1. Frame = <<>>
    BY <1>3 DEF SerializeField, Frame
  <2>2. pc_w' \in {"serialize", "give"}
    BY <1>3 DEF SerializeField
  <2>3. CASE pc_w' = "give"
    <3>1. Frame' = Averages(Window)
      BY <1>2, <2>3 DEF IInv, FrameInv, Frame
    <3>2. W!Compose
      BY <1>2, <2>1, <3>1 DEF W!Compose
    <3>3. QED BY <3>2 DEF W!Next
  <2>4. CASE pc_w' = "serialize"
    BY <1>2, <2>1, <2>4 DEF Frame
  <2>5. QED BY <2>2, <2>3, <2>4
<1>4. CASE BtNusSend
  <2>1. Frame' = <<>>
    BY <1>4 DEF BtNusSend, Frame
  <2>2. Up
    BY <1>4
    DEF BtNusSend, IInv, TypeOK, BleLock, InSend, Enabled, One, Up
  <2>3. W!Send
    BY <1>2, <2>1, <2>2 DEF W!Send
  <2>4. QED BY <2>3 DEF W!Next
<1>5. CASE SerializeTake \/ SerializeGive \/ TakeBle \/ GiveBle \/ WriterWake
  BY <1>2, <1>5 DEF SerializeTake, SerializeGive, TakeBle, GiveBle, WriterWake,
                    Frame
<1>6. QED BY <1>3, <1>4, <1>5 DEF WriteThread

\* Every frame the robot composes is the averages of its last readings at one
\* instant, and sent once the radio is up, for every ring size and reading.
THEOREM WindowRefinement == Spec => ImplementsReadingWindow
<1>1. Init => W!Init
  <2> SUFFICES ASSUME Init PROVE Window = <<>> /\ Frame = <<>> /\ Up = FALSE
    BY DEF W!Init
  <2>1. EffectiveFilled = 0 /\ TypeOK
    BY InitIInv DEF Init, IInv, EffectiveFilled
  <2>2. Window = <<>>
    BY <2>1, WindowForm DEF WindowShape
  <2>3. QED BY <2>2 DEF Init, Frame, Up
<1>2. IInv /\ IInv' /\ [Next]_vars => [W!Next]_(W!vars)
  <2> SUFFICES ASSUME IInv, IInv', [Next]_vars PROVE [W!Next]_(W!vars)
    OBVIOUS
  <2>1. CASE Main \/ UNCHANGED vars
    <3>1. UNCHANGED <<readings, reading_pos, readings_filled, pc_s, pc_w, dest>>
      BY <2>1 DEF vars, ring, sensor, writer, Main, GiveReading, BtEnable,
                  GiveBleInitOk, NusInit, AdvStart
    <3>2. Window' = Window /\ Frame' = Frame
      BY <3>1, SameWindow DEF EffectivePos, EffectiveFilled, Grown, Frame
    <3>3. Up' = Up \/ Up' = TRUE
      BY <2>1 DEF vars, Main, GiveReading, BtEnable, GiveBleInitOk, NusInit,
                  AdvStart, Up
    <3>4. QED BY <3>2, <3>3 DEF W!vars, W!Next, W!Start
  <2>2. CASE SensorThread
    BY <2>2, SensorRefines
  <2>3. CASE WriteThread
    BY <2>3, WriteRefines
  <2>4. QED BY <2>1, <2>2, <2>3 DEF Next
<1>3. QED
  BY <1>1, <1>2, Invariance, PTL DEF Spec, ImplementsReadingWindow, W!Spec

-----------------------------------------------------------------------------
(***************************************************************************)
(* The average.  The sum of a window is defined by recursion over its      *)
(* readings; what holds of it follows by induction, which is the principle *)
(* that a set of numbers has a least element.                              *)
(***************************************************************************)
\* The order of the natural numbers is well-founded.
LEMMA LessThan ==
    \E R : /\ IsWellFoundedOn(R, Nat)
           /\ \A m, n \in Nat : <<m, n>> \in R <=> m < n
<1>1. IsWellFoundedOn(OpToRel(<, Nat), Nat)
  BY NatLessThanWellFounded
<1>2. \A m, n \in Nat : <<m, n>> \in OpToRel(<, Nat) <=> m < n
  BY DEF OpToRel
<1> QED
  BY <1>1, <1>2

\* A set of numbers that is not empty has a least one.
LEMMA LeastNatural ==
    ASSUME NEW T, T \subseteq Nat, T # {}
    PROVE  \E n \in T : \A m \in T : n <= m
<1>1. PICK R : /\ IsWellFoundedOn(R, Nat)
               /\ \A m, n \in Nat : <<m, n>> \in R <=> m < n
  BY LessThan
<1>2. IsWellFoundedOn(R, Nat)
  BY <1>1
<1>3. PICK x \in T : \A y \in T : ~ (<<y, x>> \in R)
  BY <1>2, WFMin, Zenon
<1>4. \A y \in T : ~ (y < x)
  BY <1>1, <1>3
<1> QED
  BY <1>4

\* A set with 0 and the successor of each of its numbers has all of them.
LEMMA SetInduction ==
    ASSUME NEW S, 0 \in S, \A n \in Nat \cap S : n + 1 \in S
    PROVE  Nat \subseteq S
<1> SUFFICES ASSUME Nat \ S # {}
             PROVE  FALSE
  OBVIOUS
<1>1. PICK n \in Nat \ S : \A m \in Nat \ S : n <= m
  BY LeastNatural
<1> QED
  BY <1>1

\* A set of numbers with a bound has a least and a greatest one.
LEMMA Extremes ==
    ASSUME NEW M, M \subseteq Nat, M # {}, NEW b \in Nat, \A m \in M : m <= b
    PROVE  \E low, high \in M : \A m \in M : low <= m /\ m <= high
<1>1. PICK low \in M : \A m \in M : low <= m
  BY LeastNatural
<1> DEFINE U == {n \in Nat : \A m \in M : m <= n}
<1>2. PICK high \in U : \A n \in U : high <= n
  <2>1. U \subseteq Nat /\ U # {}
    OBVIOUS
  <2> HIDE DEF U
  <2> QED
    BY <2>1, LeastNatural
<1>3. high \in M
  <2> SUFFICES ASSUME high \notin M
               PROVE  FALSE
    OBVIOUS
  <2>1. \A m \in M : m <= high - 1 /\ high - 1 \in Nat
    BY <1>2
  <2>2. high - 1 \in U
    BY <1>1, <2>1
  <2> QED
    BY <1>2, <2>2
<1> QED
  BY <1>1, <1>2, <1>3

\* total_value after so many readings.
IsTotal(t, w, f, k) ==
    t = [n \in 0..k |-> IF n = 0 THEN 0 ELSE t[n - 1] + Abs(w[n][f])]

\* The loop has a result for every number of readings.
LEMMA TotalExists ==
    ASSUME NEW w, NEW f, NEW k \in Nat
    PROVE  \E t : IsTotal(t, w, f, k)
<1> DEFINE S == {n \in Nat : \E t : IsTotal(t, w, f, n)}
<1>1. 0 \in S
  <2> DEFINE t == [n \in 0..0 |-> 0]
  <2>1. t = [n \in 0..0 |-> IF n = 0 THEN 0 ELSE t[n - 1] + Abs(w[n][f])]
    OBVIOUS
  <2> QED
    BY <2>1 DEF IsTotal
<1>2. ASSUME NEW m \in Nat, m \in S
      PROVE  m + 1 \in S
  <2>1. PICK t : IsTotal(t, w, f, m)
    BY <1>2
  <2> DEFINE v(n) == Abs(w[n][f])
             u == [n \in 0..(m + 1) |-> IF n = m + 1 THEN t[m] + v(m + 1) ELSE t[n]]
  <2>2. \A n \in 0..m : t[n] = IF n = 0 THEN 0 ELSE t[n - 1] + v(n)
    BY <2>1 DEF IsTotal
  <2> HIDE DEF v
  <2>3. \A n \in 0..(m + 1) : u[n] = IF n = 0 THEN 0 ELSE u[n - 1] + v(n)
    <3> SUFFICES ASSUME NEW n \in 0..(m + 1)
                 PROVE  u[n] = IF n = 0 THEN 0 ELSE u[n - 1] + v(n)
      OBVIOUS
    <3>1. CASE n = m + 1
      <4>1. n # 0 /\ n - 1 = m /\ u[m] = t[m]
        BY <3>1
      <4> QED
        BY <3>1, <4>1
    <3>2. CASE n \in 1..m
      <4>1. u[n] = t[n] /\ u[n - 1] = t[n - 1]
        BY <3>2
      <4> QED
        BY <2>2, <3>2, <4>1
    <3>3. CASE n = 0
      BY <2>2, <3>3
    <3> QED
      BY <3>1, <3>2, <3>3
  <2>4. u = [n \in 0..(m + 1) |-> IF n = 0 THEN 0 ELSE u[n - 1] + v(n)]
    BY <2>3
  <2>5. IsTotal(u, w, f, m + 1)
    BY <2>4 DEF IsTotal, v
  <2> QED
    BY <2>5
<1>3. Nat \subseteq S
  <2> HIDE DEF S
  <2> QED
    BY <1>1, <1>2, SetInduction
<1> QED
  BY <1>3

\* total_value starts at 0 and grows reading by reading.
LEMMA TotalSteps ==
    ASSUME NEW w, NEW f, Len(w) \in Nat
    PROVE  \E t : /\ t[0] = 0
                  /\ \A n \in 1..Len(w) : t[n] = t[n - 1] + Abs(w[n][f])
                  /\ Total(w, f) = t[Len(w)]
<1> DEFINE t == CHOOSE u : IsTotal(u, w, f, Len(w))
<1>1. IsTotal(t, w, f, Len(w))
  BY TotalExists
<1>2. Total(w, f) = t[Len(w)]
  BY DEF Total, IsTotal
<1>3. t[0] = 0 /\ \A n \in 1..Len(w) : t[n] = t[n - 1] + Abs(w[n][f])
  <2> HIDE DEF t
  <2>1. t = [n \in 0..Len(w) |-> IF n = 0 THEN 0 ELSE t[n - 1] + Abs(w[n][f])]
    BY <1>1 DEF IsTotal
  <2> QED
    BY <2>1
<1> QED
  BY <1>2, <1>3

\* A sum of so many values is at least, and at most, that many times a bound.
LEMMA TotalBounds ==
    ASSUME NEW w, NEW f, Len(w) \in Nat, NEW low \in Int, NEW high \in Int,
           \A n \in 1..Len(w) : /\ Abs(w[n][f]) \in Int
                                /\ low <= Abs(w[n][f]) /\ Abs(w[n][f]) <= high
    PROVE  /\ Total(w, f) \in Int
           /\ Len(w) * low <= Total(w, f) /\ Total(w, f) <= Len(w) * high
<1> DEFINE v(n) == Abs(w[n][f])
           N == Len(w)
<1>1. PICK t : /\ t[0] = 0 /\ \A n \in 1..N : t[n] = t[n - 1] + v(n)
               /\ Total(w, f) = t[N]
  BY TotalSteps
<1>2. N \in Nat /\ \A n \in 1..N : v(n) \in Int /\ low <= v(n) /\ v(n) <= high
  OBVIOUS
<1> HIDE DEF v, N
<1> DEFINE Bounded(n) == t[n] \in Int /\ n * low <= t[n] /\ t[n] <= n * high
           S == {n \in Nat : n <= N => Bounded(n)}
<1>3. 0 \in S
  BY <1>1
<1>4. ASSUME NEW n \in Nat, n \in S
      PROVE  n + 1 \in S
  <2> SUFFICES ASSUME n + 1 <= N
               PROVE  Bounded(n + 1)
    OBVIOUS
  <2>1. t[n] \in Int /\ n * low <= t[n] /\ t[n] <= n * high
    BY <1>2, <1>4
  <2>2. n + 1 \in 1..N /\ (n + 1) - 1 = n
    BY <1>2
  <2>3. t[n + 1] = t[n] + v(n + 1)
    BY <1>1, <2>2
  <2>4. v(n + 1) \in Int /\ low <= v(n + 1) /\ v(n + 1) <= high
    BY <1>2, <2>2
  <2>5. (n + 1) * low = n * low + low /\ (n + 1) * high = n * high + high
    OBVIOUS
  <2>6. n * low \in Int /\ n * high \in Int
    OBVIOUS
  <2> QED
    BY <2>1, <2>3, <2>4, <2>5, <2>6
<1>5. Nat \subseteq S
  <2> HIDE DEF S
  <2> QED
    BY <1>3, <1>4, SetInduction
<1>6. Bounded(N)
  BY <1>2, <1>5
<1> QED
  BY <1>1, <1>6 DEF N

\* A quotient lies between the bounds of what is divided.
LEMMA QuotientBounds ==
    ASSUME NEW n \in Nat \ {0}, NEW t \in Int, NEW low \in Int, NEW high \in Int,
           n * low <= t, t <= n * high
    PROVE  t \div n \in Int /\ low <= t \div n /\ t \div n <= high
<1> DEFINE q == t \div n
           rest == t % n
<1>1. q \in Int /\ rest \in Int /\ t = n * q + rest /\ 0 <= rest /\ rest < n
  OBVIOUS
<1> HIDE DEF q, rest
<1>2. low <= q
  <2> SUFFICES ASSUME q + 1 <= low
               PROVE  FALSE
    BY <1>1
  <2>1. n * (q + 1) <= n * low
    BY <1>1
  <2>2. n * (q + 1) = n * q + n
    BY <1>1
  <2>3. n * q \in Int /\ n * low \in Int
    BY <1>1
  <2> QED
    BY <1>1, <2>1, <2>2, <2>3
<1>3. q <= high
  <2> SUFFICES ASSUME high + 1 <= q
               PROVE  FALSE
    BY <1>1
  <2>1. n * (high + 1) <= n * q
    BY <1>1
  <2>2. n * (high + 1) = n * high + n
    OBVIOUS
  <2>3. n * q \in Int /\ n * high \in Int
    BY <1>1
  <2> QED
    BY <1>1, <2>1, <2>2, <2>3
<1> QED
  BY <1>1, <1>2, <1>3 DEF q

\* The magnitudes of a field in a window.
Magnitudes(w, f) == {Abs(w[j][f]) : j \in DOMAIN w}

\* Finitely many values have a bound.
LEMMA WindowBound ==
    ASSUME NEW w, NEW f, Len(w) \in Nat,
           \A n \in 1..Len(w) : Abs(w[n][f]) \in Nat
    PROVE  \E b \in Nat : \A n \in 1..Len(w) : Abs(w[n][f]) <= b
<1> DEFINE v(n) == Abs(w[n][f])
           N == Len(w)
<1> HIDE DEF v
<1>1. N \in Nat /\ \A n \in 1..N : v(n) \in Nat
  BY DEF v
<1> HIDE DEF N
<1> DEFINE S == {k \in Nat : k <= N => \E b \in Nat : \A n \in 1..k : v(n) <= b}
<1>2. 0 \in S
  <2>1. \A n \in 1..0 : v(n) <= 0
    OBVIOUS
  <2> QED
    BY <2>1
<1>3. ASSUME NEW k \in Nat, k \in S
      PROVE  k + 1 \in S
  <2> SUFFICES ASSUME k + 1 <= N
               PROVE  \E b \in Nat : \A n \in 1..(k + 1) : v(n) <= b
    OBVIOUS
  <2>1. PICK b \in Nat : \A n \in 1..k : v(n) <= b
    BY <1>1, <1>3
  <2>2. v(k + 1) \in Nat
    BY <1>1
  <2> DEFINE c == b + v(k + 1)
  <2>3. c \in Nat /\ \A n \in 1..k : v(n) \in Nat
    BY <1>1, <2>2
  <2>4. \A n \in 1..(k + 1) : v(n) <= c
    <3> SUFFICES ASSUME NEW n \in 1..(k + 1)
                 PROVE  v(n) <= c
      OBVIOUS
    <3>1. CASE n \in 1..k
      BY <2>1, <2>2, <2>3, <3>1
    <3>2. CASE n = k + 1
      BY <2>2, <3>2
    <3> QED
      BY <3>1, <3>2
  <2> QED
    BY <2>3, <2>4
<1>4. Nat \subseteq S
  <2> HIDE DEF S
  <2> QED
    BY <1>2, <1>3, SetInduction
<1>5. \E b \in Nat : \A n \in 1..N : v(n) <= b
  <2>1. N \in S
    <3> HIDE DEF S
    <3> QED
      BY <1>1, <1>4
  <2>2. N <= N => \E b \in Nat : \A n \in 1..N : v(n) <= b
    BY <2>1, Zenon
  <2> QED
    BY <1>1, <2>2
<1> QED
  BY <1>5 DEF v, N

\* The average before it is cut to 16 bits lies between the smallest and the
\* largest magnitude.
LEMMA AverageBounds ==
    ASSUME NEW w \in Seq(Readings), w # <<>>, NEW i \in 1..5
    PROVE  LET f == toTransmit[i]
           IN  /\ Magnitudes(w, f) \subseteq Nat
               /\ Total(w, f) \div Len(w) \in Int
               /\ \E low, high \in Magnitudes(w, f) :
                     /\ low <= Total(w, f) \div Len(w)
                     /\ Total(w, f) \div Len(w) <= high
<1> DEFINE f == toTransmit[i]
           M == Magnitudes(w, f)
<1>1. Len(w) \in Nat \ {0} /\ DOMAIN w = 1..Len(w)
      /\ \A n \in 1..Len(w) : w[n] \in Readings
  OBVIOUS
<1>2. \A n \in 1..Len(w) : Abs(w[n][f]) \in Nat
  <2>1. i \in DOMAIN toTransmit
    BY DEF toTransmit
  <2>2. \A n \in 1..Len(w) : w[n][f] \in Int
    BY <1>1, <2>1, ReadingsAssumption
  <2> QED
    BY <2>2 DEF Abs
<1> HIDE DEF f
<1>3. M \subseteq Nat /\ M # {} /\ \A n \in 1..Len(w) : Abs(w[n][f]) \in M
  <2>1. 1 \in 1..Len(w)
    BY <1>1
  <2> QED
    BY <1>1, <1>2, <2>1 DEF Magnitudes
<1>4. PICK b \in Nat : \A n \in 1..Len(w) : Abs(w[n][f]) <= b
  BY <1>1, <1>2, WindowBound
<1>5. \A m \in M : m <= b
  BY <1>1, <1>4 DEF Magnitudes
<1> HIDE DEF M
<1>6. PICK low \in M, high \in M : \A m \in M : low <= m /\ m <= high
  BY <1>3, <1>5, Extremes
<1>7. /\ Total(w, f) \in Int /\ low \in Int /\ high \in Int
      /\ Len(w) * low <= Total(w, f) /\ Total(w, f) <= Len(w) * high
  <2>1. low \in Int /\ high \in Int
    BY <1>3
  <2>2. \A n \in 1..Len(w) : /\ Abs(w[n][f]) \in Int
                             /\ low <= Abs(w[n][f]) /\ Abs(w[n][f]) <= high
    BY <1>2, <1>3, <1>6
  <2>3. Len(w) \in Nat
    BY <1>1
  <2> QED
    BY <2>1, <2>2, <2>3, TotalBounds
<1>8. /\ Total(w, f) \div Len(w) \in Int
      /\ low <= Total(w, f) \div Len(w) /\ Total(w, f) \div Len(w) <= high
  BY <1>1, <1>7, QuotientBounds
<1> QED
  BY <1>3, <1>6, <1>8 DEF f, M

\* A field of a finished frame, whatever its readings: a value between the
\* smallest and the largest magnitude in the window, cut to 16 bits.
FieldCut(i) ==
    IF Window = <<>> THEN dest[i] = 0
    ELSE \E low, high \in Magnitudes(Window, toTransmit[i]) :
            \E a \in low..high : dest[i] = a % 65536

FrameCut == pc_w = "give" => \A i \in 1..Len(dest) : FieldCut(i)

\* The numbers of the C type uint16_t hold the magnitudes of all readings.
Fits == \A reading \in Readings, i \in DOMAIN toTransmit :
            Abs(reading[toTransmit[i]]) < 65536

\* An int holds the sum of as many magnitudes as the ring has readings.
SumsFit == \A reading \in Readings, i \in DOMAIN toTransmit :
               READING_MAX_SIZE * Abs(reading[toTransmit[i]]) < IntRange

LEMMA ProductGrows == \A a, b, c \in Nat : a <= b => 0 <= a * c /\ a * c <= b * c
<1> SUFFICES ASSUME NEW a \in Nat, NEW b \in Nat, NEW c \in Nat, a <= b
             PROVE  0 <= a * c /\ a * c <= b * c
  OBVIOUS
<1>1. PICK e \in Nat : b = a + e
  <2>1. b - a \in Nat /\ b = a + (b - a)
    OBVIOUS
  <2> QED
    BY <2>1
<1>2. \A x, y \in Nat : x * y \in Nat
  OBVIOUS
<1>3. b * c = a * c + e * c
  BY <1>1
<1> QED
  BY <1>2, <1>3

\* Then the sum over a window does not wrap around.
LEMMA TotalFits ==
    ASSUME SumsFit, NEW w \in Seq(Readings), w # <<>>, Len(w) <= READING_MAX_SIZE,
           NEW i \in 1..5
    PROVE  Total(w, toTransmit[i]) % IntRange = Total(w, toTransmit[i])
<1> DEFINE f == toTransmit[i]
           N == Len(w)
<1>1. N \in Nat \ {0} /\ \A n \in 1..N : w[n] \in Readings
  OBVIOUS
<1>2. i \in DOMAIN toTransmit
  BY DEF toTransmit
<1>3. \A n \in 1..N : Abs(w[n][f]) \in Nat
  <2>1. \A n \in 1..N : w[n][f] \in Int
    BY <1>1, <1>2, ReadingsAssumption
  <2> QED
    BY <2>1 DEF Abs
<1>4. \A n \in 1..N : READING_MAX_SIZE * Abs(w[n][f]) < IntRange
  BY <1>1, <1>2 DEF SumsFit
<1> HIDE DEF f
<1> DEFINE M == Magnitudes(w, f)
<1>5. /\ M \subseteq Nat /\ M # {} /\ \A n \in 1..N : Abs(w[n][f]) \in M
      /\ \A m \in M : READING_MAX_SIZE * m < IntRange
  <2>1. 1 \in 1..N /\ DOMAIN w = 1..N
    BY <1>1
  <2> QED
    BY <1>3, <1>4, <2>1 DEF Magnitudes
<1>6. PICK b \in Nat : \A n \in 1..N : Abs(w[n][f]) <= b
  BY <1>1, <1>3, WindowBound
<1>7. \A m \in M : m <= b
  <2>1. DOMAIN w = 1..N
    BY <1>1
  <2> QED
    BY <1>6, <2>1 DEF Magnitudes
<1> HIDE DEF M
<1>8. PICK low \in M, high \in M : \A m \in M : low <= m /\ m <= high
  BY <1>5, <1>7, Extremes
<1>9. /\ Total(w, f) \in Int /\ low \in Nat /\ high \in Nat
      /\ N * low <= Total(w, f) /\ Total(w, f) <= N * high
  <2>1. low \in Nat /\ high \in Nat
    BY <1>5
  <2>2. \A n \in 1..N : /\ Abs(w[n][f]) \in Int
                         /\ low <= Abs(w[n][f]) /\ Abs(w[n][f]) <= high
    BY <1>3, <1>5, <1>8
  <2> QED
    BY <1>1, <2>1, <2>2, TotalBounds
<1>10. 0 <= N * low /\ N * high <= READING_MAX_SIZE * high
  <2>1. N \in Nat /\ READING_MAX_SIZE \in Nat /\ N <= READING_MAX_SIZE
    BY <1>1, TelemetryAssumption
  <2> QED
    BY <1>9, <2>1, ProductGrows
<1> HIDE DEF N
<1>11. 0 <= Total(w, f) /\ Total(w, f) < IntRange
  <2> DEFINE x == N * low
             y == N * high
             z == READING_MAX_SIZE * high
  <2>1. x \in Int /\ y \in Int /\ z \in Int
    BY <1>1, <1>9, TelemetryAssumption
  <2>2. /\ 0 <= x /\ x <= Total(w, f) /\ Total(w, f) <= y /\ y <= z /\ z < IntRange
    BY <1>5, <1>9, <1>10
  <2> HIDE DEF x, y, z
  <2> QED
    BY <1>9, <2>1, <2>2, IntAssumption
<1> QED
  BY <1>9, <1>11, IntAssumption DEF f

LEMMA FinishedFrame ==
    ASSUME IInv, pc_w = "give", NEW i \in 1..Len(dest)
    PROVE  /\ i \in 1..5 /\ i \in DOMAIN toTransmit
           /\ dest[i] = Average(Window, toTransmit[i])
           /\ Window \in Seq(Readings) /\ Len(Window) <= READING_MAX_SIZE
<1>1. /\ dest = Averages(Window) /\ Window \in Seq(Readings)
      /\ Len(Window) <= READING_MAX_SIZE
  BY WindowForm, TelemetryAssumption DEF IInv, FrameInv, WindowShape
<1>2. Len(toTransmit) = 5 /\ DOMAIN toTransmit = 1..5
  BY DEF toTransmit
<1>3. Len(dest) = 5
  BY <1>1, <1>2 DEF Averages
<1> QED
  BY <1>1, <1>2, <1>3 DEF Averages

LEMMA FrameIsCut == SumsFit /\ IInv => FrameCut
<1> SUFFICES ASSUME SumsFit, IInv, pc_w = "give", NEW i \in 1..Len(dest)
             PROVE  FieldCut(i)
  BY DEF FrameCut
<1> DEFINE w == Window
           f == toTransmit[i]
           a == Total(w, f) \div Len(w)
<1>1. /\ i \in 1..5 /\ dest[i] = Average(w, f)
      /\ w \in Seq(Readings) /\ Len(w) <= READING_MAX_SIZE
  BY FinishedFrame
<1>2. CASE w = <<>>
  BY <1>1, <1>2 DEF Average, FieldCut
<1>3. CASE w # <<>>
  <2>1. dest[i] = a % 65536
    BY <1>1, <1>3, TotalFits DEF Average
  <2>2. /\ a \in Int /\ Magnitudes(w, f) \subseteq Nat
        /\ \E low, high \in Magnitudes(w, f) : low <= a /\ a <= high
    BY <1>1, <1>3, AverageBounds
  <2> HIDE DEF a
  <2>3. PICK low \in Magnitudes(w, f), high \in Magnitudes(w, f) : low <= a /\ a <= high
    BY <2>2
  <2>4. a \in low..high
    BY <2>2, <2>3
  <2> QED
    BY <1>3, <2>1, <2>3, <2>4 DEF FieldCut
<1> QED
  BY <1>2, <1>3

\* FramesCut: as long as their sums fit an int, a field of a frame is what 16
\* bits keep of a value between the smallest and the largest magnitude of its
\* window, and a frame made before the first reading is zero.
THEOREM FramesCut ==
    ASSUME SumsFit
    PROVE  Spec => []FrameCut
<1>1. IInv => FrameCut
  BY FrameIsCut
<1> QED
  BY <1>1, Invariance, PTL

\* With readings that fit the field, nothing is cut off.
LEMMA FrameIsWithin == Fits /\ FrameCut /\ IInv => FrameWithinReadings
<1> SUFFICES ASSUME Fits, FrameCut, IInv, pc_w = "give", NEW i \in 1..Len(dest)
             PROVE  IF Window = <<>> THEN dest[i] = 0
                    ELSE \E low, high \in Magnitudes(Window, toTransmit[i]) :
                            low <= dest[i] /\ dest[i] <= high
  BY DEF FrameWithinReadings, Magnitudes
<1> DEFINE M == Magnitudes(Window, toTransmit[i])
<1>1. i \in 1..5 /\ i \in DOMAIN toTransmit /\ Window \in Seq(Readings)
  BY FinishedFrame
<1>2. FieldCut(i)
  BY DEF FrameCut
<1>3. CASE Window = <<>>
  BY <1>2, <1>3 DEF FieldCut
<1>4. CASE Window # <<>>
  <2>1. M \subseteq Nat
    BY <1>1, <1>4, AverageBounds
  <2>2. \A m \in M : m < 65536
    <3>1. \A j \in DOMAIN Window : Window[j] \in Readings
      BY <1>1
    <3> QED
      BY <1>1, <3>1 DEF Magnitudes, Fits
  <2>3. PICK low \in M, high \in M : \E a \in low..high : dest[i] = a % 65536
    BY <1>2, <1>4 DEF FieldCut
  <2>4. PICK a \in low..high : dest[i] = a % 65536
    BY <2>3
  <2>5. low \in Nat /\ high \in Nat /\ high < 65536
    BY <2>1, <2>2
  <2>6. a \in Int /\ 0 <= a /\ a < 65536 /\ low <= a /\ a <= high
    BY <2>5
  <2>7. dest[i] = a
    BY <2>4, <2>6
  <2> QED
    BY <1>4, <2>6, <2>7
<1> QED
  BY <1>3, <1>4

\* FrameBetween: for every ring size and all readings that fit the field, and
\* whose sums fit an int, each field of a frame lies between two magnitudes of
\* its window, also while sensor_read_thread waits to store the next one.
THEOREM FrameBetween ==
    ASSUME Fits, SumsFit
    PROVE  Spec => []FrameWithinReadings
<1>1. IInv => FrameWithinReadings
  BY FrameIsCut, FrameIsWithin
<1> QED
  BY <1>1, Invariance, PTL
=============================================================================
