---------------------------- MODULE RobotTelemetry --------------------------
(***************************************************************************)
(* The telemetry side of the robot (freebot/src/my_nus_stuff.c): the       *)
(* sensor_read_thread fills a ring of READING_MAX_SIZE readings, the       *)
(* ble_write_thread averages it into a frame and sends it, and             *)
(* my_nus_main, on the main thread, gives the two semaphores they wait     *)
(* for.  Every access of the ring is a step of its own.                    *)
(***************************************************************************)
EXTENDS ReadingAverage

CONSTANTS Readings,           \* what the sensors can give: field -> value
          ZeroReading,        \* the ring's contents at start
          READING_MAX_SIZE    \* 5 in the build

ASSUME TelemetryAssumption ==
    /\ READING_MAX_SIZE \in Nat \ {0}
    /\ ZeroReading \in Readings

ASSUME ReadingsAssumption ==
    \A reading \in Readings, i \in DOMAIN toTransmit :
        reading[toTransmit[i]] \in Int

VARIABLES readings, reading_pos, readings_filled,   \* the ring
          sem_reading, ble_init_ok,                 \* the semaphores' counts
          pc_s, r,        \* sensor_read_thread and the reading it took
          pc_w, dest,     \* ble_write_thread and the fields in its buffer
          pc_m            \* my_nus_main

ring == <<readings, reading_pos, readings_filled>>
sensor == <<pc_s, r>>
writer == <<pc_w, dest>>
vars == <<ring, sem_reading, ble_init_ok, sensor, writer, pc_m>>

Slot == 0..(READING_MAX_SIZE - 1)

Init == /\ readings = [s \in Slot |-> ZeroReading]
        /\ reading_pos = 0
        /\ readings_filled = 0
        /\ sem_reading = 0
        /\ ble_init_ok = 0
        /\ pc_s = "measure" /\ r = ZeroReading
        /\ pc_w = "take" /\ dest = <<>>
        /\ pc_m = "start"

\* k_sem_give on a semaphore whose limit is 1.
Given(sem) == IF sem < 1 THEN sem + 1 ELSE sem

-----------------------------------------------------------------------------
(***************************************************************************)
(* my_nus_main.  bt_enable may fail: error() then never returns.  The two  *)
(* later failures make it return -1, which main ignores.                   *)
(***************************************************************************)
GiveReading ==
    /\ pc_m = "start"
    /\ sem_reading' = Given(sem_reading)
    /\ pc_m' = "enable"
    /\ UNCHANGED <<ring, ble_init_ok, sensor, writer>>

BtEnable ==
    /\ pc_m = "enable"
    /\ pc_m' \in {"enabled", "error"}
    /\ UNCHANGED <<ring, sem_reading, ble_init_ok, sensor, writer>>

GiveBleInitOk ==
    /\ pc_m = "enabled"
    /\ ble_init_ok' = Given(ble_init_ok)
    /\ pc_m' = "nus_init"
    /\ UNCHANGED <<ring, sem_reading, sensor, writer>>

NusInit ==
    /\ pc_m = "nus_init"
    /\ pc_m' \in {"adv_start", "returned"}
    /\ UNCHANGED <<ring, sem_reading, ble_init_ok, sensor, writer>>

AdvStart ==
    /\ pc_m = "adv_start"
    /\ pc_m' = "returned"
    /\ UNCHANGED <<ring, sem_reading, ble_init_ok, sensor, writer>>

Main == GiveReading \/ BtEnable \/ GiveBleInitOk \/ NusInit \/ AdvStart

-----------------------------------------------------------------------------
(***************************************************************************)
(* sensor_read_thread: a reading, then writeToCycReadingsBuf, then a sleep *)
(* of 200 ms.                                                              *)
(***************************************************************************)
Measure ==
    /\ pc_s = "measure"
    /\ r' \in Readings
    /\ pc_s' = "take"
    /\ UNCHANGED <<ring, sem_reading, ble_init_ok, writer, pc_m>>

\* Mutant: writeToCycReadingsBuf does not wait for the semaphore.
MayStoreUnlocked == TRUE

\* k_sem_take(&sem_reading) blocks while the count is 0.
MayStore == sem_reading > 0

SensorTake ==
    /\ pc_s = "take"
    /\ MayStore
    /\ sem_reading' = sem_reading - 1
    /\ pc_s' = "store"
    /\ UNCHANGED <<ring, ble_init_ok, r, writer, pc_m>>

Store ==
    /\ pc_s = "store"
    /\ readings' = [readings EXCEPT ![reading_pos] = r]
    /\ pc_s' = "advance"
    /\ UNCHANGED <<reading_pos, readings_filled, sem_reading, ble_init_ok, r,
                   writer, pc_m>>

Advance ==
    /\ pc_s = "advance"
    /\ reading_pos' = (reading_pos + 1) % READING_MAX_SIZE
    /\ pc_s' = "count"
    /\ UNCHANGED <<readings, readings_filled, sem_reading, ble_init_ok, r,
                   writer, pc_m>>

\* Mutant: the bound on readings_filled is forgotten.
CountedUnbounded == readings_filled + 1

Counted == IF readings_filled < READING_MAX_SIZE
           THEN readings_filled + 1 ELSE readings_filled

Count ==
    /\ pc_s = "count"
    /\ readings_filled' = Counted
    /\ pc_s' = "give"
    /\ UNCHANGED <<readings, reading_pos, sem_reading, ble_init_ok, r, writer,
                   pc_m>>

SensorGive ==
    /\ pc_s = "give"
    /\ sem_reading' = Given(sem_reading)
    /\ pc_s' = "sleep"
    /\ UNCHANGED <<ring, ble_init_ok, r, writer, pc_m>>

SensorWake ==
    /\ pc_s = "sleep"
    /\ pc_s' = "measure"
    /\ r' = ZeroReading
    /\ UNCHANGED <<ring, sem_reading, ble_init_ok, writer, pc_m>>

SensorThread == \/ Measure \/ SensorTake \/ Store \/ Advance \/ Count
                \/ SensorGive \/ SensorWake

-----------------------------------------------------------------------------
(***************************************************************************)
(* serialize_reading: the average of one field over the readings from p_s  *)
(* up to p_e, under mod READING_MAX_SIZE.                                  *)
(***************************************************************************)
Start(pos, filled) == IF filled = READING_MAX_SIZE THEN pos ELSE 0
End(pos, filled) ==
    IF filled = READING_MAX_SIZE THEN pos + filled
    ELSE IF filled > READING_MAX_SIZE THEN READING_MAX_SIZE ELSE filled

Span(pos, filled) ==
    [j \in 1..(End(pos, filled) - Start(pos, filled)) |->
        readings[(Start(pos, filled) + j - 1) % READING_MAX_SIZE]]

serialize_reading(f) == Average(Span(reading_pos, readings_filled), f)

(***************************************************************************)
(* ble_write_thread: serialize_readings_buf under sem_reading, the send    *)
(* under ble_init_ok, and a sleep of a second.                             *)
(***************************************************************************)
SerializeTake ==
    /\ pc_w = "take"
    /\ sem_reading > 0
    /\ sem_reading' = sem_reading - 1
    /\ pc_w' = "serialize"
    /\ UNCHANGED <<ring, ble_init_ok, sensor, dest, pc_m>>

SerializeField ==
    /\ pc_w = "serialize"
    /\ dest' = Append(dest, serialize_reading(toTransmit[Len(dest) + 1]))
    /\ pc_w' = IF Len(dest') = Len(toTransmit) THEN "give" ELSE "serialize"
    /\ UNCHANGED <<ring, sem_reading, ble_init_ok, sensor, pc_m>>

\* Mutant: sem_reading is kept until the frame can be sent.
SerializedLate == IF ble_init_ok > 0 THEN Given(sem_reading) ELSE sem_reading

\* The semaphore is given as soon as the frame is serialized.
Serialized == Given(sem_reading)

SerializeGive ==
    /\ pc_w = "give"
    /\ sem_reading' = Serialized
    /\ pc_w' = "take_ble"
    /\ UNCHANGED <<ring, ble_init_ok, sensor, dest, pc_m>>

TakeBle ==
    /\ pc_w = "take_ble"
    /\ ble_init_ok > 0
    /\ ble_init_ok' = ble_init_ok - 1
    /\ pc_w' = "send"
    /\ UNCHANGED <<ring, sem_reading, sensor, dest, pc_m>>

\* bt_nus_send: whether it fails (no connection, no buffer) or not, the loop
\* goes on; a failure only logs a warning.
BtNusSend ==
    /\ pc_w = "send"
    /\ pc_w' = "give_ble"
    /\ UNCHANGED <<ring, sem_reading, ble_init_ok, sensor, dest, pc_m>>

\* Mutant: the semaphore is taken for the send and not given back.
SentKept == ble_init_ok

\* k_sem_give(&ble_init_ok), and the message is shredded before the sleep.
Sent == Given(ble_init_ok)

GiveBle ==
    /\ pc_w = "give_ble"
    /\ ble_init_ok' = Sent
    /\ dest' = <<>>
    /\ pc_w' = "sleep"
    /\ UNCHANGED <<ring, sem_reading, sensor, pc_m>>

WriterWake ==
    /\ pc_w = "sleep"
    /\ pc_w' = "take"
    /\ UNCHANGED <<ring, sem_reading, ble_init_ok, sensor, dest, pc_m>>

WriteThread == \/ SerializeTake \/ SerializeField \/ SerializeGive
               \/ TakeBle \/ BtNusSend \/ GiveBle \/ WriterWake

-----------------------------------------------------------------------------
Next == Main \/ SensorThread \/ WriteThread

(***************************************************************************)
(* The three threads are scheduled and timers expire.  k_sem_give hands a  *)
(* semaphore to the thread that has waited longest, so a thread whose turn *)
(* keeps coming gets it: strong fairness of the two takes of sem_reading.  *)
(* Nothing makes bt_enable succeed.                                        *)
(***************************************************************************)
Fairness == /\ WF_vars(Main)
            /\ WF_vars(SensorThread) /\ SF_vars(SensorTake)
            /\ WF_vars(WriteThread) /\ SF_vars(SerializeTake)

Spec == Init /\ [][Next]_vars
FairSpec == Spec /\ Fairness

-----------------------------------------------------------------------------
\* TypeOK: in particular readings_filled never passes READING_MAX_SIZE, so
\* the "something went wrong" branch of serialize_reading is never taken.
TypeOK ==
    /\ readings \in [Slot -> Readings]
    /\ reading_pos \in Slot
    /\ readings_filled \in 0..READING_MAX_SIZE
    /\ sem_reading \in {0, 1}
    /\ ble_init_ok \in {0, 1}
    /\ pc_s \in {"measure", "take", "store", "advance", "count", "give", "sleep"}
    /\ r \in Readings
    /\ pc_w \in {"take", "serialize", "give", "take_ble", "send", "give_ble",
                 "sleep"}
    /\ Len(dest) \in 0..Len(toTransmit)
    /\ pc_m \in {"start", "enable", "error", "enabled", "nus_init", "adv_start",
                 "returned"}

\* The window the ring stands for; while sensor_read_thread is between its
\* stores, the one it will stand for when they are done.
Grown == IF readings_filled < READING_MAX_SIZE THEN readings_filled + 1
         ELSE READING_MAX_SIZE
EffectivePos == IF pc_s = "advance" THEN (reading_pos + 1) % READING_MAX_SIZE
                ELSE reading_pos
EffectiveFilled == IF pc_s \in {"advance", "count"} THEN Grown ELSE readings_filled
Window == Span(EffectivePos, EffectiveFilled)

\* FrameWithinReadings: each field of a finished frame lies between the
\* smallest and the largest magnitude in the window, whatever the number of
\* readings and their signs, and is zero only for want of readings.
FrameWithinReadings ==
    pc_w = "give" =>
        \A i \in 1..Len(dest) :
            LET magnitudes == {Abs(Window[j][toTransmit[i]]) : j \in DOMAIN Window}
            IN  IF Window = <<>> THEN dest[i] = 0
                ELSE \E low, high \in magnitudes : low <= dest[i] /\ dest[i] <= high

\* SamplingNeverStops: the ring is refreshed again and again, even when
\* bt_enable fails and the sending thread waits for ble_init_ok for ever.
SamplingNeverStops == []<>(pc_s = "sleep")

\* TelemetryFlows: unless bt_enable fails, a frame goes out again and again,
\* however many sends fail.
TelemetryFlows == <>[](pc_m = "error") \/ []<>(pc_w = "send")

\* The ring, its semaphore and the threads implement ReadingWindow: a reading
\* joins the window when it is stored, a frame exists from its last field to
\* its send, and the robot is up once bt_enable has returned 0.
Frame == IF pc_w \in {"give", "take_ble", "send"} THEN dest ELSE <<>>
Up == pc_m \in {"enabled", "nus_init", "adv_start", "returned"}

W == INSTANCE ReadingWindow WITH Size <- READING_MAX_SIZE, FrameOf <- Averages,
                                 window <- Window, frame <- Frame, up <- Up

\* ImplementsReadingWindow: every frame is the averages of the last readings
\* at one instant, and none is sent before bt_enable has succeeded, although
\* the sending thread starts before main.
ImplementsReadingWindow == W!Spec

\* OnlyMeasurementsAveraged: the voltage of a frame averages voltages.
\* fb_v_measure returns a negative code when the ADC could not be read.
Measured == SelectSeq(Window, LAMBDA reading : reading["VCA"] >= 0)
OnlyMeasurementsAveraged ==
    pc_w = "give" => dest[1] = Average(Measured, "VCA")
=============================================================================
