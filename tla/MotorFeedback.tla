---------------------------- MODULE MotorFeedback ---------------------------
(***************************************************************************)
(* What the robot knows of its wheels (freebot/lib/freebot/src/fb_motor.c).*)
(* A wheel's encoder has two levels, hall_c1 and hall_c2, a quarter of a   *)
(* cycle apart; every edge of hall_c2 raises an interrupt whose handler    *)
(* counts a step up or down.  motor_rpm_thread turns the counts into steps *)
(* per period, and sensor_read_thread reads both (my_nus_stuff.c).  The    *)
(* two threads have the same priority, so one runs until it sleeps, but an *)
(* interrupt may come between any two of their instructions, and a count   *)
(* is two words long.                                                      *)
(***************************************************************************)
EXTENDS Integers

CONSTANTS Motor,       \* the four wheels
          Word,        \* the values of a machine word: 2^32 in the build
          IntRange,    \* how many values an int has: 2^32 in the build, too
          BootTicks,   \* the uptimes at which the threads may start
          SleepTicks,  \* how long RPM_AVG_PERIOD (20 ms) may last, in ticks
          MaxTurns     \* bound: the quarter cycles all wheels make

ASSUME FeedbackAssumption ==
    /\ Word \in Nat \ {0} /\ IntRange \in Nat \ {0}
    /\ BootTicks \subseteq Nat \ {0}
    /\ SleepTicks \subseteq Nat \ {0}

VARIABLES phase,     \* where a wheel is, in quarter cycles of its encoder
          irq,       \* an edge of hall_c2 waits for its handler
          turns,     \* the quarter cycles made so far
          late,      \* history: quarter cycles made while one waited
          counted,   \* the wheels whose callback fb_motor_init installed
          steps,     \* mfl_steps, mfr_steps, mbl_steps, mbr_steps
          cpu,       \* who runs: main, one of the threads, or nobody
          todo,      \* the wheels a thread has not dealt with in its loop
          stage,     \* the call sensor_read_thread is in
          read,      \* the first of two reads that belong together
          timing,    \* mfl_timing, mfr_timing, mbl_timing, mbr_timing
          since,     \* the ticks since time_prev of a wheel
          angles, speeds   \* motor_angles and motor_speeds

wheels == <<phase, irq, turns, late>>
hall == <<wheels, counted, steps>>
clocks == <<timing, since>>
sensor == <<stage, angles, speeds>>
vars == <<phase, irq, turns, late, counted, steps, cpu, todo, stage, read, timing,
          since, angles, speeds>>

Rpm == "motor_rpm"
Sensor == "sensor_read_thread"
Thread == {Rpm, Sensor}

NoRead == [first |-> "none"]
Timing(prev, delta, time) ==
    [step_prev |-> prev, step_delta |-> delta, time_delta |-> time]

\* Counts start at zero wherever the wheels stand.
Init == /\ phase \in [Motor -> {0, 1}]
        /\ irq = [w \in Motor |-> FALSE]
        /\ turns = 0
        /\ late = [w \in Motor |-> 0]
        /\ counted = {}
        /\ steps = [w \in Motor |-> 0]
        /\ cpu = "main"
        /\ todo = [t \in Thread |-> Motor]
        /\ stage = "angle"
        /\ read = NoRead
        /\ timing = [w \in Motor |-> Timing(0, 0, 0)]
        /\ since = [w \in Motor |-> 0]
        /\ angles = [w \in Motor |-> 0]
        /\ speeds = [w \in Motor |-> 0]

-----------------------------------------------------------------------------
\* The levels of the encoder: hall_c2 changes between an odd phase and the
\* even one above it, hall_c1 half way between two such edges.
HallC1(p) == p % 4 \in {1, 2}
HallC2(p) == p % 4 \in {2, 3}

\* What the counter should show for a phase.
Position(p) == p \div 2

\* Mutant: under another name, motor_rpm comes after sensor_read_thread_id.
FirstThreadSensor == Sensor

\* The thread that gets the processor when main first waits: the linker sorts
\* the static threads by name.
FirstThread == Rpm

(***************************************************************************)
(* fb_motor_init, called by main before any thread has run.  It returns    *)
(* without a word at its first failing stage, then no callback is there;   *)
(* or the gpio_add_callback_dt of some wheels fails.                       *)
(***************************************************************************)
FbMotorInit ==
    /\ cpu = "main"
    /\ counted' \in SUBSET Motor
    /\ \E ticks \in BootTicks : since' = [w \in Motor |-> ticks]
    /\ cpu' = FirstThread
    /\ UNCHANGED <<wheels, steps, todo, read, timing, sensor>>

\* A wheel turns by a quarter cycle, whatever moves it.
Turn(w, p) ==
    /\ cpu # "main"
    /\ turns < MaxTurns
    /\ turns' = turns + 1
    /\ phase' = [phase EXCEPT ![w] = p]
    /\ late' = [late EXCEPT ![w] = IF irq[w] THEN @ + 1 ELSE @]
    /\ irq' = [irq EXCEPT ![w] =
                 @ \/ (w \in counted /\ HallC2(p) # HallC2(phase[w]))]
    /\ UNCHANGED <<counted, steps, cpu, todo, read, clocks, sensor>>

\* Mutant: left-side motors without the swap of hall_c1 and hall_c2.
HallStepSwapped(p) == IF HallC1(p) = HallC2(p) THEN -1 ELSE 1

\* hall_isr, in the order of the two levels at the time it runs.
HallStep(p) == IF HallC1(p) = HallC2(p) THEN 1 ELSE -1

HallIsr(w) ==
    /\ irq[w]
    /\ irq' = [irq EXCEPT ![w] = FALSE]
    /\ steps' = [steps EXCEPT ![w] = @ + HallStep(phase[w])]
    /\ UNCHANGED <<phase, turns, late, counted, cpu, todo, read, clocks, sensor>>

-----------------------------------------------------------------------------
\* Mutant: motor_rpm has the higher priority, and runs when its sleep is over.
RunsPreempting(t) ==
    cpu = t \/ (t = Rpm /\ cpu = Sensor /\ stage = "speed" /\ todo[Rpm] # {})

Runs(t) == cpu = t

\* k_sleep is over, and the thread waits for the processor.
Wake(t) ==
    /\ cpu \notin {"main", t}
    /\ todo[t] = {}
    /\ todo' = [todo EXCEPT ![t] = Motor]
    /\ IF t = Rpm
       THEN \E ticks \in SleepTicks : since' = [w \in Motor |-> since[w] + ticks]
       ELSE UNCHANGED since
    /\ UNCHANGED <<hall, cpu, read, timing, sensor>>

Dispatch(t) ==
    /\ cpu = "idle"
    /\ todo[t] # {}
    /\ cpu' = t
    /\ UNCHANGED <<hall, todo, read, clocks, sensor>>

\* Mutant: the count is kept in one unsigned word.
JoinedOneWord(first, before, now) ==
    IF first = "low" THEN before % Word ELSE now % Word

(***************************************************************************)
(* A count is read one word after the other, in the order the compiler     *)
(* chose, and the handler may run in between.  A thread holds the word it  *)
(* has: the count is recorded whole, and one half of it is used.           *)
(***************************************************************************)
Joined(first, before, now) ==
    LET high == IF first = "high" THEN before ELSE now
        low == IF first = "high" THEN now ELSE before
    IN  (high \div Word) * Word + (low % Word)

Reading == [first : {"high", "low", "delta"}, count : Int, motor : Motor]

\* Either loop takes the wheels in a fixed order; the model in any.
ReadCount(t, w) ==
    /\ Runs(t)
    /\ t = Sensor => stage = "angle"
    /\ w \in todo[t]
    /\ read = NoRead
    /\ \E half \in {"high", "low"} :
          read' = [first |-> half, count |-> steps[w], motor |-> w]
    /\ UNCHANGED <<hall, cpu, todo, clocks, sensor>>

\* What the thread has once it has read the second word as well.
Value == Joined(read.first, read.count, steps[read.motor])

\* Mutants: step_prev is not moved on; the time is subtracted the wrong way
\* round.
UpdatedNotMoved(w, curr) ==
    Timing(timing[w].step_prev, curr - timing[w].step_prev, since[w])
UpdatedBackwards(w, curr) ==
    Timing(curr, curr - timing[w].step_prev, 0 - since[w])

\* update_motor_timing
Updated(w, curr) == Timing(curr, curr - timing[w].step_prev, since[w])

\* motor_rpm_thread, for one wheel; after the last one it sleeps.
RpmUpdate ==
    /\ Runs(Rpm)
    /\ read.first \in {"high", "low"}
    /\ LET w == read.motor
       IN  /\ timing' = [timing EXCEPT ![w] = Updated(w, Value)]
           /\ since' = [since EXCEPT ![w] = 0]
           /\ todo' = [todo EXCEPT ![Rpm] = @ \ {w}]
           /\ cpu' = IF todo[Rpm] = {w} THEN "idle" ELSE cpu
    /\ read' = NoRead
    /\ UNCHANGED <<hall, sensor>>

\* Integer division in C drops the fraction.
Quotient(a, b) == IF a >= 0 THEN a \div b ELSE -((-a) \div b)

\* What an int keeps of the int64_t assigned to it.
AsInt(n) ==
    LET low == n % IntRange
    IN  IF 2 * low < IntRange THEN low ELSE low - IntRange

\* calculate_motor_angle, as fb_motor_angle_t holds it.
AngleOf(count) == AsInt(Quotient(count * 360, 1380))

\* fb_get_motor_angle, for one wheel.
GetMotorAngle ==
    /\ Runs(Sensor)
    /\ stage = "angle"
    /\ read # NoRead
    /\ LET w == read.motor
           last == todo[Sensor] = {w}
       IN  /\ angles' = [angles EXCEPT ![w] = AngleOf(Value)]
           /\ todo' = [todo EXCEPT ![Sensor] = IF last THEN Motor ELSE @ \ {w}]
           /\ stage' = IF last THEN "speed" ELSE "angle"
    /\ read' = NoRead
    /\ UNCHANGED <<hall, cpu, clocks, speeds>>

\* k_ticks_to_ms_near64 of time_d * 1380, for a clock of 32768 Hz.
Divisor(time_d) == (time_d * 1380 * 1000 + 16384) \div 32768

\* calculate_motor_rpm, for one wheel: it reads step_delta, then time_delta.
ReadStepDelta(w) ==
    /\ Runs(Sensor)
    /\ stage = "speed"
    /\ w \in todo[Sensor]
    /\ read = NoRead
    /\ read' = [first |-> "delta", count |-> timing[w].step_delta, motor |-> w]
    /\ UNCHANGED <<hall, cpu, todo, clocks, sensor>>

\* What it returns, as fb_motor_speed_t holds it.
Speed(step_d, time_d) == AsInt(Quotient(step_d * 60000, Divisor(time_d)))

GetMotorSpeed ==
    /\ Runs(Sensor)
    /\ read.first = "delta"
    /\ LET w == read.motor
       IN  /\ speeds' = [speeds EXCEPT ![w] =
                           Speed(read.count, timing[w].time_delta)]
           /\ todo' = [todo EXCEPT ![Sensor] = @ \ {w}]
           /\ stage' = IF todo[Sensor] = {w} THEN "measure" ELSE "speed"
    /\ read' = NoRead
    /\ UNCHANGED <<hall, cpu, clocks, angles>>

\* fb_v_measure waits for the converter; what is left of the loop sleeps.
Measure ==
    /\ Runs(Sensor)
    /\ stage = "measure"
    /\ cpu' = "idle"
    /\ stage' = "angle"
    /\ UNCHANGED <<hall, todo, read, clocks, angles, speeds>>

-----------------------------------------------------------------------------
Step(t) == \/ \E w \in Motor : ReadCount(t, w)
           \/ t = Rpm /\ RpmUpdate
           \/ t = Sensor /\ \/ GetMotorAngle
                            \/ \E w \in Motor : ReadStepDelta(w)
                            \/ GetMotorSpeed
                            \/ Measure

Next == \/ FbMotorInit
        \/ \E w \in Motor : \/ HallIsr(w)
                            \/ \E p \in {phase[w] - 1, phase[w] + 1} : Turn(w, p)
        \/ \E t \in Thread : Step(t) \/ Wake(t) \/ Dispatch(t)

(***************************************************************************)
(* Interrupts are served, sleeps end, the thread that has the processor    *)
(* runs, and the queue of ready threads is first come, first served.       *)
(* Nothing makes a wheel turn.                                             *)
(***************************************************************************)
Fairness == /\ WF_vars(FbMotorInit)
            /\ \A w \in Motor : WF_vars(HallIsr(w))
            /\ \A t \in Thread : /\ WF_vars(Step(t)) /\ WF_vars(Wake(t))
                                 /\ SF_vars(Dispatch(t))

Spec == Init /\ [][Next]_vars
FairSpec == Spec /\ Fairness

-----------------------------------------------------------------------------
\* TypeOK: every variable keeps the type the code gives it.
TypeOK ==
    /\ phase \in [Motor -> Int]
    /\ irq \in [Motor -> BOOLEAN]
    /\ turns \in Nat
    /\ late \in [Motor -> Nat]
    /\ counted \subseteq Motor
    /\ steps \in [Motor -> Int]
    /\ cpu \in Thread \cup {"main", "idle"}
    /\ todo \in [Thread -> SUBSET Motor]
    /\ stage \in {"angle", "speed", "measure"}
    /\ read \in {NoRead} \cup Reading
    /\ timing \in [Motor -> [step_prev : Int, step_delta : Int, time_delta : Nat]]
    /\ since \in [Motor -> Nat]
    /\ angles \in [Motor -> Int]
    /\ speeds \in [Motor -> Int]

\* What a wheel's handler has yet to count.
Pending(w) == IF irq[w] THEN HallStep(phase[w]) ELSE 0

\* CountErrorBounded: a counter is off by at most two steps for every quarter
\* cycle its handler was late, in whichever direction the wheel went then, and
\* exact otherwise; without a callback it stays at zero.
Abs(n) == IF n >= 0 THEN n ELSE -n
CountErrorBounded ==
    \A w \in Motor :
        IF w \in counted
        THEN Abs(steps[w] + Pending(w) - Position(phase[w])) <= 2 * late[w]
        ELSE steps[w] = 0

\* NoZeroDivision: no speed is asked for before motor_rpm_thread has a period
\* to divide by, although nothing in the code makes it run first.
NoZeroDivision ==
    cpu = Sensor => \A w \in Motor : Divisor(timing[w].time_delta) # 0

\* SpeedsOfOnePass: the speeds of a reading are those of one pass of
\* motor_rpm_thread over all wheels: no update comes between two of them,
\* nor between the steps and the time of one, although no lock is taken.
SpeedsOfOnePass ==
    cpu = Sensor /\ stage = "measure" =>
        /\ todo[Rpm] \in {{}, Motor}
        /\ \A w \in Motor :
              speeds[w] = Speed(timing[w].step_delta, timing[w].time_delta)

\* TornOnlyAcrossWords: the count a period ends with is one the counter had
\* while it was read, unless it passed a word boundary (such as -1 to 0) in
\* that very read.
TornOnlyAcrossWords ==
    [][\A w \in Motor : timing'[w].step_prev # timing[w].step_prev =>
          \/ timing'[w].step_prev \in {read.count, steps[w]}
          \/ read.count \div Word # steps[w] \div Word]_vars

\* StandstillIsMeasured: when the wheels stop for good, the speeds come to be
\* zero and the angles those of the counts, whatever was read torn before.
StandstillIsMeasured ==
    <>[][FALSE]_phase =>
        <>[](\A w \in Motor : speeds[w] = 0 /\ angles[w] = AngleOf(steps[w]))
=============================================================================
