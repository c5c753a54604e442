------------------------ MODULE MotorFeedback_proofs ------------------------
(***************************************************************************)
(* Proofs about MotorFeedback, for every set of wheels, every word size    *)
(* and every duration of a sleep.                                          *)
(***************************************************************************)
EXTENDS MotorFeedback, TLAPS

(***************************************************************************)
(* A count read in two halves is the count at one of the two reads, if the *)
(* upper words agree.                                                      *)
(***************************************************************************)
LEMMA JoinedIsACount ==
    ASSUME NEW before \in Int, NEW now \in Int, NEW first,
           before \div Word = now \div Word
    PROVE  Joined(first, before, now) \in {before, now}
<1>1. ASSUME NEW v \in Int PROVE (v \div Word) * Word + (v % Word) = v
    BY FeedbackAssumption
<1> QED BY <1>1 DEF Joined

LEMMA JoinedType ==
    ASSUME NEW before \in Int, NEW now \in Int, NEW first
    PROVE  Joined(first, before, now) \in Int
BY FeedbackAssumption DEF Joined

LEMMA DivisorPositive ==
    ASSUME NEW ticks \in Nat \ {0}
    PROVE  Divisor(ticks) \in Nat \ {0}
BY DEF Divisor

LEMMA QuotientType ==
    ASSUME NEW a \in Int, NEW b \in Nat \ {0}
    PROVE  Quotient(a, b) \in Int
BY DEF Quotient

LEMMA AsIntType == \A n \in Int : AsInt(n) \in Int
BY FeedbackAssumption DEF AsInt

\* A handler counts the edge that raised its interrupt; what the wheel did
\* since then costs at most two steps for each quarter cycle.
LEMMA HallStepOfEdge ==
    ASSUME NEW p \in Int, NEW q \in {p - 1, p + 1}
    PROVE  /\ HallStep(p) \in {-1, 1}
           /\ HallC2(p) = HallC2(q) => Position(q) = Position(p)
           /\ HallC2(p) # HallC2(q) => Position(q) = Position(p) + HallStep(q)
           /\ Position(q) - Position(p) - HallStep(q) + HallStep(p) \in -2..2
BY DEF HallStep, HallC1, HallC2, Position

-----------------------------------------------------------------------------
(***************************************************************************)
(* The inductive invariant.  Before fb_motor_init returns no thread has    *)
(* done anything; a read belongs to the thread that runs and to a wheel it *)
(* has still to deal with; motor_rpm_thread is only ever left with all or  *)
(* none of its wheels; a period is positive once it has been measured.     *)
(***************************************************************************)
BeforeThreads ==
    cpu = "main" => /\ todo = [t \in Thread |-> Motor]
                    /\ read = NoRead /\ stage = "angle"
                    /\ counted = {}
                    /\ \A w \in Motor :
                          phase[w] \in {0, 1} /\ steps[w] = 0 /\ ~ irq[w]

ReadOfRunner ==
    read # NoRead =>
        /\ cpu \in Thread
        /\ read.motor \in todo[cpu]
        /\ IF read.first = "delta"
           THEN /\ cpu = Sensor /\ stage = "speed"
                /\ read.count = timing[read.motor].step_delta
           ELSE cpu = Sensor => stage = "angle"

SensorStages ==
    /\ stage # "angle" => cpu = Sensor
    /\ stage = "measure" => todo[Sensor] = {}
    /\ stage = "speed" =>
          \A w \in Motor \ todo[Sensor] :
              speeds[w] = Speed(timing[w].step_delta, timing[w].time_delta)

WholePasses == cpu # Rpm => todo[Rpm] \in {{}, Motor}

PeriodsPositive ==
    /\ cpu # "main" => \A w \in todo[Rpm] : since[w] > 0
    /\ cpu = Rpm => \A w \in Motor \ todo[Rpm] : timing[w].time_delta > 0
    /\ cpu \notin {"main", Rpm} => \A w \in Motor : timing[w].time_delta > 0

InterruptsCounted == \A w \in Motor : irq[w] => w \in counted

Scheduling == /\ BeforeThreads /\ ReadOfRunner /\ SensorStages
              /\ WholePasses /\ PeriodsPositive /\ InterruptsCounted

IInv == TypeOK /\ Scheduling /\ CountErrorBounded /\ SpeedsOfOnePass

\* The invariant holds after the start.
LEMMA InitIInv == Init => IInv
BY DEF Init, IInv, TypeOK, Scheduling, BeforeThreads, ReadOfRunner,
       SensorStages, WholePasses, PeriodsPositive, InterruptsCounted, CountErrorBounded,
       SpeedsOfOnePass, Thread, Rpm, Sensor, NoRead, Timing, Position

\* A wheel or its handler moves the count and what is due to it together.
LEMMA TurnKeepsIInv ==
    ASSUME IInv, NEW w \in Motor, NEW p \in {phase[w] - 1, phase[w] + 1},
           Turn(w, p)
    PROVE  IInv'
<1> USE DEF IInv
<1>1. TypeOK' /\ Scheduling' /\ SpeedsOfOnePass'
    BY DEF Turn, TypeOK, Scheduling, BeforeThreads, ReadOfRunner, SensorStages,
           WholePasses, PeriodsPositive, InterruptsCounted, SpeedsOfOnePass, clocks, sensor
<1>2. CountErrorBounded'
    <2> SUFFICES ASSUME NEW v \in Motor
                 PROVE  IF v \in counted'
                        THEN Abs(steps'[v] + Pending(v)' - Position(phase'[v]))
                                <= 2 * late'[v]
                        ELSE steps'[v] = 0
        BY DEF CountErrorBounded
    <2>1. steps' = steps /\ counted' = counted
        BY DEF Turn
    <2>2. CASE v # w
        BY <2>1, <2>2 DEF Turn, CountErrorBounded, Pending, TypeOK
    <2>3. CASE v = w /\ v \in counted
        <3>1. /\ phase'[w] = p /\ phase[w] \in Int /\ steps[w] \in Int
              /\ late[w] \in Nat
              /\ late'[w] = IF irq[w] THEN late[w] + 1 ELSE late[w]
              /\ irq'[w] = (irq[w] \/ HallC2(p) # HallC2(phase[w]))
            BY <2>3 DEF Turn, TypeOK
        <3>2. /\ HallStep(phase[w]) \in {-1, 1}
              /\ HallC2(phase[w]) = HallC2(p) => Position(p) = Position(phase[w])
              /\ HallC2(phase[w]) # HallC2(p) =>
                    Position(p) = Position(phase[w]) + HallStep(p)
              /\ Position(p) - Position(phase[w]) - HallStep(p)
                    + HallStep(phase[w]) \in -2..2
              /\ HallStep(p) \in {-1, 1}
            BY <3>1, HallStepOfEdge
        <3>3. Position(p) \in Int /\ Position(phase[w]) \in Int
            BY <3>1 DEF Position
        <3>4. Abs(steps[w] + Pending(w) - Position(phase[w])) <= 2 * late[w]
            BY <2>3 DEF CountErrorBounded
        <3>5. CASE irq[w]
            <4>1. Pending(w) = HallStep(phase[w]) /\ Pending(w)' = HallStep(p)
                BY <3>1, <3>5 DEF Pending
            <4> QED BY <2>1, <2>3, <3>1, <3>2, <3>3, <3>4, <3>5, <4>1 DEF Abs
        <3>6. CASE ~ irq[w]
            <4>1. Pending(w) = 0
                BY <3>6 DEF Pending
            <4>2. Pending(w)' = IF HallC2(p) # HallC2(phase[w])
                                THEN HallStep(p) ELSE 0
                BY <3>1, <3>6 DEF Pending
            <4> QED BY <2>1, <2>3, <3>1, <3>2, <3>3, <3>4, <3>6, <4>1, <4>2 DEF Abs
        <3> QED BY <3>5, <3>6
    <2>4. CASE v = w /\ v \notin counted
        BY <2>1, <2>4 DEF CountErrorBounded
    <2> QED BY <2>2, <2>3, <2>4
<1> QED BY <1>1, <1>2

LEMMA HallIsrKeepsIInv ==
    ASSUME IInv, NEW w \in Motor, HallIsr(w)
    PROVE  IInv'
<1> USE DEF IInv
<1>1. HallStep(phase[w]) \in {-1, 1}
    BY DEF HallStep
<1>2. TypeOK'
    BY <1>1 DEF HallIsr, TypeOK, clocks, sensor
<1>3. Scheduling' /\ SpeedsOfOnePass'
    BY DEF HallIsr, Scheduling, BeforeThreads, ReadOfRunner, SensorStages,
           WholePasses, PeriodsPositive, InterruptsCounted, SpeedsOfOnePass, clocks, sensor
<1>4. CountErrorBounded'
    <2> SUFFICES ASSUME NEW v \in Motor
                 PROVE  IF v \in counted'
                        THEN Abs(steps'[v] + Pending(v)' - Position(phase'[v]))
                                <= 2 * late'[v]
                        ELSE steps'[v] = 0
        BY DEF CountErrorBounded
    <2>1. phase' = phase /\ late' = late /\ counted' = counted
        BY DEF HallIsr
    <2>2. CASE v # w
        <3>1. steps'[v] = steps[v] /\ irq'[v] = irq[v]
            BY <2>2 DEF HallIsr, TypeOK
        <3>2. Pending(v)' = Pending(v)
            BY <2>1, <3>1 DEF Pending
        <3> QED BY <2>1, <3>1, <3>2 DEF CountErrorBounded
    <2>3. CASE v = w
        <3>1. w \in counted /\ irq[w] /\ ~ irq'[w]
            BY DEF HallIsr, TypeOK, Scheduling, InterruptsCounted
        <3>2. steps'[w] = steps[w] + HallStep(phase[w]) /\ steps[w] \in Int
            BY DEF HallIsr, TypeOK
        <3>3. Pending(w) = HallStep(phase[w])
            BY <3>1 DEF Pending
        <3>4. Abs(steps[w] + Pending(w) - Position(phase[w])) <= 2 * late[w]
            BY <3>1 DEF CountErrorBounded
        <3>5. Position(phase[w]) \in Int /\ late[w] \in Nat
            BY DEF Position, TypeOK
        <3>6. Abs(steps'[w] + 0 - Position(phase[w])) <= 2 * late[w]
            BY <1>1, <3>2, <3>3, <3>4, <3>5 DEF Abs
        <3>7. Pending(v)' = 0
            BY <2>3, <3>1 DEF Pending
        <3> QED BY <2>1, <2>3, <3>1, <3>6, <3>7
    <2> QED BY <2>2, <2>3
<1> QED BY <1>2, <1>3, <1>4

\* The threads leave the hall side alone.
LEMMA HallUntouched ==
    ASSUME CountErrorBounded, UNCHANGED hall
    PROVE  CountErrorBounded'
BY DEF CountErrorBounded, Pending, hall, wheels

LEMMA FbMotorInitKeepsIInv ==
    ASSUME IInv, FbMotorInit
    PROVE  IInv'
<1> USE DEF IInv
<1>1. TypeOK'
    BY FeedbackAssumption DEF FbMotorInit, TypeOK, wheels, sensor, FirstThread,
       Thread, Rpm
<1>2. Scheduling' /\ SpeedsOfOnePass'
    BY FeedbackAssumption
    DEF FbMotorInit, TypeOK, Scheduling, BeforeThreads, ReadOfRunner, SensorStages,
        WholePasses, PeriodsPositive, InterruptsCounted, SpeedsOfOnePass, wheels,
        sensor, FirstThread, Thread, Rpm, Sensor
<1>3. CountErrorBounded'
    <2> SUFFICES ASSUME NEW v \in Motor, v \in counted'
                 PROVE  Abs(steps'[v] + Pending(v)' - Position(phase'[v]))
                            <= 2 * late'[v]
        BY DEF FbMotorInit, CountErrorBounded, Scheduling, BeforeThreads
    <2>1. /\ UNCHANGED <<phase, irq, late, steps>>
          /\ phase[v] \in {0, 1} /\ steps[v] = 0 /\ ~ irq[v] /\ late[v] \in Nat
        BY DEF FbMotorInit, wheels, TypeOK, Scheduling, BeforeThreads
    <2>2. Position(phase[v]) = 0 /\ Pending(v)' = 0
        BY <2>1 DEF Position, Pending
    <2> QED BY <2>1, <2>2 DEF Abs
<1> QED BY <1>1, <1>2, <1>3

LEMMA WakeKeepsIInv ==
    ASSUME IInv, NEW t \in Thread, Wake(t)
    PROVE  IInv'
<1> USE DEF IInv
<1>1. /\ todo' = [todo EXCEPT ![t] = Motor] /\ todo[t] = {}
      /\ cpu # "main" /\ cpu # t /\ cpu' = cpu
      /\ t # Rpm => since' = since
      /\ t = Rpm => \E ticks \in Nat \ {0} :
                       since' = [w \in Motor |-> since[w] + ticks]
      /\ UNCHANGED <<hall, read, timing, stage, angles, speeds>>
    BY FeedbackAssumption DEF Wake, sensor
<1>2. TypeOK'
    BY <1>1 DEF TypeOK, hall, wheels
<1>3. Scheduling' /\ SpeedsOfOnePass'
    <2>1. PeriodsPositive'
        BY <1>1 DEF TypeOK, Scheduling, PeriodsPositive, Thread
    <2>2. /\ BeforeThreads' /\ ReadOfRunner' /\ SensorStages' /\ WholePasses'
          /\ InterruptsCounted' /\ SpeedsOfOnePass'
        BY <1>1 DEF TypeOK, Scheduling, BeforeThreads, ReadOfRunner, SensorStages,
            WholePasses, InterruptsCounted, SpeedsOfOnePass, hall, wheels, Thread,
            Rpm, Sensor
    <2> QED BY <2>1, <2>2 DEF Scheduling
<1>4. CountErrorBounded'
    BY <1>1, HallUntouched
<1> QED BY <1>2, <1>3, <1>4

LEMMA DispatchKeepsIInv ==
    ASSUME IInv, NEW t \in Thread, Dispatch(t)
    PROVE  IInv'
<1> USE DEF IInv
<1>1. TypeOK'
    BY DEF Dispatch, TypeOK, hall, wheels, clocks, sensor
<1>2. Scheduling' /\ SpeedsOfOnePass'
    BY DEF Dispatch, TypeOK, Scheduling, BeforeThreads, ReadOfRunner, SensorStages,
       WholePasses, PeriodsPositive, InterruptsCounted, SpeedsOfOnePass, hall,
       wheels, clocks, sensor, Thread, Rpm, Sensor
<1>3. CountErrorBounded'
    BY HallUntouched DEF Dispatch
<1> QED BY <1>1, <1>2, <1>3

-----------------------------------------------------------------------------
(***************************************************************************)
(* The steps of a thread's loop.                                           *)
(***************************************************************************)
\* The value of a read is an integer, whichever half came first.
LEMMA ValueType ==
    ASSUME TypeOK, read # NoRead
    PROVE  read.motor \in Motor /\ read.count \in Int /\ Value \in Int
BY JoinedType DEF TypeOK, Reading, Value

LEMMA ReadCountKeepsIInv ==
    ASSUME IInv, NEW t \in Thread, NEW w \in Motor, ReadCount(t, w)
    PROVE  IInv'
<1> USE DEF IInv
<1>1. read' \in Reading /\ read'.motor = w /\ read'.first \in {"high", "low"}
    BY DEF ReadCount, Reading, TypeOK
<1>2. TypeOK'
    BY <1>1 DEF ReadCount, TypeOK, hall, wheels, clocks, sensor
<1>3. Scheduling' /\ SpeedsOfOnePass'
    BY <1>1 DEF ReadCount, Runs, TypeOK, Scheduling, BeforeThreads, ReadOfRunner,
       SensorStages, WholePasses, PeriodsPositive, InterruptsCounted,
       SpeedsOfOnePass, hall, wheels, clocks, sensor, Thread, Rpm, Sensor
<1>4. CountErrorBounded'
    BY HallUntouched DEF ReadCount
<1> QED BY <1>2, <1>3, <1>4

LEMMA RpmUpdateKeepsIInv ==
    ASSUME IInv, RpmUpdate
    PROVE  IInv'
<1> USE DEF IInv
<1> DEFINE w == read.motor
<1>1. read # NoRead /\ cpu = Rpm /\ w \in todo[Rpm]
    BY DEF RpmUpdate, Runs, NoRead, Scheduling, ReadOfRunner
<1>2. w \in Motor /\ Value \in Int
    BY <1>1, ValueType
<1>3. /\ timing' = [timing EXCEPT ![w] = Updated(w, Value)]
      /\ since' = [since EXCEPT ![w] = 0]
      /\ todo' = [todo EXCEPT ![Rpm] = @ \ {w}]
      /\ cpu' = IF todo[Rpm] = {w} THEN "idle" ELSE cpu
      /\ read' = NoRead
      /\ UNCHANGED <<hall, sensor>>
    BY DEF RpmUpdate
<1>4. Updated(w, Value) \in [step_prev : Int, step_delta : Int, time_delta : Nat]
    BY <1>2 DEF Updated, Timing, TypeOK
<1>5. TypeOK'
    BY <1>1, <1>2, <1>3, <1>4 DEF TypeOK, hall, wheels, sensor, Thread, Rpm
<1>6. since[w] > 0 /\ Updated(w, Value).time_delta = since[w]
    BY <1>1 DEF Scheduling, PeriodsPositive, Rpm, Updated, Timing
<1>7. PeriodsPositive'
    <2>1. /\ todo'[Rpm] = todo[Rpm] \ {w}
          /\ timing'[w].time_delta > 0
          /\ \A v \in Motor \ {w} : since'[v] = since[v] /\ timing'[v] = timing[v]
        BY <1>2, <1>3, <1>4, <1>6 DEF TypeOK, Thread
    <2> QED BY <1>1, <1>3, <2>1 DEF Scheduling, PeriodsPositive, TypeOK, Thread, Rpm
<1>8. /\ BeforeThreads' /\ ReadOfRunner' /\ SensorStages' /\ WholePasses'
      /\ InterruptsCounted' /\ SpeedsOfOnePass'
    BY <1>1, <1>3 DEF TypeOK, Scheduling, BeforeThreads, ReadOfRunner, SensorStages,
       WholePasses, InterruptsCounted, SpeedsOfOnePass, hall, wheels, sensor, Thread,
       Rpm, Sensor
<1>9. CountErrorBounded'
    BY <1>3, HallUntouched
<1> QED BY <1>5, <1>7, <1>8, <1>9 DEF Scheduling

LEMMA GetMotorAngleKeepsIInv ==
    ASSUME IInv, GetMotorAngle
    PROVE  IInv'
<1> USE DEF IInv
<1> DEFINE w == read.motor
<1>1. /\ cpu = Sensor /\ stage = "angle" /\ read # NoRead
      /\ angles' = [angles EXCEPT ![w] = AngleOf(Value)]
      /\ todo' = [todo EXCEPT ![Sensor] =
                    IF todo[Sensor] = {w} THEN Motor ELSE @ \ {w}]
      /\ stage' = IF todo[Sensor] = {w} THEN "speed" ELSE "angle"
      /\ read' = NoRead
      /\ UNCHANGED <<hall, cpu, clocks, speeds>>
    BY DEF GetMotorAngle, Runs
<1>2. w \in Motor /\ Value \in Int
    BY <1>1, ValueType
<1>3. AngleOf(Value) \in Int
    BY <1>2, QuotientType, AsIntType DEF AngleOf
<1>4. TypeOK'
    BY <1>1, <1>2, <1>3 DEF TypeOK, hall, wheels, clocks, Thread
<1>5. Scheduling' /\ SpeedsOfOnePass'
    BY <1>1 DEF TypeOK, Scheduling, BeforeThreads, ReadOfRunner, SensorStages,
       WholePasses, PeriodsPositive, InterruptsCounted, SpeedsOfOnePass, hall,
       wheels, clocks, Thread, Rpm, Sensor
<1>6. CountErrorBounded'
    BY <1>1, HallUntouched
<1> QED BY <1>4, <1>5, <1>6

LEMMA ReadStepDeltaKeepsIInv ==
    ASSUME IInv, NEW w \in Motor, ReadStepDelta(w)
    PROVE  IInv'
<1> USE DEF IInv
<1>1. /\ read' \in Reading /\ read'.motor = w /\ read'.first = "delta"
      /\ read'.count = timing[w].step_delta
    BY DEF ReadStepDelta, Reading, TypeOK
<1>2. TypeOK'
    BY <1>1 DEF ReadStepDelta, TypeOK, hall, wheels, clocks, sensor
<1>3. Scheduling' /\ SpeedsOfOnePass'
    BY <1>1 DEF ReadStepDelta, Runs, TypeOK, Scheduling, BeforeThreads,
       ReadOfRunner, SensorStages, WholePasses, PeriodsPositive,
       InterruptsCounted, SpeedsOfOnePass, hall, wheels, clocks, sensor, Thread,
       Rpm, Sensor
<1>4. CountErrorBounded'
    BY HallUntouched DEF ReadStepDelta
<1> QED BY <1>2, <1>3, <1>4

LEMMA GetMotorSpeedKeepsIInv ==
    ASSUME IInv, GetMotorSpeed
    PROVE  IInv'
<1> USE DEF IInv
<1> DEFINE w == read.motor
           s == Speed(read.count, timing[w].time_delta)
<1>1. /\ cpu = Sensor /\ read # NoRead /\ read.first = "delta"
      /\ speeds' = [speeds EXCEPT ![w] = s]
      /\ todo' = [todo EXCEPT ![Sensor] = @ \ {w}]
      /\ stage' = IF todo[Sensor] = {w} THEN "measure" ELSE "speed"
      /\ read' = NoRead
      /\ UNCHANGED <<hall, cpu, clocks, angles>>
    BY DEF GetMotorSpeed, Runs, NoRead
<1>2. /\ w \in todo[Sensor] /\ stage = "speed"
      /\ read.count = timing[w].step_delta
    BY <1>1 DEF Scheduling, ReadOfRunner
<1>3. w \in Motor /\ read.count \in Int
    BY <1>1, ValueType
<1>4. s \in Int
    <2>1. timing[w].time_delta \in Nat \ {0}
        BY <1>1, <1>3 DEF TypeOK, Scheduling, PeriodsPositive, Rpm, Sensor
    <2>2. Divisor(timing[w].time_delta) \in Nat \ {0} /\ read.count * 60000 \in Int
        BY <1>3, <2>1, DivisorPositive
    <2> QED BY <2>2, QuotientType, AsIntType DEF Speed
<1>5. TypeOK'
    BY <1>1, <1>3, <1>4 DEF TypeOK, hall, wheels, clocks, Thread
<1>6. \A v \in Motor \ todo'[Sensor] :
          speeds'[v] = Speed(timing[v].step_delta, timing[v].time_delta)
    BY <1>1, <1>2, <1>3 DEF TypeOK, Scheduling, SensorStages, Thread
<1>7. Scheduling'
    <2>1. SensorStages'
        BY <1>1, <1>2, <1>6 DEF SensorStages, clocks, TypeOK, Thread
    <2>2. BeforeThreads' /\ ReadOfRunner' /\ WholePasses' /\ PeriodsPositive'
          /\ InterruptsCounted'
        BY <1>1 DEF TypeOK, Scheduling, BeforeThreads, ReadOfRunner, WholePasses,
           PeriodsPositive, InterruptsCounted, hall, wheels, clocks, Thread, Rpm,
           Sensor
    <2> QED BY <2>1, <2>2 DEF Scheduling
<1>8. SpeedsOfOnePass'
    BY <1>1, <1>6, <1>7 DEF SpeedsOfOnePass, Scheduling, SensorStages, WholePasses,
       clocks, Rpm, Sensor
<1>9. CountErrorBounded'
    BY <1>1, HallUntouched
<1> QED BY <1>5, <1>7, <1>8, <1>9

LEMMA MeasureKeepsIInv ==
    ASSUME IInv, Measure
    PROVE  IInv'
<1> USE DEF IInv
<1>1. TypeOK'
    BY DEF Measure, TypeOK, hall, wheels, clocks
<1>2. Scheduling' /\ SpeedsOfOnePass'
    BY DEF Measure, Runs, TypeOK, Scheduling, BeforeThreads, ReadOfRunner,
       SensorStages, WholePasses, PeriodsPositive, InterruptsCounted,
       SpeedsOfOnePass, hall, wheels, clocks, Thread, Rpm, Sensor
<1>3. CountErrorBounded'
    BY HallUntouched DEF Measure
<1> QED BY <1>1, <1>2, <1>3

-----------------------------------------------------------------------------
\* Every step keeps the invariant.
LEMMA NextIInv == IInv /\ [Next]_vars => IInv'
<1> SUFFICES ASSUME IInv, [Next]_vars PROVE IInv'
    OBVIOUS
<1>1. CASE FbMotorInit
    BY <1>1, FbMotorInitKeepsIInv
<1>2. CASE \E w \in Motor : HallIsr(w)
    BY <1>2, HallIsrKeepsIInv
<1>3. CASE \E w \in Motor : \E p \in {phase[w] - 1, phase[w] + 1} : Turn(w, p)
    BY <1>3, TurnKeepsIInv
<1>4. CASE \E t \in Thread : Wake(t) \/ Dispatch(t)
    BY <1>4, WakeKeepsIInv, DispatchKeepsIInv
<1>5. CASE \E t \in Thread : Step(t)
    BY <1>5, ReadCountKeepsIInv, RpmUpdateKeepsIInv, GetMotorAngleKeepsIInv,
       ReadStepDeltaKeepsIInv, GetMotorSpeedKeepsIInv, MeasureKeepsIInv DEF Step
<1>6. CASE UNCHANGED vars
    BY <1>6 DEF vars, IInv, TypeOK, Scheduling, BeforeThreads, ReadOfRunner,
       SensorStages, WholePasses, PeriodsPositive, InterruptsCounted,
       SpeedsOfOnePass, CountErrorBounded, Pending
<1> QED BY <1>1, <1>2, <1>3, <1>4, <1>5, <1>6 DEF Next

\* The invariant always holds.
LEMMA Invariance == Spec => []IInv
<1> QED BY InitIInv, NextIInv, PTL DEF Spec

\* TypeCorrect: counts, periods, angles and speeds are numbers, whatever the
\* order of interrupts and threads.
THEOREM TypeCorrect == Spec => []TypeOK
<1>1. IInv => TypeOK
    BY DEF IInv
<1> QED BY <1>1, Invariance, PTL

\* CountErrorAlwaysBounded: hall_isr is exact as long as it is in time, for
\* any number of wheels that turn however they like.
THEOREM CountErrorAlwaysBounded == Spec => []CountErrorBounded
<1>1. IInv => CountErrorBounded
    BY DEF IInv
<1> QED BY <1>1, Invariance, PTL

\* NeverDividesByZero: fb_get_motor_speed always has a period to divide by,
\* for every start and every sleep of at least one tick.
THEOREM NeverDividesByZero == Spec => []NoZeroDivision
<1>1. IInv => NoZeroDivision
    <2> SUFFICES ASSUME IInv, cpu = Sensor, NEW w \in Motor
                 PROVE  Divisor(timing[w].time_delta) # 0
        BY DEF NoZeroDivision
    <2>1. timing[w].time_delta \in Nat \ {0}
        BY DEF IInv, TypeOK, Scheduling, PeriodsPositive, Rpm, Sensor
    <2> QED BY <2>1, DivisorPositive
<1> QED BY <1>1, Invariance, PTL

\* SpeedsAreOfOnePass: equal priorities alone keep the passes of the two
\* threads apart, for any number of wheels.
THEOREM SpeedsAreOfOnePass == Spec => []SpeedsOfOnePass
<1>1. IInv => SpeedsOfOnePass
    BY DEF IInv
<1> QED BY <1>1, Invariance, PTL

\* TornReadsCrossWords: for every word size, a torn read needs a count that
\* passes a word boundary while it is read.
THEOREM TornReadsCrossWords == Spec => TornOnlyAcrossWords
<1> DEFINE Torn(w) ==
              timing'[w].step_prev # timing[w].step_prev =>
                 \/ timing'[w].step_prev \in {read.count, steps[w]}
                 \/ read.count \div Word # steps[w] \div Word
<1>1. TypeOK /\ [Next]_vars => [\A w \in Motor : Torn(w)]_vars
    <2> SUFFICES ASSUME TypeOK, Next, NEW w \in Motor, timing'[w] # timing[w]
                 PROVE  Torn(w)
        BY DEF vars
    <2>1. RpmUpdate
        <3>1. timing' # timing
            OBVIOUS
        <3> QED BY <3>1 DEF Next, Step, FbMotorInit, HallIsr, Turn, Wake, Dispatch,
               ReadCount, GetMotorAngle, ReadStepDelta, GetMotorSpeed, Measure,
               clocks
    <2>2. read # NoRead /\ timing' = [timing EXCEPT ![read.motor] =
                                        Updated(read.motor, Value)]
        BY <2>1 DEF RpmUpdate, NoRead
    <2>3. w = read.motor /\ timing'[w].step_prev = Value
        BY <2>2 DEF TypeOK, Updated, Timing
    <2>4. read.count \in Int /\ steps[w] \in Int
        BY <2>2, ValueType DEF TypeOK
    <2>5. read.count \div Word = steps[w] \div Word =>
              Value \in {read.count, steps[w]}
        BY <2>3, <2>4, JoinedIsACount DEF Value
    <2> QED BY <2>3, <2>5
<1> QED BY <1>1, TypeCorrect, PTL DEF Spec, TornOnlyAcrossWords
=============================================================================
