# Verification of the robot buggy's software

This directory holds TLA+ models of the programs in this repository, the TLC
configurations that check them on small instances, and theorems about them
whose proofs TLAPS checks for every value of the constants. Paths in this
document are relative to `src/`.

- [1. The system](#1-the-system)
- [2. Modules](#2-modules)
- [3. What the runs check](#3-what-the-runs-check)
- [4. Fairness and deadlock](#4-fairness-and-deadlock)
- [5. What is proved](#5-what-is-proved)
- [6. Abstractions](#6-abstractions)
- [7. Where the code and its documents disagree](#7-where-the-code-and-its-documents-disagree)
- [8. What is not modelled](#8-what-is-not-modelled)
- [9. Plan](#9-plan)

## 1. The system

A mecanum-wheel robot is driven from a desktop application. Commands travel
from left to right, telemetry from right to left:

    control-interface.py --MQTT--> pi_controller.py --UART--> ble_gateway --BLE--> freebot
    sensor dashboard     <--MQTT--                  <--UART--             <--BLE--

Nothing on this path acknowledges end to end. Each hop has its own queue, its
own idea of a message boundary and its own way of losing something.

### Inventory

**Robot, command path** (`freebot/src/my_nus_stuff.c:94-140, 496-572`).
*State:* `fifo_rx_data`, the heap blocks of its frames, the levels of the eight
motor pins. *Operations:* `bt_receive_cb` (Bluetooth receive thread) cuts a
write into packets and queues them; `read_thread` takes one, `processCommand`
checks it and calls one of ten moves of `fb_motor.c`, the block is freed, the
thread sleeps `CMD_RUN_DELAY` and calls `fb_stop`. *Hard:* the callback preempts
the thread anywhere; allocation fails in the middle of a write; a motor's two
pins are written one after the other. *Correct when:* no block is lost, no two
pins of a motor are high together, a move ends before the next one begins, the
wheels turn as the command says, every queued command is run.

**Robot, telemetry** (`freebot/src/my_nus_stuff.c:142-195, 249-493`).
*State:* the ring `readings` with `reading_pos` and `readings_filled`, the
semaphores `sem_reading` and `ble_init_ok`. *Operations:* `sensor_read_thread`
stores a reading every 200 ms; `ble_write_thread` averages the ring, field by
field, and sends a frame every second; `my_nus_main` enables Bluetooth and gives
the semaphores. *Hard:* three threads that start before main; a ring that is
filling up and a full one are indexed differently; `bt_enable` and `bt_nus_send`
fail. *Correct when:* a frame is the average of one window, nothing is sent
before Bluetooth is enabled, no failure starves the other thread.

**Robot, motor feedback** (`freebot/lib/freebot/src/fb_motor.c:141-303`). *State:*
four 64-bit step counters, speeds, the time of the last computation. *Operations:*
hall interrupts, `motor_rpm_thread`, `fb_get_motor_angle`, `fb_get_motor_speed`.
*Hard:* 64-bit counters shared with interrupts of a 32-bit core; interrupts that
come late; records that one thread writes and another one reads without a lock;
a division by an interval that is zero before the first pass. *Correct when:* a
count is off only by what its interrupts were late, a torn read only happens
where a count crosses a word, the speeds of a reading belong together, nothing is
divided by zero, and a robot that stands is seen to stand.

**Robot, power, LEDs, button, LED button service, UART adapter**
(`fb_pwr.c`, `fb_io.c`, `bt_lbs.c`, `uart_async_adapter.c`): hardware access, or
code that is never called or built. See section 8.

**Gateway, main loop and NUS client** (`ble_gateway/src/main.c:39-83, 591-683`).
*State:* `fifo_uart_rx_data`, the buffer, index and attempt count of the loop,
`nus_write_sem`. *Operations:* take a buffer, write each command in it to the
robot, wait for the answer for at most `NUS_WRITE_TIMEOUT`, at most three
attempts per buffer; `ble_data_sent` gives the semaphore. *Hard:* an answer that
comes after its timeout, a link that breaks under a write, a buffer that is
recycled without being cleared. *Correct when:* no command is skipped, order is
kept, duplicates are bounded, the loop always gets on.

**Gateway, UART** (`ble_gateway/src/main.c:85-311`). *State:* the driver's two
receive buffers, `disable_req`, the work item, `fifo_uart_tx_data`, the heap it
shares with the main loop. *Operations:* `uart_cb` with its events,
`uart_work_handler`, `ble_data_received`. *Hard:* interrupt, work queue,
Bluetooth thread and main thread share the blocks; the heap runs out; a
transmission ends between `uart_tx`'s refusal and `k_fifo_put`. *Correct when:*
every block has one owner, the receiver comes back, what it heard arrives in
order, a frame is overtaken by one later frame at most.

**Gateway, link** (`ble_gateway/src/main.c:313-503, 591-641`). *State:*
`default_conn` and its reference, `nus_client`'s handles, the scan.
*Operations:* the callbacks of scanning, connection, security and discovery.
*Hard:* each is called on its own, and the calls they make may fail.
*Correct when:* one reference per connection, never idle without a failure,
notifications only through handles of this robot, every link gets used.

**Raspberry Pi, telemetry thread** (`internet_gateway/pi_controller.py:62-151`).
*State:* the serial input, the message, `setup`, `previous_charge`.
*Operations:* `read_UART`, `parse_decoded_uart_data`, `get_alarm_state`,
`create_sense_message`, publish. *Hard:* message boundaries guessed from a
0.2 s sleep; binary fields split at commas. *Correct when:* what is published
was sent, in order; a charge a tenth below all before never goes without an alarm.

**Raspberry Pi, command thread** (`internet_gateway/pi_controller.py:18-59`).
*State:* connection, subscription, messages waiting in the socket.
*Operations:* subscribe, `on_mqtt_message`, `write_UART`, `on_connect`.
*Hard:* a callback that sleeps a second; reconnections; an exception ends the
thread. *Correct when:* commands are written once, in order, and none that the
broker passed on is lost; a connected client is subscribed.

**Server** (`server/control-interface.py`, `internet_gateway/Alarm_Server.py`).
Stateless: a constant command per button, a printed line per alarm.

The places where this code is hard to test are listed one by one, with their
lines and the properties that guard them, under `hazards` in `PROJECT.json`.

## 2. Modules

| Module | Models | Relation to others |
|---|---|---|
| `RobotCommands` | the frames `processCommand` accepts, the ten moves, and an independent kinematic reference for them | used by the next two |
| `Drive` | what the robot promises its driver: a queue served in order, from standstill | abstract specification |
| `RobotDrive` | the command path of the robot, pin by pin | implements `Drive` |
| `ReadingAverage` | one field of a frame: absolute values, integer division, 16 bits | used by the next two |
| `ReadingWindow` | what the telemetry promises: a frame is the average of one window | abstract specification |
| `RobotTelemetry` | ring, semaphores and the three threads | implements `ReadingWindow` |
| `CommandUplink` | the gateway's main loop, the write in flight, the recycled buffers | |
| `GatewayUart` | `uart_cb`, `uart_work_handler`, `ble_data_received` and the shared heap | sees the main loop as get and free only |
| `GatewayLink` | start of main, scan, connection, security, discovery | |
| `PiTelemetry` | the Raspberry Pi's telemetry thread, byte by byte | takes the frames `ble_data_received` forwards |
| `PiCommands` | the Raspberry Pi's command thread | |
| `MotorFeedback` | `fb_motor_init`, the hall interrupts, `motor_rpm_thread` and what `sensor_read_thread` reads of them | its speeds and angles are what `RobotTelemetry` takes as readings |
| `RemoteControl` | what the whole system promises the person at the buttons: moves in order, as pressed, at most twice for a press | abstract specification |
| `CommandPath` | the whole way of a command, from the broker to the wheels | composes `PiCommands` (`INSTANCE`), `CommandUplink` (`EXTENDS`) and the promise `Drive` (`INSTANCE`); implements `RemoteControl` |
| `MC...` | the values TLC uses for constants a configuration cannot write | |
| `..._proofs` | theorems about the module of that name | |

Variables and actions carry the names of the source where there is one; an
action is one operation, split exactly where another thread, interrupt or
callback can come in between. The correspondence of each definition to source
lines is the `map` in `PROJECT.json`. Definitions whose comment begins with
"Mutant" are changed copies of the definition after them: plausible bugs that
the property named in `PROJECT.json` must detect. No specification uses them.

How the state corresponds:

- `RobotDrive`: `pc`, `buf`, `move` and `m` are `read_thread` and the move it is
  writing, one pin per step (`drive_a`/`drive_b`, `stop_a`/`stop_b`). `free` counts
  the blocks `k_malloc` can still return. `BtReceive(w)` is one whole call of
  `bt_receive_cb`, which runs in a cooperative thread and so is not interrupted
  by `read_thread`.
- `RobotTelemetry`: `pc_s`, `pc_w` and `pc_m` are the three threads;
  `writeToCycReadingsBuf` is five steps, and each field of a frame is one.
- `CommandUplink`: `Input` are the bursts that find a receiver, each the sequence
  of its commands, numbered in the order of arrival. `receiving` says that the UART
  has a buffer, `rx` what that buffer held before; `UartPut` is the whole round of
  `uart_cb` that puts the buffer into the fifo and allocates the next one, which may
  fail, and `UartWork` tries again. With `MayCut` a burst may end in the middle of a
  command. `i`, `tries` and `k` are the
  loop's; `pending` is the write the NUS client has in flight. A command read
  from the uncleared rest of a recycled buffer is the negative of its number:
  the loop cannot tell the difference, the properties can.
- `GatewayUart`: bursts and notifications are numbers; `cur` and `spare` are the
  driver's buffers; `ble` is where `ble_data_received` is between its three calls.
- `GatewayLink`: `peer` and `connection` are the stack's, `default_conn`, `refs`,
  `handles` are main.c's. `idle_for` and `deaf_for` record which failed call
  explains a gateway that does nothing; no action reads them.
- `PiTelemetry`: `wire` is the serial port's input buffer; `received_data` the bytes
  `read_UART` holds. `charges` and `alarms` are history variables.
- `PiCommands`: `inbox` is what the broker has passed on and the thread has not read.
- `MotorFeedback`: `phase` is where a wheel is in the cycle of its encoder, `irq` an
  edge whose handler has not run. `cpu` says who runs: the threads have one
  priority and the kernel does not slice time between them, so one runs until it
  sleeps, and only interrupts come in between. `todo` are the wheels a loop has
  left, `read` the first of two reads that belong together: the words of a counter,
  or the steps and the time of a period. `late` is a history variable.
- `CommandPath`: the actions of its parts, joined where they meet: what
  `write_UART` has written is what comes over the UART, into a buffer (`PathUartPut`)
  or nowhere while the receiver is off (`PathUartLost`); what `RobotReceives` takes off
  the link is what `Drive` accepts (`Deliver`), or what the robot acknowledges and has no
  memory for (`DeliverDropped`). `passed` counts the writes that have come over,
  `heard` are those that were received. `waiting` and `motion` are the robot's, `moves`
  the commands it has served.

## 3. What the runs check

Twelve runs; the state counts are TLC's distinct states.

| Run | Instance | States | Question |
|---|---|---|---|
| `robot_drive` | 15 different writes, blocks of 5 bytes, 3 blocks | 327,541 | heap, pins, wheels, refinement of `Drive`, every command is run |
| `robot_telemetry` | ring of 3, three readings | 170,380 | one window per frame, averages in range, order of start-up, refinement of `ReadingWindow`, no starvation |
| `robot_telemetry_adc` | same | – | violated: only measurements are averaged |
| `command_uplink` | bursts of 4 and 1 commands, cut or not, 3 attempts | 1,234,216 | what the robot gets under every fault; the loop gets on; without faults everything within the budget arrives |
| `command_uplink_stale` | bursts of 4, 1 and 1 commands, memory that only the loop itself has used | – | violated: only what arrived is sent |
| `gateway_uart` | 4 blocks, 3 bursts, 5 notifications | 100,864 | ownership of blocks, the flags, order, the race of `uart_tx` |
| `gateway_link` | 3 robots | 123 | references, idleness, handles, use of a link |
| `pi_telemetry` | 5 different frames, 3 sent | 2,394,196 | what is published, that drops are alarmed |
| `pi_telemetry_bytes` | two real frames | – | violated: a whole frame can be decoded |
| `pi_commands_resubscribe` | 4 commands, 2 losses of the broker | – | violated: a connected client is subscribed |
| `command_path` | 2 commands, 1 loss of the broker, 3 attempts, 2 blocks on the robot | 242,154 | what the person at the buttons may rely on: refinement of `RemoteControl`, and that a press moves the robot |
| `motor_feedback` | 2 wheels, words of 4, ints of 16 values, 3 quarter cycles | 2,002,572 | counts, speeds and angles under every order of threads and interrupts |

### Properties

`TypeOK` is a module's type invariant; in `RobotTelemetry` it contains
the reason why the "something went wrong" branch of `serialize_reading` is never
taken, in `GatewayUart` that the heap never goes below zero, in `MotorFeedback`
that a period is never negative.

`robot_drive`: `HeapAccounted` (a block is free, queued or held: no early return
leaks one), `NoShootThrough`, `MotionMatchesHeading` (against the direction
diagram of `fb_motor.h`, read as mecanum kinematics and not as a copy of the
table), `ImplementsDrive`, `CommandsAreRun`.

`robot_telemetry`: `FrameWithinReadings` (each field lies between the smallest and
the largest magnitude in the window), `ImplementsReadingWindow` (all fields of a
frame come from one window, and none is sent before `bt_enable` has succeeded),
`SamplingNeverStops` (also when `bt_enable` fails and the other thread waits for
ever), `TelemetryFlows`.

`command_uplink`: `PassedWereHanded` (a late token never makes the loop skip a
command that the NUS client has not taken), `InOrder`, `AtMostTwice` (retries
duplicate a command, but a third copy would need a fourth attempt),
`BuffersReleased`, `FaultFreeRelay`: the first three commands of each buffer
arrive, because the code counts its attempts per buffer and not per command. What it
says of the fourth is what the code does: it describes that loss and cannot object to it.

`gateway_uart`: `BlocksAccounted`, `OneRestart` (no event meets the flag of an
earlier round, no retry meets a receiver that is on), `HeardInOrder` (what the main
loop has taken, the buffers in the fifo and the one being filled are one line of
bursts, in order, each once, and nothing that was heard is missing from it),
`OvertakenOnce` (the race leaves a frame in the fifo, and it is overtaken once at
most), `HeardReachesLoop`, `ReceiverRestarts`.

`gateway_link`: `OneReference`, `IdleOnlyAfterFailure`, `TelemetryNeedsHandles`,
`LinkIsUsed`.

`pi_telemetry`: `PublishedWereSent` (although `read_UART` may start anywhere in a
frame and take fourteen bytes that belong to two of them), `DropIsAlarmed`
(when the charge has dropped by a tenth below all it was up to some reading, an alarm
was raised after that reading, however slow the fall; that the alarm is raised at much
smaller drops, too, is number 5 of section 7).

`command_path`: `WrittenInOrder` (the Raspberry Pi's part), `ImplementsRemoteControl`
(whatever is lost, late, repeated or recycled on the way, the robot only moves for a
button that was pressed, in its direction, from standstill, in the order of the
buttons and at most twice for each; `MovesAsPressed` is what that says of the moves
alone), `PressMovesRobot` (a command that
the broker has passed on moves the robot, unless the broker is lost, the thread
has ended, a burst found the gateway's receiver off, a write failed, or the robot had no
memory for one it acknowledged).

`motor_feedback`: `CountErrorBounded` (a counter is off by at most two steps for
each quarter cycle its interrupt was late), `NoZeroDivision` (only the order in
which the linker sorts the threads ensures it), `SpeedsOfOnePass`,
`TornOnlyAcrossWords`, `StandstillIsMeasured` (a torn count does no lasting harm).

### Bounds, and why they are enough

- `robot_drive`. Three blocks let a frame be held while two wait, so a write of
  two chunks meets a heap with room for two, one and none. `ChunkMax = 5` (39 in
  the build) is the length of a command, so the two commands joined in one write
  and the one with a carriage return are cut in two; every letter, and one frame
  for each check that rejects, occurs.
- `robot_telemetry`. A ring of three (five in the build) is the smallest one with
  a first, a middle and a last slot; it fills and wraps. The readings include
  negative speeds and the ADC's error code. The counts are not bounded: the state
  space is finite as it is.
- `command_uplink`. The first burst has more commands than attempts, the second
  follows while answers to the first are still due. Each may be received whole or
  cut in any of its commands, into memory without a `<`, with a command of the time
  before a reset, or freed by the loop; after each the receiver may be off for any
  time. A fault may come at every step. `command_uplink_stale` has a third burst, which
  meets the block of the first also when no allocation fails.
- `gateway_uart`. Four blocks: two for the receiver, and two that the main loop and
  the transmitter compete for, so every allocation also fails. `MaxChunks = 3` is
  a burst, one after it while the receiver stops, and one for the next round;
  `MaxFrames = 5` lets a frame be stranded, overtaken, fetched, and another one
  stranded after it. Bounds of the environment only.
- `gateway_link` is finite without bounds; three robots are one more than a change
  from one robot to another needs.
- `pi_telemetry`. Three frames: one cut at its beginning, one whole, one cut at its
  end. The values include bytes that are commas, a field that is two commas, and
  a byte that is no ASCII, and the charges fall, rise and fall, by more and by less
  than a tenth.
- `pi_commands_resubscribe`. `MaxCommands` and `MaxLosses` bound the environment.
- `command_path`. Two commands and one loss are enough for one to be repeated while
  the next is on its way, and for a command to be lost with the connection. With
  `Capacity = 2` a copy that waits and the frame being served fill the robot's heap, so
  a write may be acknowledged and dropped. A write is one burst that the receiver does
  not time out in (`MayCut = FALSE`): three bytes, and the Raspberry Pi sleeps a second
  after them; cut bursts are `command_uplink`'s concern.
- `motor_feedback`. Two wheels, because a torn read or an interleaving of the two
  loops concerns a wheel done and a wheel to do. `Word = 4` (2^32 in the build) has
  a boundary within reach, the one between -1 and 0. `IntRange = 16`
  (2^32) holds the speed of every step difference that occurs, but not that of a count
  read torn across the word. Three quarter cycles make an edge, a late handler and an
  edge back; `SleepTicks` is 20 ms at 32,768 Hz,
  `BootTicks` one tick, the smallest divisor.

`robot_drive`, `robot_telemetry` and `motor_feedback` check for deadlock: the
robot's threads never stop. The runs with a bounded environment (`command_uplink*`,
`gateway_uart`, `pi_telemetry*`, `pi_commands_resubscribe`, `command_path`) say
`CHECK_DEADLOCK FALSE` because their models stop when the input is used up; so does
`gateway_link`, where main may return after a failed initialisation and where
an idle gateway really stops.

## 4. Fairness and deadlock

| Assumption | Why the code justifies it |
|---|---|
| `WF(ReadThread)` | the thread waits for a frame or a timer, and every thread of its priority sleeps in its loop |
| `WF(Main)`, `WF(SensorThread)`, `WF(WriteThread)` | the same; `bt_enable` may still fail |
| `SF(SensorTake)`, `SF(SerializeTake)` | the two threads compete for `sem_reading`, and `k_sem_give` hands the semaphore to the thread that has waited longest, so neither can be passed over for ever |
| `WF(MainLoop)`, `WF(UartPut)`, `WF(UartWork)`, `WF(Radio)` | the loop's waits have timeouts; the UART delivers what it has; a receiver without memory tries again every 50 ms, and finds some because the loop frees every buffer it takes (`BuffersReleased`; `ReceiverRestarts` of `GatewayUart` has the allocation itself); a link that stays up carries a write and its answer. Nothing keeps the link up |
| `WF` of `RxBufReleased`, `RxDisabled`, `TxDone`, `UartWork` | the driver raises the event of what it was told to do; the work item reschedules itself every 50 ms |
| `WF(MainGet \/ MainFree)`, `WF(UartTx \/ TxPut)` | threads run; that the loop always comes to `k_free` is `BuffersReleased` of `CommandUplink` |
| `WF(Stack)`, `WF(SecurityChanged)`, `WF(Discovery)` | the stack ends an attempt, a request and a discovery in one way or another |
| `WF(FbMotorInit)`, `WF(HallIsr)`, `WF(Step)`, `WF(Wake)` | main runs first; interrupts are served, the running thread goes on, sleeps end |
| `SF(Dispatch)` | the queue of ready threads of one priority is first come, first served |
| `WF` of `P!mqtt_subscribe`, `PathUartPut \/ PathUartLost`, `PathUartWork`, `Gateway`, `Deliver \/ DeliverDropped \/ Answer`, `Serve \/ Finish` | each part of `CommandPath` runs as its own module says |

No fairness makes anyone press a button, send a notification, stay in reach,
or makes a call succeed.

## 5. What is proved

TLAPS checks, for every value of the constants, in modules of their own:

| Theorem | Statement |
|---|---|
| `RobotDrive_proofs!TypeCorrect`, `HeapCorrect` | `TypeOK`; `HeapAccounted` |
| `RobotDrive_proofs!NeverShootThrough`, `MotionCorrect` | `NoShootThrough`; `MotionMatchesHeading` |
| `RobotDrive_proofs!DriveRefinement` | `Spec => ImplementsDrive` |
| `RobotTelemetry_proofs!TypeCorrect` | types, with the bounds of the ring |
| `RobotTelemetry_proofs!WindowRefinement` | `Spec => ImplementsReadingWindow` |
| `RobotTelemetry_proofs!FramesCut` | every field is what 16 bits keep of a value between the smallest and the largest magnitude in the window, as long as the sum over a ring fits an `int` (`SumsFit`) |
| `RobotTelemetry_proofs!FrameBetween` | `FrameWithinReadings`, for readings that also fit 16 bits |
| `CommandUplink_proofs!TypeCorrect`, `NoneSkipped` | types; `PassedWereHanded` |
| `CommandUplink_proofs!SentInOrder`, `SentAtMostTwice` | `InOrder`; `AtMostTwice`, for up to three attempts |
| `CommandUplink_proofs!WritesBounded` | the robot gets at most `MaxTries` writes for each buffer that has arrived |
| `GatewayUart_proofs!TypeCorrect`, `NoBlockLost`, `RestartOnce`, `FramesInOrder` | types; `BlocksAccounted`, `OneRestart`, `OvertakenOnce` |
| `GatewayUart_proofs!HeardStaysInOrder` | `HeardInOrder` |
| `GatewayLink_proofs!TypeCorrect`, `LinkReferences`, `NeverIdleUnnoticed`, `HandlesOfPeer` | types; `OneReference`, `IdleOnlyAfterFailure`, `TelemetryNeedsHandles` |
| `MotorFeedback_proofs!TypeCorrect`, `CountErrorAlwaysBounded`, `NeverDividesByZero`, `SpeedsAreOfOnePass` | types; `CountErrorBounded`, `NoZeroDivision`, `SpeedsOfOnePass` |
| `MotorFeedback_proofs!TornReadsCrossWords` | `Spec => TornOnlyAcrossWords` |
| `PiTelemetry_proofs!PublishedSent`, `DropsAlarmed` | `PublishedWereSent`; `DropIsAlarmed` |
| `CommandPath_proofs!UartInOrder`, `MovesInOrder` | `WrittenInOrder`; `MovesAsPressed`, for up to three attempts |
| `CommandPath_proofs!RemoteControlled` | `PathSpec => ImplementsRemoteControl`, for up to three attempts |
| `CommandPath_proofs!NoOldCommands` | no command is sent from the remains of a recycled buffer |

**Assumptions.** Only the named `ASSUME`s of the models: `DriveAssumption` (writes are
byte strings, blocks have room for a byte), `TelemetryAssumption` (a ring of at
least one slot whose initial contents is a reading), `ReadingsAssumption` (the fields
of a reading are integers), `IntAssumption` (an `int` has values), `UplinkAssumption`
(commands are positive numbers, memory holds something but no command of this run, at
least one attempt),
`NumberAssumption` (commands are numbered in the order of arrival),
`UartAssumption` (the heap has a block, the bounds are natural), `LinkAssumption`,
`FeedbackAssumption` (the threads start at least one tick after the clock, and 20 ms
are at least one tick), `PiTelemetryAssumption` (the fields of a frame are 16-bit
words), `PathAssumption` (one write is one burst, which the receiver does not cut, and
behind its first command the gateway's memory holds none; the robot's heap may have any
size).
`SentAtMostTwice`, `MovesInOrder` and `RemoteControlled` also assume `MaxTries <= 3`,
which the code has: with four attempts a command may arrive three times.
`FrameBetween` assumes `Fits`, that the magnitude of a field is below 65536, as that
of a voltage in mV and of a speed measured without a torn read is, and `SumsFit`, that
the sum over a full ring fits an `int`; in the build, with five readings and 32 bits,
`Fits` implies `SumsFit`. Of readings that fit the sum and not the field, `FramesCut`
says what the frame holds; of a sum that wraps around, neither says anything.

**RobotDrive.** `IInv` joins types and heap accounting with `PinsFollowMove`, which
says for every point of the two write loops what all eight pins are: those of the
motors already reached follow the new move, the others the old one. It is needed
because `NoShootThrough` is not inductive: that both pins of a motor are never high
depends on where a move starts from, which is what the `fb_stop` at the end of the
previous round has left. `MovesAreMecanum` proves the table of moves against the
kinematic reference. For the refinement, a frame counts as queued until its last
pin is written, and `BtReceive` maps to `Accept`, the last pin to `Serve`, the end of
the sleep to `Finish`; every other step is a stutter.

**RobotTelemetry.** `IInv` adds to the types who holds each semaphore (`ReadingLock`,
`BleLock`: the unit is in the count, with one thread, or not given yet), where
`reading_pos` is while the ring fills up, and that the fields serialized so far
are those of the window as it is. `WindowForm` and `StoreSlides` are the arithmetic
of the ring: storing, advancing and counting slide the window by one reading.

For the average, `total_value` is a recursive function over the window. `TotalExists`
shows that the recursion has a solution, by the shortest beginning of the window
without one: the least element of a set of numbers (`LeastNatural`, from the library's
theorem on well-founded orders) stands for an induction over the window. In the
same way `TotalBounds` keeps the sum between n times the smallest and n times the
largest magnitude, and the division brings it back between the two. `FrameCut` is the
invariant: it holds of the fields serialized so far, because they are those of the
window as it is, and of the frame when the last field joins it.

**CommandUplink.** `IInv` is types, `OnCommand` (where the index stands at each point
of the loop; the flag `k` is only set for a command that was handed over) and
`PassedWereHanded`. Order and copies are not inductive over what the robot has
got, because a write may still be on its way: `OInv` is about the `Line`, what the
robot got and after it the write in flight. Only an accepted write makes the line
grow, and only by the command the index is on, which is the newest of the line
(`LineIsPast`). `AttemptsSpent` is the account behind `AtMostTwice`: what is in the
line, in flight or answered has cost an attempt, and a late token is taken by the
next accepted write at once. `LineFits` is a coarser account that needs no limit on the
attempts and counts remains as well: the line is never longer than what the loop
has spent, `MaxTries` for each finished buffer and `tries` for the present one.

**GatewayUart.** `IInv` splits the types by what a step touches, adds which buffers the
driver has in which state (`Reception`) and the properties. Two account lemmas
(`ReceivingKeepsBlocks`, `SendingKeepsBlocks`) reduce `BlocksAccounted` to a sum
on one side of the heap. For the order of frames the line is what was transmitted
and what waits; a refused frame joins its end, a frame that is taken at once
is put in front of what waits, and `OneStranded` says that this is one frame at
most, which nothing has overtaken yet. For the order of bursts the invariant is about
`Parts`, what the main loop has taken and then the data of each buffer behind it: a
burst joins the last part, a buffer put into the fifo changes owner but not place,
and taking one merges the first two parts (`MergeFirst`). Nothing in that needs the
contents of the fifo as one sequence.

**GatewayLink.** `IInv` is types, the shape of a link, and the three properties;
`ReleaseEndsLink` is shared by the two callbacks that give the connection up.

**MotorFeedback.** `IInv` adds to the types what scheduling ensures: nothing has run
before `fb_motor_init` returns, a pair of reads belongs to the running thread
(`ReadOfRunner`), `motor_rpm_thread` is only ever left with all or none of its
wheels (`WholePasses`), and a period is positive once it was measured
(`PeriodsPositive`). `NoZeroDivision` follows from the last one and the arithmetic of
`Divisor`.

**PiTelemetry.** The bytes on the serial line are those of the sent frames, at
positions of one stream: what has not arrived, what is in the input buffer and
what the thread holds are three pieces of it (`LineInv`, `ReadInv`). The fourteen
bytes that `read_UART` takes may begin in one frame and end in the next;
`ParsedWasSent` proves, whatever bytes the fields contain, that the parser takes
them only if they are one whole frame.

**CommandPath.** `UplinkStep`: a step of the path is one of `CommandUplink` or leaves it
alone, so `IInv` and `OInv` carry over without a second proof. `PiInOrder` is the
order through inbox, message and UART, `HeardInOrder` that what the gateway heard are
some of the writes, in order. `RobotInv` embeds the robot's moves, and then what waits
there, at increasing places of what the gateway has sent to it; at the other places is
what was no command or found no memory, and no room is assumed anywhere. Order then
composes: a move's command is the number of a burst, and bursts are numbered as the
Raspberry Pi's writes were heard. For `RemoteControlled` the presses are
`PublishCommand`, a move for a press is the service of a frame that is a command, and
everything else is a stop or a stutter; `ServeMoves` takes the guards of the abstract
move from `MovesAsPressed` in the next state, and its direction from `MotionOfFrames`.

`FrameOf` makes no command of a remainder; `NoOldCommands` proves that there is none on
this path, because each write of the Raspberry Pi is one command, which covers the one
its block held before: behind it there is at most the command 0 of section 6. The
disagreement 2 of section 7 needs buffers of several commands.

**Only model-checked.** All liveness: fairness and `ENABLED` are out of the prover's
reach. Every invariant, action property and refinement of the runs that pass is
also proved.

## 6. Abstractions

- *Bytes.* On the robot a frame is a string of byte classes: the ten letters, the
  brackets, the digits of the header, and one each of "another letter", NUL, CR
  and LF. In `CommandUplink` a command is a number. In `PiTelemetry` bytes are
  numbers 0..255, because there the properties are about them.
- *UTF-8.* A frame with a byte from 128 on is never published: either `decode`
  raises or a multi-byte character leaves a part of the wrong length. The model
  has one condition, `Decodable`, for both.
- *Telemetry frames* are 16 bytes, the only length the robot sends; without the
  two bytes of their header they fit one block of the gateway.
- *Angles* are in `MotorFeedback`; they are stored, but not transmitted, and
  `RobotTelemetry` leaves them out.
- *Motor feedback.* Counts are unbounded integers read in two words; the clock's
  conversion to milliseconds is the build's, at 32,768 Hz.
- *UART bursts.* `CommandUplink` numbers the bursts that find a receiver; those that
  find none are lost without a number, in `UartLost`. A burst cut by the 50 us receive
  timeout leaves the beginning of a command, which is completed by what the buffer held
  before: an old command or none (`Completed`). Its rest arrives in a buffer that does
  not begin with `<`, which the loop frees unread, and is left out. `GatewayUart` has the
  receiver's events one by one, and bursts without contents.
- *Heap.* Blocks are counted, not placed; only `CommandUplink` tracks what a block
  still holds, and only of the blocks that the code does not clear: the one of
  `uart_init`, those of `UART_RX_DISABLED` and of `uart_work_handler`. `Recycled` is what
  they hold from other uses, the time before a reset included, and each of them may be
  any of these or a buffer the loop has freed. A byte of telemetry that reads as `<` is
  the command 0, which no robot knows; commands of another time are negative.
- *Driver and stack* are external: `UART_TX_ABORTED` never happens because nothing
  aborts a transmission; a connection is secured, or refused, once; a broken
  link ends the write in flight with an error, as the stack does.
- *Integers.* `total_value` of `serialize_reading` and what `fb_get_motor_angle`
  and `fb_get_motor_speed` make of 64-bit numbers and put into an `int` wrap around
  (`IntRange`); the 64-bit counts themselves do not within the life of a wheel.
- *Time.* Sleeps and timeouts are steps that may be taken at any time. Only
  `MotorFeedback` has durations, because the code divides by one. That a UART write
  of the Raspberry Pi is a buffer of its own rests on the second it sleeps.
- *Logging* and the wording of messages are left out.

## 7. Where the code and its documents disagree

The first four are violations a run finds, with details and quotes in `PROJECT.json`;
the last one is a difference between a text and a threshold in the code.

1. `robot_telemetry_adc`: an ADC that cannot be read counts as 2 mV in the average,
   since `serialize_reading` takes the absolute value of `E_ADC_ERR`.
2. `command_uplink_stale`: the buffer allocated in `UART_RX_DISABLED` is not cleared,
   the one in `UART_RX_BUF_REQUEST` is, and the main loop ends at a byte that is
   not `<` instead of at the length: an old command is sent again.
3. `pi_telemetry_bytes`: binary fields travel as text, and a voltage such as 910 mV,
   whose low byte is 142, is never published.
4. `pi_commands_resubscribe`: `on_connect` prints that it has subscribed, but does
   not; after a reconnection with a clean session the buggy gets no commands.
5. `Alarm_Server.py:19` tells the user that "Capacitor charge levels have dropped by
   10%". `get_alarm_state` (`pi_controller.py:100-120`) knows no percentage: it raises the
   alarm for any charge 1 mV or more below the lowest one so far, 1030 after 1031 as well
   as 900 after 1031, and drops it again with the next reading. In the other direction
   it keeps less than the text suggests: `previous_charge` never rises, so after 1000, 800
   and a recharge to 1030, a fall to 900 raises nothing. `DropIsAlarmed` is the part of
   the text that holds, a fall by a tenth below everything since the start; `Drop` in
   `PiTelemetry` is the code's own threshold.

## 8. What is not modelled

- `fb_io.c`, `freebot.h`: GPIO access without state.
- `fb_pwr.c` beyond its result: ADC set-up.
- `bt_lbs.c`: never initialised, the call is commented out in `main.c`.
- `uart_async_adapter.c`: vendored, not built.
- `Alarm_Server.py` and the windows of `control-interface.py`: no state. Its buttons are
  `PublishCommand` of `PiCommands`, with the frames of `CommandPath`.
- The pin set-up stages of `fb_motor_init`: hardware access; that one of them may
  fail, and what is missing then, is in `MotorFeedback`.
- In `my_nus_stuff.c`, helpers that nothing calls (lines 197-247).

## 9. Plan

Done, in this order: the robot's command path and its refinement; the robot's
telemetry and its refinement; the gateway's main loop; its UART and link; the two
threads of the Raspberry Pi; the feedback of the motors; the composition of a
command's way from the broker to the wheels; the proofs of its order and copies,
of what the Raspberry Pi publishes and of its alarm; the order of what the gateway
hears, the averages of a frame, and what the whole path promises; bursts that are cut
or lost, memory nobody has cleared, and a robot whose heap is full.

Next:

1. Cut bursts on the whole path, where the rest of a command meets the next one.
2. The composition of the telemetry path, from `ReadingWindow` to what is published.
