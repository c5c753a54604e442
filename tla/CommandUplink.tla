---------------------------- MODULE CommandUplink ---------------------------
(***************************************************************************)
(* The gateway's main loop (ble_gateway/src/main.c): it takes a UART       *)
(* buffer, cuts it into commands and writes each one to the robot, at most *)
(* MaxTries writes per buffer, waiting NUS_WRITE_TIMEOUT for nus_write_sem *)
(* after each.  ble_data_sent gives that semaphore when the write is over, *)
(* however it ended and however late.  The NUS client, the link and the    *)
(* robot's end of it are external: one write at a time, answered unless    *)
(* the link breaks, in which case the stack reports the write as over too. *)
(* Of the UART's receiver (GatewayUart) this module keeps what reaches the *)
(* loop: which block a burst is received into, and that there is none.     *)
(***************************************************************************)
EXTENDS Integers, Sequences, FiniteSets, SequencesExt

CONSTANTS Input,      \* the bursts that find a receiver, each the commands in it
          Recycled,   \* what a block of the heap may hold from other uses
          MayCut,     \* the receiver may time out in the middle of a burst
          MaxTries    \* 3 in the code

ASSUME UplinkAssumption ==
    /\ Input \in Seq(Seq(Nat \ {0}))
    /\ Recycled # {} /\ Recycled \subseteq Seq({z \in Int : z <= 0})
    /\ MayCut \in BOOLEAN
    /\ MaxTries \in Nat \ {0}

\* The number of a command is its place in the order of arrival.
ASSUME NumberAssumption ==
    \A m, n \in 1..Len(Input) : \A a \in 1..Len(Input[m]), b \in 1..Len(Input[n]) :
        m < n \/ (m = n /\ a < b) => Input[m][a] < Input[n][b]

VARIABLES arrived,             \* buffers put into fifo_uart_rx_data so far
          receiving,           \* the UART has a buffer to receive into
          rx,                  \* what that buffer held before
          freed,               \* what the buffers freed by the loop still hold
          fifo_uart_rx_data,
          pc,                  \* where the main loop is
          buf,                 \* the buffer it works on
          i,                   \* commands of it passed on
          tries,               \* writes attempted for it
          k,                   \* the last attempt was accepted
          nus_write_sem,
          linked,              \* the robot is connected and discovered
          pending,             \* the write in flight: one command, or none
          delivered,           \* the robot has got it
          received,            \* what the robot got, in order
          handed,              \* the commands bt_nus_client_send accepted
          faulty               \* something has gone wrong so far

queue == <<arrived, receiving, rx, freed, fifo_uart_rx_data>>
loop == <<pc, buf, i, tries, k>>
link == <<linked, pending, delivered, received>>
vars == <<arrived, receiving, rx, freed, fifo_uart_rx_data, pc, buf, i, tries, k,
          nus_write_sem, linked, pending, delivered, received, handed, faulty>>

Init == /\ arrived = 0
        /\ receiving = TRUE
        /\ rx \in Recycled      \* uart_init clears it as little as uart_cb
        /\ freed = {}
        /\ fifo_uart_rx_data = <<>>
        /\ pc = "get" /\ buf = <<>> /\ i = 0 /\ tries = 0 /\ k = FALSE
        /\ nus_write_sem = 0
        /\ linked = FALSE
        /\ pending = <<>> /\ delivered = FALSE
        /\ received = <<>>
        /\ handed = {}
        /\ faulty = FALSE

(***************************************************************************)
(* uart_cb.  UART_RX_BUF_RELEASED puts the filled buffer into the fifo;    *)
(* UART_RX_DISABLED then allocates the next one and does not clear it, so  *)
(* it holds what its block held before: whatever was in the memory, a      *)
(* telemetry frame (a byte of which may read as "<": the command 0, which  *)
(* no robot knows), or a buffer the main loop has freed.  The loop cannot  *)
(* tell the remains from what has arrived; here remains are not positive.  *)
(***************************************************************************)
Stale(c) == IF c > 0 THEN -c ELSE c

Filled(new, old) ==
    new \o [j \in 1..(Len(old) - Len(new)) |-> Stale(old[Len(new) + j])]

\* The beginning of a command, and the remains it ends in: an old command, or
\* nothing the robot knows.
Completed(n, old) == {0} \cup {Stale(old[j]) : j \in {n} \cap DOMAIN old}

\* What is received of a burst: if the receiver times out in the middle of
\* its n-th command, only the beginning.  The rest gets a buffer that does
\* not start with "<", which the loop frees unread.
Received(burst, old) ==
    {burst} \cup IF MayCut
                 THEN UNION {{Append(SubSeq(burst, 1, n - 1), c) : c \in Completed(n, old)} :
                                n \in 1..Len(burst)}
                 ELSE {}

\* k_malloc of the next buffer, which may fail: then the receiver stays off.
NextBuffer ==
    \/ /\ receiving' = TRUE
       /\ rx' \in freed \cup Recycled
       /\ freed' = freed \ {rx'}
    \/ /\ receiving' = FALSE
       /\ rx' = <<>>
       /\ UNCHANGED freed

UartPut ==
    /\ receiving
    /\ arrived < Len(Input)
    /\ arrived' = arrived + 1
    /\ \E burst \in Received(Input[arrived'], rx) :
          /\ fifo_uart_rx_data' = Append(fifo_uart_rx_data, Filled(burst, rx))
          /\ faulty' = (faulty \/ burst # Input[arrived'])
    /\ NextBuffer
    /\ UNCHANGED <<loop, nus_write_sem, link, handed>>

\* A burst comes while the receiver is off, and is lost.
UartLost ==
    /\ ~ receiving
    /\ faulty' = TRUE
    /\ UNCHANGED <<queue, loop, nus_write_sem, link, handed>>

\* uart_work_handler: tries again, and reschedules itself if there is still
\* no memory.
UartWork ==
    /\ ~ receiving
    /\ NextBuffer
    /\ UNCHANGED <<arrived, fifo_uart_rx_data, loop, nus_write_sem, link, handed, faulty>>

-----------------------------------------------------------------------------
\* Mutant: the counter of attempts is declared outside the loop.
FirstTriesCarried == tries

\* int tries = 0, for each buffer.
FirstTries == 0

\* k_fifo_get: blocks while there is no buffer.
Get ==
    /\ pc = "get"
    /\ fifo_uart_rx_data # <<>>
    /\ buf' = Head(fifo_uart_rx_data)
    /\ fifo_uart_rx_data' = Tail(fifo_uart_rx_data)
    /\ i' = 0 /\ tries' = FirstTries
    /\ pc' = "test"
    /\ UNCHANGED <<arrived, receiving, rx, freed, k, nus_write_sem, link, handed, faulty>>

\* Mutant: one attempt too many.
MoreToDoOffByOne == i < Len(buf) /\ tries <= MaxTries

\* The loop's condition: a command starts at the index, and tries are left.
MoreToDo == i < Len(buf) /\ tries < MaxTries

\* Mutant: only writes that were accepted are counted.
AttemptsIfAccepted(accepted) == IF accepted THEN tries + 1 ELSE tries

\* Every call of bt_nus_client_send is counted.
Attempts(accepted) == tries + 1

Send(accepted) ==
    /\ pc = "test" /\ MoreToDo
    /\ k' = accepted
    /\ tries' = Attempts(accepted)
    /\ pc' = "take"
    /\ UNCHANGED <<queue, buf, i, nus_write_sem, linked, received>>

\* bt_nus_client_send takes the write: connected, none pending.
SendAccepted ==
    /\ Send(TRUE)
    /\ linked /\ pending = <<>>
    /\ pending' = <<buf[i + 1]>> /\ delivered' = FALSE
    /\ handed' = handed \cup {buf[i + 1]}
    /\ UNCHANGED faulty

\* bt_nus_client_send fails: not connected, a write pending, or no memory.
SendFailed ==
    /\ Send(FALSE)
    /\ faulty' = TRUE
    /\ UNCHANGED <<pending, delivered, handed>>

\* Mutants: the index advances on every token; a timeout starts over.
PassedOnAnyToken == i + 1
KeptFromStart == 0

\* The index after a token: the command has been passed on if its write was
\* accepted.  A timeout leaves it where it is.
Passed == IF k THEN i + 1 ELSE i
Kept == i

\* k_sem_take succeeds.
Take ==
    /\ pc = "take"
    /\ nus_write_sem > 0
    /\ nus_write_sem' = nus_write_sem - 1
    /\ i' = Passed
    /\ pc' = "test"
    /\ UNCHANGED <<queue, buf, tries, k, link, handed, faulty>>

\* NUS_WRITE_TIMEOUT passes first; the loop then sleeps 20 ms.
Timeout ==
    /\ pc = "take"
    /\ nus_write_sem = 0
    /\ i' = Kept
    /\ pc' = "sleep"
    /\ faulty' = TRUE
    /\ UNCHANGED <<queue, buf, tries, k, nus_write_sem, link, handed>>

Slept ==
    /\ pc = "sleep"
    /\ pc' = "test"
    /\ UNCHANGED <<queue, buf, i, tries, k, nus_write_sem, link, handed, faulty>>

\* The loop is over and k_free(buf) is called.
Free ==
    /\ pc = "test" /\ ~ MoreToDo
    /\ pc' = "get"
    /\ freed' = freed \cup {buf}
    /\ buf' = <<>> /\ i' = 0 /\ k' = FALSE
    /\ UNCHANGED <<arrived, receiving, rx, fifo_uart_rx_data, tries, nus_write_sem,
                   link, handed, faulty>>

MainLoop == \/ Get \/ SendAccepted \/ SendFailed \/ Take \/ Timeout \/ Slept
            \/ Free

-----------------------------------------------------------------------------
(***************************************************************************)
(* The link.                                                               *)
(***************************************************************************)
\* ble_data_sent: the semaphore is given whether the write succeeded or not.
WriteOver ==
    /\ pending' = <<>>
    /\ delivered' = FALSE
    /\ nus_write_sem' = 1

RobotReceives ==
    /\ pending # <<>> /\ ~ delivered
    /\ received' = received \o pending
    /\ delivered' = TRUE
    /\ UNCHANGED <<queue, loop, nus_write_sem, linked, pending, handed, faulty>>

Acknowledged ==
    /\ pending # <<>> /\ delivered
    /\ WriteOver
    /\ UNCHANGED <<queue, loop, linked, received, handed, faulty>>

\* The robot's stack refuses the write (ATT error code).
AttError ==
    /\ pending # <<>> /\ ~ delivered
    /\ WriteOver
    /\ faulty' = TRUE
    /\ UNCHANGED <<queue, loop, linked, received, handed>>

\* The link breaks; a write in flight is reported as over.
Disconnect ==
    /\ linked
    /\ linked' = FALSE
    /\ \/ pending # <<>> /\ WriteOver
       \/ pending = <<>> /\ UNCHANGED <<pending, delivered, nus_write_sem>>
    /\ faulty' = TRUE
    /\ UNCHANGED <<queue, loop, received, handed>>

\* Connected and discovered (again).
Connect ==
    /\ ~ linked
    /\ linked' = TRUE
    /\ UNCHANGED <<queue, loop, nus_write_sem, pending, delivered, received,
                   handed, faulty>>

Radio == RobotReceives \/ Acknowledged

Uart == UartPut \/ UartLost \/ UartWork

Next == Uart \/ MainLoop \/ Radio \/ AttError \/ Disconnect \/ Connect

(***************************************************************************)
(* The main loop runs; the UART delivers what it has, and its receiver     *)
(* finds memory again, since every buffer is freed in the end.  A          *)
(* connected link carries a write and its answer, but nothing keeps it     *)
(* connected.                                                              *)
(***************************************************************************)
Fairness == /\ WF_vars(MainLoop) /\ WF_vars(Radio)
            /\ WF_vars(UartPut) /\ WF_vars(UartWork)

Spec == Init /\ [][Next]_vars
FairSpec == Spec /\ Fairness

-----------------------------------------------------------------------------
Commands == UNION {ToSet(Input[n]) : n \in 1..Len(Input)}
Tokens == {c \in Int : c > 0 => c \in Commands}

TypeOK ==
    /\ arrived \in 0..Len(Input)
    /\ receiving \in BOOLEAN
    /\ rx \in Seq(Tokens)
    /\ freed \subseteq Seq(Tokens)
    /\ fifo_uart_rx_data \in Seq(Seq(Tokens))
    /\ pc \in {"get", "test", "take", "sleep"}
    /\ buf \in Seq(Tokens)
    /\ i \in 0..Len(buf)
    /\ tries \in 0..MaxTries
    /\ k \in BOOLEAN
    /\ nus_write_sem \in {0, 1}
    /\ linked \in BOOLEAN
    /\ pending \in Seq(Tokens) /\ Len(pending) <= 1
    /\ delivered \in BOOLEAN
    /\ received \in Seq(Tokens)
    /\ handed \subseteq Tokens
    /\ faulty \in BOOLEAN

\* PassedWereHanded: the index never passes a command that the NUS client has
\* not taken, although the token that moves it may be an old one.
PassedWereHanded == \A j \in 1..i : buf[j] \in handed

\* InOrder: the robot gets commands in the order the UART delivered them:
\* a late answer or a retry never lets an older command follow a newer one.
InOrder ==
    \A m, n \in DOMAIN received :
        m < n /\ received[m] > 0 /\ received[n] > 0 => received[m] <= received[n]

\* AtMostTwice: retries reach the robot as duplicates, but a command never
\* arrives a third time: that would need a fourth attempt.
AtMostTwice ==
    \A l, m, n \in DOMAIN received :
        l < m /\ m < n /\ received[l] = received[m] /\ received[m] = received[n]
            => received[n] <= 0

\* OnlyWhatArrived: the robot gets nothing but commands that have arrived,
\* each as often as it arrived, when no write fails or is answered late.
OnlyWhatArrived == ~ faulty => \A n \in DOMAIN received : received[n] > 0

\* BuffersReleased: every buffer is worked off and freed, with no robot in
\* reach and with writes that are never answered.
BuffersReleased == fifo_uart_rx_data # <<>> ~> fifo_uart_rx_data = <<>> /\ pc = "get"

\* What the attempts for a buffer are enough for, and what the robot got.
WithinBudget(b) == SubSeq(b, 1, Min({Len(b), MaxTries}))
Fresh == SelectSeq(received, LAMBDA c : c > 0)

\* FaultFreeRelay: if nothing ever goes wrong, the first MaxTries commands of
\* every buffer reach the robot, once each and in order.
FaultFreeRelay ==
    [](~ faulty) => <>(Fresh = FlattenSeq([n \in 1..Len(Input) |-> WithinBudget(Input[n])]))
=============================================================================
