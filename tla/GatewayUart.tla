----------------------------- MODULE GatewayUart ----------------------------
(***************************************************************************)
(* The UART of the gateway (ble_gateway/src/main.c): uart_cb, the interrupt*)
(* callback, uart_work_handler, ble_data_received in the Bluetooth thread  *)
(* and the main loop share one heap of blocks, each a struct uart_data_t.  *)
(* External is the driver: it raises an event for what has happened, it    *)
(* fills one receive buffer and holds a spare one, it transmits one buffer *)
(* and refuses another one meanwhile.                                      *)
(***************************************************************************)
EXTENDS Integers, Sequences

CONSTANTS HeapBlocks,   \* blocks the heap has room for
          MaxChunks,    \* bound: bursts of bytes the Raspberry Pi sends
          MaxFrames     \* bound: notifications the robot sends

ASSUME UartAssumption ==
    /\ HeapBlocks \in Nat \ {0}
    /\ MaxChunks \in Nat
    /\ MaxFrames \in Nat

VARIABLES free,               \* blocks left in the heap
          rx,                 \* the receiver: on, stopping or off
          cur,                \* the buffer it fills
          spare,              \* the buffer it goes on with
          asked,              \* it has asked for a spare one
          disable_req,
          uart_work,          \* the work item is scheduled
          arrived,            \* bursts so far; they are numbered
          heard,              \* those that came while the receiver was on
          fifo_uart_rx_data,
          handling,           \* the buffer of the main loop
          seen,               \* the bursts in the buffers it has taken
          frames,             \* notifications so far; they are numbered
          ble,                \* where ble_data_received is
          tx,                 \* the frame being transmitted, or NoFrame
          fifo_uart_tx_data,
          transmitted

receiver == <<rx, cur, spare, asked, disable_req, uart_work>>
input == <<arrived, heard, fifo_uart_rx_data, handling, seen>>
output == <<frames, ble, tx, fifo_uart_tx_data, transmitted>>
vars == <<free, rx, cur, spare, asked, disable_req, uart_work, arrived, heard,
          fifo_uart_rx_data, handling, seen, frames, ble, tx,
          fifo_uart_tx_data, transmitted>>

NoFrame == 0
Empty == [data |-> <<>>, len |-> 0]     \* a new buffer
NoBuffer == <<>>                        \* a buffer is <<b>> or missing

\* After uart_init: one buffer is allocated and the receiver is on.
Init == /\ free = HeapBlocks - 1
        /\ rx = "on" /\ cur = <<Empty>> /\ spare = NoBuffer
        /\ asked = FALSE /\ disable_req = FALSE /\ uart_work = FALSE
        /\ arrived = 0 /\ heard = {} /\ fifo_uart_rx_data = <<>>
        /\ handling = NoBuffer /\ seen = <<>>
        /\ frames = 0 /\ ble = "idle" /\ tx = NoFrame
        /\ fifo_uart_tx_data = <<>> /\ transmitted = <<>>

-----------------------------------------------------------------------------
(***************************************************************************)
(* Receiving.                                                              *)
(***************************************************************************)
\* Mutant: the length of the buffer is not updated.
WithUncounted(b, chunk, counted) == [data |-> Append(b.data, chunk), len |-> b.len]

With(b, chunk, counted) == [data |-> Append(b.data, chunk), len |-> b.len + counted]

Chunk(counted) ==
    /\ arrived < MaxChunks
    /\ cur # NoBuffer
    /\ arrived' = arrived + 1
    /\ heard' = IF rx = "on" THEN heard \cup {arrived'} ELSE heard
    /\ cur' = <<With(cur[1], arrived', counted)>>
    /\ UNCHANGED <<free, spare, asked, uart_work, fifo_uart_rx_data, handling,
                   seen, output>>

\* UART_RX_RDY, the first one: the buffer counts, uart_rx_disable.
RxRdy ==
    /\ rx = "on" /\ ~ disable_req
    /\ Chunk(1)
    /\ disable_req' = TRUE
    /\ rx' = "stopping"

\* UART_RX_RDY while disable_req is set: the bytes are in the buffer, but
\* the callback returns.
RxRdyIgnored == disable_req /\ Chunk(0) /\ UNCHANGED <<rx, disable_req>>

\* Bytes that no buffer is there for, or only the spare one, which is freed.
ChunkLost ==
    /\ arrived < MaxChunks
    /\ cur = NoBuffer
    /\ arrived' = arrived + 1
    /\ UNCHANGED <<free, receiver, heard, fifo_uart_rx_data, handling, seen, output>>

\* UART_RX_BUF_REQUEST, once per buffer; without memory there is no spare.
RxBufRequest ==
    /\ cur # NoBuffer /\ ~ asked
    /\ asked' = TRUE
    /\ IF free > 0 THEN spare' = <<Empty>> /\ free' = free - 1
                   ELSE UNCHANGED <<spare, free>>
    /\ UNCHANGED <<rx, cur, disable_req, uart_work, input, output>>

\* Mutant: a buffer is freed although it has been put into the fifo.
ReleasedFreed(b) ==
    /\ free' = free + 1
    /\ fifo_uart_rx_data' = IF b.len > 0 THEN Append(fifo_uart_rx_data, b)
                                         ELSE fifo_uart_rx_data

\* UART_RX_BUF_RELEASED: into the fifo, or freed when nothing was counted.
Released(b) ==
    IF b.len > 0
    THEN fifo_uart_rx_data' = Append(fifo_uart_rx_data, b) /\ UNCHANGED free
    ELSE free' = free + 1 /\ UNCHANGED fifo_uart_rx_data

RxBufReleased ==
    /\ rx = "stopping"
    /\ \/ cur # NoBuffer /\ Released(cur[1]) /\ cur' = NoBuffer /\ UNCHANGED spare
       \/ /\ cur = NoBuffer /\ spare # NoBuffer
          /\ Released(spare[1]) /\ spare' = NoBuffer /\ UNCHANGED cur
    /\ UNCHANGED <<rx, asked, disable_req, uart_work, arrived, heard, handling,
                   seen, output>>

\* Mutants: the result of k_malloc is not checked; disable_req is not reset;
\* the retry is always, or never again, scheduled.
AllocatesUnchecked == TRUE
FlagKept == disable_req
RetryAlways(enabled) == TRUE
RetryOnce(enabled) == FALSE

\* k_malloc returns a block.
Allocates == free > 0

\* disable_req after UART_RX_DISABLED.
FlagAfter == FALSE

\* Whether the work item is scheduled after UART_RX_DISABLED, and after it ran.
RetryFirst(enabled) == ~ enabled
RetryAgain(enabled) == ~ enabled

\* malloc and uart_rx_enable, in UART_RX_DISABLED and in uart_work_handler.
Enable ==
    /\ cur' = <<Empty>> /\ free' = free - 1
    /\ rx' = "on" /\ asked' = FALSE

Stopped == rx = "stopping" /\ cur = NoBuffer /\ spare = NoBuffer

\* UART_RX_DISABLED: on again, or without memory a retry after 50 ms.
RxDisabled ==
    /\ Stopped
    /\ disable_req' = FlagAfter
    /\ uart_work' = RetryFirst(Allocates)
    /\ \/ Allocates /\ Enable
       \/ ~ Allocates /\ rx' = "off" /\ UNCHANGED <<cur, free, asked>>
    /\ UNCHANGED <<spare, input, output>>

\* uart_work_handler: without memory it reschedules itself.  If the receiver
\* were on, uart_rx_enable would fail and its block would be lost.
UartWork ==
    /\ uart_work
    /\ uart_work' = RetryAgain(Allocates)
    /\ \/ /\ Allocates
          /\ IF rx = "off" THEN Enable
                           ELSE free' = free - 1 /\ UNCHANGED <<cur, rx, asked>>
       \/ ~ Allocates /\ UNCHANGED <<cur, rx, free, asked>>
    /\ UNCHANGED <<spare, disable_req, input, output>>

\* The main loop: k_fifo_get; then (see CommandUplink) k_free.
MainGet ==
    /\ handling = NoBuffer /\ fifo_uart_rx_data # <<>>
    /\ handling' = <<Head(fifo_uart_rx_data)>>
    /\ seen' = seen \o Head(fifo_uart_rx_data).data
    /\ fifo_uart_rx_data' = Tail(fifo_uart_rx_data)
    /\ UNCHANGED <<free, receiver, arrived, heard, output>>

MainFree ==
    /\ handling # NoBuffer
    /\ handling' = NoBuffer
    /\ free' = free + 1
    /\ UNCHANGED <<receiver, arrived, heard, fifo_uart_rx_data, seen, output>>

-----------------------------------------------------------------------------
(***************************************************************************)
(* Transmitting.  A frame of the robot has 16 bytes: its header of two is  *)
(* skipped and the other 14 fit one block.                                 *)
(***************************************************************************)
\* ble_data_received: k_malloc; without memory the frame is dropped.
BleReceived ==
    /\ ble = "idle"
    /\ frames < MaxFrames
    /\ frames' = frames + 1
    /\ \/ free > 0 /\ free' = free - 1 /\ ble' = "try"
       \/ free = 0 /\ UNCHANGED <<free, ble>>
    /\ UNCHANGED <<receiver, input, tx, fifo_uart_tx_data, transmitted>>

\* uart_tx: taken, or refused while a frame is being transmitted.
UartTx ==
    /\ ble = "try"
    /\ \/ tx = NoFrame /\ tx' = frames /\ ble' = "idle"
       \/ tx # NoFrame /\ ble' = "put" /\ UNCHANGED tx
    /\ UNCHANGED <<free, receiver, input, frames, fifo_uart_tx_data, transmitted>>

\* k_fifo_put, however much time has passed since uart_tx refused.
TxPut ==
    /\ ble = "put"
    /\ fifo_uart_tx_data' = Append(fifo_uart_tx_data, frames)
    /\ ble' = "idle"
    /\ UNCHANGED <<free, receiver, input, frames, tx, transmitted>>

\* Mutant: the fifo is only looked at by the next notification.
FetchesNone == FALSE

\* k_fifo_get, K_NO_WAIT: a frame waits for the transmitter.
Fetches == fifo_uart_tx_data # <<>>

\* UART_TX_DONE: the block is freed, the fifo's next one transmitted.
TxDone ==
    /\ tx # NoFrame
    /\ transmitted' = Append(transmitted, tx)
    /\ free' = free + 1
    /\ \/ /\ Fetches
          /\ tx' = Head(fifo_uart_tx_data)
          /\ fifo_uart_tx_data' = Tail(fifo_uart_tx_data)
       \/ ~ Fetches /\ tx' = NoFrame /\ UNCHANGED fifo_uart_tx_data
    /\ UNCHANGED <<receiver, input, frames, ble>>

Interrupts == RxBufReleased \/ RxDisabled \/ TxDone
Bytes == RxRdy \/ RxRdyIgnored \/ ChunkLost

Next == \/ Bytes \/ RxBufRequest \/ Interrupts \/ UartWork
        \/ MainGet \/ MainFree \/ BleReceived \/ UartTx \/ TxPut

(***************************************************************************)
(* The driver finishes what it was told to do, threads run and the work    *)
(* item is retried; nothing makes the Pi or the robot send.                *)
(***************************************************************************)
Fairness == /\ WF_vars(RxBufReleased) /\ WF_vars(RxDisabled) /\ WF_vars(TxDone)
            /\ WF_vars(UartWork) /\ WF_vars(MainGet \/ MainFree)
            /\ WF_vars(UartTx \/ TxPut)

Spec == Init /\ [][Next]_vars
FairSpec == Spec /\ Fairness

-----------------------------------------------------------------------------
Buffer == [data : Seq(1..MaxChunks), len : Nat]

TypeOK ==
    /\ free \in 0..HeapBlocks
    /\ rx \in {"on", "stopping", "off"}
    /\ Len(cur) <= 1 /\ cur \in Seq(Buffer)
    /\ Len(spare) <= 1 /\ spare \in Seq(Buffer)
    /\ asked \in BOOLEAN /\ disable_req \in BOOLEAN /\ uart_work \in BOOLEAN
    /\ arrived \in 0..MaxChunks
    /\ heard \subseteq 1..arrived
    /\ fifo_uart_rx_data \in Seq(Buffer)
    /\ Len(handling) <= 1 /\ handling \in Seq(Buffer)
    /\ seen \in Seq(1..MaxChunks)
    /\ frames \in 0..MaxFrames
    /\ ble \in {"idle", "try", "put"}
    /\ tx \in 0..MaxFrames
    /\ fifo_uart_tx_data \in Seq(1..MaxFrames)
    /\ transmitted \in Seq(1..MaxFrames)

One(P) == IF P THEN 1 ELSE 0

\* Blocks on their way from the UART to the main loop, and to the UART.
Receiving == Len(cur) + Len(spare) + Len(fifo_uart_rx_data) + Len(handling)
Sending == One(ble # "idle") + One(tx # NoFrame) + Len(fifo_uart_tx_data)

\* BlocksAccounted: every block is free or has one owner: the driver's two
\* buffers, a fifo, the main loop, ble_data_received or the transmitter.
BlocksAccounted == HeapBlocks = free + Receiving + Sending

\* OneRestart: a retry is scheduled exactly while the receiver is off, and
\* disable_req is set exactly while it is stopping: no event finds the flag
\* of an earlier round, and no retry finds the receiver on.
OneRestart == (uart_work <=> rx = "off") /\ (disable_req <=> rx = "stopping")

\* The bursts in the order they went: part 0 is what the main loop has taken,
\* the buffers behind it follow.
Behind == fifo_uart_rx_data \o cur
Parts == [n \in 0..Len(Behind) |-> IF n = 0 THEN seen ELSE Behind[n].data]

\* HeardInOrder: what came while the receiver was on is in a buffer, in the
\* fifo or with the main loop, in the order it came.
HeardInOrder ==
    /\ \A m, n \in DOMAIN Parts : \A i \in DOMAIN Parts[m], j \in DOMAIN Parts[n] :
          m < n \/ (m = n /\ i < j) => Parts[m][i] < Parts[n][j]
    /\ \A c \in heard : \E n \in DOMAIN Parts : \E i \in DOMAIN Parts[n] :
          Parts[n][i] = c

\* A frame for which uart_tx has been refused is put into the fifo, or will be:
\* what has been transmitted, and what waits.
Out == transmitted \o (IF tx = NoFrame THEN <<>> ELSE <<tx>>)
Waiting == fifo_uart_tx_data \o (IF ble = "put" THEN <<frames>> ELSE <<>>)

\* OvertakenOnce: between uart_tx's refusal and k_fifo_put the transmission may
\* end, and the frame is left in the fifo with nothing to fetch it.  It is
\* overtaken by one later frame at most, however often that happens: readings
\* never reach the Raspberry Pi later than that.
OvertakenOnce ==
    \A l, m, n \in DOMAIN (Out \o Waiting) :
        l < m /\ m < n => ~ /\ (Out \o Waiting)[l] > (Out \o Waiting)[n]
                            /\ (Out \o Waiting)[m] > (Out \o Waiting)[n]

\* HeardReachesLoop: what came while the receiver was on reaches the main loop.
HeardReachesLoop ==
    \A c \in 1..MaxChunks : c \in heard ~> \E n \in DOMAIN seen : seen[n] = c

\* ReceiverRestarts: without memory the receiver is off, but not for ever.
ReceiverRestarts == rx = "off" ~> rx = "on"
=============================================================================
