------------------------- MODULE GatewayUart_proofs -------------------------
(***************************************************************************)
(* Proofs about the gateway's UART, for a heap of any size and any number  *)
(* of bursts and notifications.                                            *)
(***************************************************************************)
EXTENDS GatewayUart, TLAPS

\* How the types are split: what is counted, the buffers, and the rest.
Counted == free \in Int /\ free >= 0

Buffers == /\ cur \in Seq(Buffer) /\ Len(cur) <= 1
           /\ spare \in Seq(Buffer) /\ Len(spare) <= 1
           /\ handling \in Seq(Buffer) /\ Len(handling) <= 1
           /\ fifo_uart_rx_data \in Seq(Buffer)

Simple == /\ rx \in {"on", "stopping", "off"}
          /\ asked \in BOOLEAN /\ disable_req \in BOOLEAN /\ uart_work \in BOOLEAN
          /\ ble \in {"idle", "try", "put"}

Numbers == /\ arrived \in 0..MaxChunks
           /\ heard \subseteq 1..arrived
           /\ seen \in Seq(1..MaxChunks)
           /\ frames \in 0..MaxFrames
           /\ ble # "idle" => frames > 0
           /\ tx \in 0..MaxFrames
           /\ fifo_uart_tx_data \in Seq(1..MaxFrames)
           /\ transmitted \in Seq(1..MaxFrames)

\* The receiver has a buffer while it is on and none while it is off, and
\* there is no spare buffer before it has asked for one.
Reception == /\ rx = "on" => Len(cur) = 1
             /\ rx = "off" => Len(cur) = 0 /\ Len(spare) = 0
             /\ ~ asked => Len(spare) = 0

\* OneStranded: while nothing is transmitted, at most one frame waits.
OneStranded == tx = NoFrame => Len(fifo_uart_tx_data) + One(ble = "put") <= 1

\* The inductive invariant.
IInv == /\ Counted /\ Buffers /\ Simple /\ Numbers /\ Reception
        /\ BlocksAccounted /\ OneRestart /\ OneStranded

\* What each side has taken is a number of blocks.
LEMMA SidesNat ==
    ASSUME Buffers, Numbers
    PROVE  Receiving \in Nat /\ Sending \in Nat
  <1>1. Receiving \in Nat
    BY DEF Buffers, Receiving
  <1>2. Sending \in Nat
    BY DEF Numbers, Sending, One
  <1> QED
    BY <1>1, <1>2

\* A step that moves blocks between the heap and the receiving side only.
LEMMA ReceivingKeepsBlocks ==
    ASSUME IInv, UNCHANGED output, free' + Receiving' = free + Receiving,
           free' \in Int, Receiving' \in Int
    PROVE  BlocksAccounted'
  <1>1. Receiving \in Nat /\ Sending \in Nat /\ free \in Int
    BY SidesNat DEF IInv, Counted
  <1>2. Sending' = Sending
    BY DEF Sending, output, One
  <1>3. HeapBlocks = free + Receiving + Sending
    BY DEF IInv, BlocksAccounted
  <1> QED
    BY <1>1, <1>2, <1>3 DEF BlocksAccounted

LEMMA Regroup ==
    \A a, b, c, d, e \in Int : a + (b + c + d + e) = (a + b + c + d) + e
OBVIOUS

\* A step that moves blocks between the heap and the sending side only.
LEMMA SendingKeepsBlocks ==
    ASSUME IInv, UNCHANGED <<receiver, input>>, free' + Sending' = free + Sending,
           free' \in Int, Sending' \in Int
    PROVE  BlocksAccounted'
  <1>1. Receiving \in Nat /\ Sending \in Nat /\ free \in Int
    BY SidesNat DEF IInv, Counted
  <1>2. Receiving' = Receiving
    BY DEF Receiving, receiver, input
  <1>3. HeapBlocks = free + Receiving + Sending
    BY DEF IInv, BlocksAccounted
  <1>4. HeapBlocks = free' + Receiving' + Sending'
    <2>1. free' + Receiving' + Sending' = (free' + Sending') + Receiving
      BY <1>1, <1>2
    <2>2. (free + Sending) + Receiving = free + Receiving + Sending
      BY <1>1
    <2> QED
      BY <1>3, <2>1, <2>2
  <1> QED
    BY <1>4 DEF BlocksAccounted

\* A buffer that is there is the only element of its sequence.
LEMMA TheBuffer ==
    ASSUME NEW s \in Seq(Buffer), Len(s) <= 1, s # NoBuffer
    PROVE  Len(s) = 1 /\ s[1] \in Buffer
  <1>1. Len(s) \in Nat /\ s \in [1..Len(s) -> Buffer]
    OBVIOUS
  <1>2. Len(s) # 0
    <2> SUFFICES ASSUME Len(s) = 0
                 PROVE  FALSE
      OBVIOUS
    <2>1. s = <<>>
      BY SMT
    <2> QED
      BY <2>1 DEF NoBuffer
  <1>3. Len(s) = 1
    BY <1>1, <1>2
  <1> QED
    BY <1>3

\* Every other term of BlocksAccounted is a number of blocks.
LEMMA FreeFits ==
    ASSUME Counted, Buffers, Numbers, BlocksAccounted
    PROVE  free \in 0..HeapBlocks
  BY SidesNat, UartAssumption DEF Counted, BlocksAccounted

\* The invariant says more than the types.
LEMMA Typed == IInv => TypeOK
  BY FreeFits DEF IInv, TypeOK, Buffers, Simple, Numbers

\* What taking the head of a fifo leaves.
LEMMA HeadAndTail ==
    ASSUME NEW S, NEW s \in Seq(S), s # <<>>
    PROVE  /\ Head(s) \in S /\ Tail(s) \in Seq(S)
           /\ Len(Tail(s)) = Len(s) - 1
  OBVIOUS

\* A new buffer is one.
LEMMA EmptyBuffer == Empty \in Buffer
  BY DEF Empty, Buffer

\* A buffer remains one when a burst is received into it.
LEMMA WithBuffer ==
    ASSUME NEW b \in Buffer, NEW c \in 1..MaxChunks, NEW k \in {0, 1}
    PROVE  With(b, c, k) \in Buffer
  BY DEF With, Buffer

\* The invariant holds after the start.
LEMMA InitIInv == Init => IInv
  <1> SUFFICES ASSUME Init
               PROVE  IInv
    OBVIOUS
  <1> USE UartAssumption, EmptyBuffer DEF Init, NoBuffer, NoFrame
  <1>1. Counted
    BY DEF Counted
  <1>5. Simple
    BY Zenon DEF Simple
  <1>4. Numbers
    <2>1. <<>> \in Seq(1..MaxChunks) /\ <<>> \in Seq(1..MaxFrames)
      OBVIOUS
    <2> QED
      BY <2>1 DEF Numbers
  <1>2. Buffers /\ Reception
    BY DEF Buffers, Reception
  <1>3. BlocksAccounted /\ OneRestart /\ OneStranded
    BY DEF BlocksAccounted, Receiving, Sending, OneRestart, OneStranded, One
  <1> QED
    BY <1>1, <1>2, <1>3, <1>4, <1>5 DEF IInv

-----------------------------------------------------------------------------
(***************************************************************************)
(* The steps of the receiver.                                              *)
(***************************************************************************)
\* A burst arrives: only the buffer that is being filled changes.
LEMMA BytesIInv == IInv /\ Bytes => IInv'
  <1> SUFFICES ASSUME IInv, Bytes
               PROVE  IInv'
    OBVIOUS
  <1> USE DEF IInv
  <1>1. /\ arrived < MaxChunks /\ arrived' = arrived + 1
        /\ heard' \subseteq heard \cup {arrived'}
        /\ UNCHANGED <<free, spare, asked, uart_work, fifo_uart_rx_data, handling,
                       seen, output>>
    BY DEF Bytes, RxRdy, RxRdyIgnored, Chunk, ChunkLost, receiver
  <1>2. arrived' \in 1..MaxChunks
    BY <1>1, UartAssumption DEF Numbers
  <1>3. cur' \in Seq(Buffer) /\ Len(cur') = Len(cur)
    <2>1. CASE RxRdy \/ RxRdyIgnored
      <3>1. Len(cur) = 1
        BY <2>1 DEF RxRdy, RxRdyIgnored, Chunk, NoBuffer, Buffers, Reception
      <3>2. cur[1] \in Buffer
        <4>1. cur \in Seq(Buffer)
          BY DEF Buffers
        <4> QED
          BY <3>1, <4>1
      <3>3. \E k \in {0, 1} : cur' = <<With(cur[1], arrived', k)>>
        BY <2>1 DEF RxRdy, RxRdyIgnored, Chunk
      <3> QED
        BY <1>2, <3>1, <3>2, <3>3, WithBuffer
    <2>2. CASE ChunkLost
      BY <2>2 DEF ChunkLost, receiver, Buffers
    <2> QED
      BY <2>1, <2>2 DEF Bytes
  <1>4. \/ rx = "on" /\ rx' = "stopping" /\ disable_req' = TRUE
        \/ UNCHANGED <<rx, disable_req>>
    BY DEF Bytes, RxRdy, RxRdyIgnored, Chunk, ChunkLost, receiver
  <1>5. Counted' /\ BlocksAccounted'
    <2>1. Receiving' = Receiving /\ free' = free
      BY <1>1, <1>3 DEF Receiving
    <2> QED
      BY <1>1, <2>1, SidesNat, ReceivingKeepsBlocks DEF Counted
  <1>6. Buffers'
    BY <1>1, <1>3 DEF Buffers
  <1>7. Simple'
    BY <1>1, <1>4, Zenon DEF Simple, output
  <1>8. Numbers'
    BY <1>1, <1>2, UartAssumption DEF Numbers, output
  <1>9. Reception'
    BY <1>1, <1>3, <1>4 DEF Reception
  <1>10. OneRestart'
    BY <1>1, <1>4 DEF OneRestart
  <1>11. OneStranded'
    BY <1>1 DEF OneStranded, output, One
  <1> QED
    BY <1>5, <1>6, <1>7, <1>8, <1>9, <1>10, <1>11

\* The spare buffer is allocated, once.
LEMMA RxBufRequestIInv == IInv /\ RxBufRequest => IInv'
  <1> SUFFICES ASSUME IInv, RxBufRequest
               PROVE  IInv'
    OBVIOUS
  <1> USE DEF IInv
  <1>1. /\ Len(cur) > 0 /\ Len(spare) = 0 /\ asked' = TRUE
        /\ UNCHANGED <<rx, cur, disable_req, uart_work, input, output>>
    BY DEF RxBufRequest, Reception, Buffers, NoBuffer
  <1>2. /\ spare' \in Seq(Buffer) /\ Len(spare') <= 1
        /\ free' \in Int /\ free' >= 0
        /\ free' + Len(spare') = free + Len(spare)
    <2>1. CASE free > 0
      <3>1. spare' = <<Empty>> /\ free' = free - 1
        BY <2>1 DEF RxBufRequest
      <3>2. spare' \in Seq(Buffer) /\ Len(spare') = 1
        BY <3>1, EmptyBuffer
      <3> QED
        BY <1>1, <2>1, <3>1, <3>2 DEF Counted
    <2>2. CASE ~ (free > 0)
      BY <1>1, <2>2 DEF RxBufRequest, Counted, Buffers
    <2> QED
      BY <2>1, <2>2
  <1>3. rx # "off"
    BY <1>1 DEF Reception
  <1>4. Counted'
    BY <1>2 DEF Counted
  <1>5. Buffers'
    BY <1>1, <1>2 DEF Buffers, input
  <1>6. Simple'
    BY <1>1, Zenon DEF Simple, output
  <1>7. Numbers'
    BY <1>1 DEF Numbers, input, output
  <1>8. Reception'
    BY <1>1, <1>3 DEF Reception
  <1>9. BlocksAccounted'
    <2>1. free' + Receiving' = free + Receiving /\ Receiving' \in Int
      BY <1>1, <1>2, <1>5, SMTT(30) DEF Receiving, input, Counted, Buffers
    <2> QED
      BY <1>1, <1>2, <2>1, ReceivingKeepsBlocks
  <1>10. OneRestart'
    BY <1>1 DEF OneRestart
  <1>11. OneStranded'
    BY <1>1 DEF OneStranded, output, One
  <1> QED
    BY <1>4, <1>5, <1>6, <1>7, <1>8, <1>9, <1>10, <1>11

\* A released buffer is in the fifo or in the heap.
LEMMA ReleasedBlock ==
    ASSUME IInv, NEW b \in Buffer, Released(b)
    PROVE  /\ free' \in Int /\ free' >= 0
           /\ fifo_uart_rx_data' \in Seq(Buffer)
           /\ free' + Len(fifo_uart_rx_data') = free + Len(fifo_uart_rx_data) + 1
  <1>1. CASE b.len > 0
    <2>1. /\ fifo_uart_rx_data' = Append(fifo_uart_rx_data, b)
          /\ free' = free
      BY <1>1 DEF Released
    <2>2. fifo_uart_rx_data \in Seq(Buffer)
      BY DEF IInv, Buffers
    <2>3. /\ fifo_uart_rx_data' \in Seq(Buffer)
          /\ Len(fifo_uart_rx_data') = Len(fifo_uart_rx_data) + 1
      BY <2>1, <2>2
    <2> QED
      BY <2>1, <2>2, <2>3 DEF IInv, Counted
  <1>2. CASE ~ (b.len > 0)
    BY <1>2 DEF Released, IInv, Counted, Buffers
  <1> QED
    BY <1>1, <1>2

\* The driver gives back its buffers, the one it filled first.
LEMMA RxBufReleasedIInv == IInv /\ RxBufReleased => IInv'
  <1> SUFFICES ASSUME IInv, RxBufReleased
               PROVE  IInv'
    OBVIOUS
  <1> USE DEF IInv
  <1>1. /\ rx = "stopping"
        /\ UNCHANGED <<rx, asked, disable_req, uart_work, arrived, heard, handling,
                       seen, output>>
    BY DEF RxBufReleased
  <1>2. /\ free' \in Int /\ free' >= 0
        /\ fifo_uart_rx_data' \in Seq(Buffer)
        /\ cur' \in Seq(Buffer) /\ Len(cur') <= 1
        /\ spare' \in Seq(Buffer) /\ Len(spare') <= Len(spare)
        /\ free' + Len(cur') + Len(spare') + Len(fifo_uart_rx_data')
              = free + Len(cur) + Len(spare) + Len(fifo_uart_rx_data)
    <2>1. CASE cur # NoBuffer /\ Released(cur[1]) /\ cur' = NoBuffer /\ UNCHANGED spare
      <3>1. Len(cur) = 1 /\ cur[1] \in Buffer
        BY <2>1, TheBuffer DEF Buffers
      <3>2. cur' \in Seq(Buffer) /\ Len(cur') = 0
        BY <2>1 DEF NoBuffer
      <3> QED
        BY <2>1, <3>1, <3>2, ReleasedBlock DEF Buffers, Counted
    <2>2. CASE /\ cur = NoBuffer /\ spare # NoBuffer
               /\ Released(spare[1]) /\ spare' = NoBuffer /\ UNCHANGED cur
      <3>1. Len(spare) = 1 /\ spare[1] \in Buffer
        BY <2>2, TheBuffer DEF Buffers
      <3>2. spare' \in Seq(Buffer) /\ Len(spare') = 0
        BY <2>2 DEF NoBuffer
      <3> QED
        BY <2>2, <3>1, <3>2, ReleasedBlock DEF Buffers, Counted
    <2> QED
      BY <2>1, <2>2 DEF RxBufReleased
  <1>3. Counted'
    BY <1>2 DEF Counted
  <1>4. Buffers'
    BY <1>1, <1>2 DEF Buffers
  <1>5. Simple'
    BY <1>1, Zenon DEF Simple, output
  <1>6. Numbers'
    BY <1>1 DEF Numbers, output
  <1>7. Reception'
    BY <1>1, <1>2 DEF Reception, Buffers
  <1>8. BlocksAccounted'
    <2>2. /\ Len(cur) \in Nat /\ Len(spare) \in Nat /\ Len(handling) \in Nat
          /\ Len(fifo_uart_rx_data) \in Nat /\ free \in Int
      BY DEF Buffers, Counted
    <2>3. /\ Len(cur') \in Nat /\ Len(spare') \in Nat /\ Len(handling') = Len(handling)
          /\ Len(fifo_uart_rx_data') \in Nat
      BY <1>1, <1>2
    <2>4. Receiving' \in Int
      BY <2>2, <2>3 DEF Receiving
    <2>5. free' + Receiving'
            = (free' + Len(cur') + Len(spare') + Len(fifo_uart_rx_data')) + Len(handling)
      <3>1. Receiving' = Len(cur') + Len(spare') + Len(fifo_uart_rx_data') + Len(handling)
        BY <2>3 DEF Receiving
      <3>2. free' \in Int /\ Len(handling) \in Int
        BY <1>2, <2>2
      <3>3. Len(cur') \in Int /\ Len(spare') \in Int /\ Len(fifo_uart_rx_data') \in Int
        BY <2>3
      <3> HIDE DEF IInv
      <3>4. free' + (Len(cur') + Len(spare') + Len(fifo_uart_rx_data') + Len(handling))
              = (free' + Len(cur') + Len(spare') + Len(fifo_uart_rx_data')) + Len(handling)
        BY <3>2, <3>3, Regroup, SMTT(30)
      <3> QED
        BY <3>1, <3>4
    <2>6. free + Receiving
            = (free + Len(cur) + Len(spare) + Len(fifo_uart_rx_data)) + Len(handling)
      BY <2>2 DEF Receiving
    <2>1. free' + Receiving' = free + Receiving /\ Receiving' \in Int
      BY <1>2, <2>4, <2>5, <2>6
    <2> QED
      BY <1>1, <1>2, <2>1, ReceivingKeepsBlocks
  <1>9. OneRestart'
    BY <1>1 DEF OneRestart
  <1>10. OneStranded'
    BY <1>1 DEF OneStranded, output, One
  <1> QED
    BY <1>3, <1>4, <1>5, <1>6, <1>7, <1>8, <1>9, <1>10

\* The receiver is on again with a new buffer, or off with a retry.
LEMMA RxDisabledIInv == IInv /\ RxDisabled => IInv'
  <1> SUFFICES ASSUME IInv, RxDisabled
               PROVE  IInv'
    OBVIOUS
  <1> USE DEF IInv
  <1>1. /\ Len(cur) = 0 /\ Len(spare) = 0 /\ disable_req' = FALSE
        /\ rx = "stopping" /\ ~ uart_work
        /\ UNCHANGED <<spare, input, output>>
    BY DEF RxDisabled, Stopped, NoBuffer, OneRestart, FlagAfter
  <1>2. /\ free' \in Int /\ free' >= 0
        /\ cur' \in Seq(Buffer) /\ Len(cur') <= 1
        /\ free' + Len(cur') = free
        /\ \/ rx' = "on" /\ Len(cur') = 1 /\ asked' = FALSE /\ uart_work' = FALSE
           \/ rx' = "off" /\ Len(cur') = 0 /\ uart_work' = TRUE /\ UNCHANGED asked
    <2>1. CASE free > 0 /\ Enable /\ uart_work' = FALSE
      <3>1. cur' \in Seq(Buffer) /\ Len(cur') = 1
        BY <2>1, EmptyBuffer DEF Enable
      <3> QED
        BY <2>1, <3>1 DEF Enable, Counted
    <2>2. CASE /\ rx' = "off" /\ uart_work' = TRUE
               /\ UNCHANGED <<cur, free, asked>>
      BY <1>1, <2>2 DEF Counted, Buffers
    <2>3. CASE Allocates
      <3>1. Enable /\ uart_work' = FALSE /\ free > 0
        BY <2>3 DEF RxDisabled, RetryFirst, Allocates
      <3> QED
        BY <2>1, <3>1
    <2>4. CASE ~ Allocates
      <3>1. rx' = "off" /\ uart_work' = TRUE /\ UNCHANGED <<cur, free, asked>>
        BY <2>4 DEF RxDisabled, RetryFirst
      <3> QED
        BY <2>2, <3>1
    <2> QED
      BY <2>3, <2>4
  <1>3. Counted'
    BY <1>2 DEF Counted
  <1>4. Buffers'
    BY <1>1, <1>2 DEF Buffers, input
  <1>5. Simple'
    BY <1>1, <1>2, Zenon DEF Simple, output
  <1>6. Numbers'
    BY <1>1 DEF Numbers, input, output
  <1>7. Reception'
    BY <1>1, <1>2 DEF Reception
  <1>8. BlocksAccounted'
    <2>1. free' + Receiving' = free + Receiving /\ Receiving' \in Int
      BY <1>1, <1>2, <1>4 DEF Receiving, input, Counted, Buffers
    <2> QED
      BY <1>1, <1>2, <2>1, ReceivingKeepsBlocks
  <1>9. OneRestart'
    BY <1>1, <1>2 DEF OneRestart
  <1>10. OneStranded'
    BY <1>1 DEF OneStranded, output, One
  <1> QED
    BY <1>3, <1>4, <1>5, <1>6, <1>7, <1>8, <1>9, <1>10

\* A step that changes nothing, and a retry without memory is one.
LEMMA StutterIInv == IInv /\ UNCHANGED vars => IInv'
  <1> SUFFICES ASSUME IInv, UNCHANGED vars
               PROVE  IInv'
    OBVIOUS
  <1>1. UNCHANGED <<receiver, input, output, free>>
    BY DEF vars, receiver, input, output
  <1>2. /\ Counted' /\ Buffers' /\ Numbers' /\ Reception'
        /\ OneRestart' /\ OneStranded'
    BY <1>1 DEF IInv, Counted, Buffers, Numbers, Reception, OneRestart,
                OneStranded, One, receiver, input, output
  <1>3. Simple'
    BY <1>1, Zenon DEF IInv, Simple, receiver, output
  <1>4. BlocksAccounted'
    BY <1>1 DEF IInv, BlocksAccounted, Receiving, Sending, One, receiver, input,
                output
  <1> QED
    BY <1>2, <1>3, <1>4 DEF IInv

\* A retry finds the receiver off.
LEMMA UartWorkIInv == IInv /\ UartWork => IInv'
  <1> SUFFICES ASSUME IInv, UartWork
               PROVE  IInv'
    OBVIOUS
  <1> USE DEF IInv
  <1>1. rx = "off" /\ Len(cur) = 0 /\ Len(spare) = 0 /\ ~ disable_req
    BY DEF UartWork, OneRestart, Reception
  <1>2. CASE ~ Allocates
    <2>1. UNCHANGED vars
      BY <1>1, <1>2 DEF UartWork, RetryAgain, vars, input, output
    <2> QED
      BY <2>1, StutterIInv
  <1>3. CASE Allocates
    <2>1. /\ uart_work' = FALSE /\ free > 0 /\ Enable
          /\ UNCHANGED <<spare, disable_req, input, output>>
      BY <1>1, <1>3 DEF UartWork, RetryAgain, Allocates
    <2>2. cur' \in Seq(Buffer) /\ Len(cur') = 1
      BY <2>1, EmptyBuffer DEF Enable
    <2>3. Counted'
      BY <2>1 DEF Counted, Enable
    <2>4. Buffers'
      BY <2>1, <2>2 DEF Buffers, input
    <2>5. Simple'
      BY <2>1, Zenon DEF Simple, Enable, output
    <2>6. Numbers'
      BY <2>1 DEF Numbers, input, output
    <2>7. Reception'
      BY <1>1, <2>1, <2>2 DEF Reception, Enable
    <2>8. BlocksAccounted'
      <3>1. /\ free' + Receiving' = free + Receiving
            /\ free' \in Int /\ Receiving' \in Int
        BY <1>1, <2>1, <2>2, <2>4 DEF Enable, Receiving, input, Counted, Buffers
      <3> QED
        BY <2>1, <3>1, ReceivingKeepsBlocks
    <2>9. OneRestart'
      BY <1>1, <2>1 DEF OneRestart, Enable
    <2>10. OneStranded'
      BY <2>1 DEF OneStranded, output, One
    <2> QED
      BY <2>3, <2>4, <2>5, <2>6, <2>7, <2>8, <2>9, <2>10
  <1> QED
    BY <1>2, <1>3

\* The main loop takes a buffer out of the fifo and frees it.
LEMMA MainIInv == IInv /\ (MainGet \/ MainFree) => IInv'
  <1> SUFFICES ASSUME IInv, MainGet \/ MainFree
               PROVE  IInv'
    OBVIOUS
  <1> USE DEF IInv
  <1>1. UNCHANGED <<receiver, arrived, heard, output>>
    BY DEF MainGet, MainFree
  <1>2. /\ free' \in Int /\ free' >= 0
        /\ handling' \in Seq(Buffer) /\ Len(handling') <= 1
        /\ fifo_uart_rx_data' \in Seq(Buffer)
        /\ seen' \in Seq(1..MaxChunks)
        /\ free' + Receiving' = free + Receiving /\ Receiving' \in Int
    <2>1. CASE MainGet
      <3>1. /\ Len(handling) = 0 /\ UNCHANGED free
            /\ fifo_uart_rx_data # <<>>
            /\ handling' = <<Head(fifo_uart_rx_data)>>
            /\ fifo_uart_rx_data' = Tail(fifo_uart_rx_data)
            /\ seen' = seen \o Head(fifo_uart_rx_data).data
        BY <2>1 DEF MainGet, NoBuffer
      <3>2. /\ Head(fifo_uart_rx_data) \in Buffer
            /\ Tail(fifo_uart_rx_data) \in Seq(Buffer)
            /\ Len(Tail(fifo_uart_rx_data)) = Len(fifo_uart_rx_data) - 1
        BY <3>1 DEF Buffers
      <3>3. handling' \in Seq(Buffer) /\ Len(handling') = 1
        BY <3>1, <3>2
      <3>4. seen' \in Seq(1..MaxChunks)
        <4>1. Head(fifo_uart_rx_data).data \in Seq(1..MaxChunks)
          BY <3>2 DEF Buffer
        <4> QED
          BY <3>1, <4>1 DEF Numbers
      <3>5. Receiving' = Receiving /\ Receiving \in Int
        <4>1. Len(cur') = Len(cur) /\ Len(spare') = Len(spare)
          BY <1>1 DEF receiver
        <4>2. /\ Len(cur) \in Nat /\ Len(spare) \in Nat
              /\ Len(fifo_uart_rx_data) \in Nat
              /\ Len(fifo_uart_rx_data') = Len(fifo_uart_rx_data) - 1
          BY <3>1, <3>2 DEF Buffers
        <4> QED
          BY <3>1, <3>3, <4>1, <4>2 DEF Receiving
      <3> QED
        BY <3>1, <3>2, <3>3, <3>4, <3>5 DEF Counted
    <2>2. CASE MainFree
      <3>1. /\ Len(handling) = 1
            /\ handling' = <<>> /\ free' = free + 1
            /\ UNCHANGED <<fifo_uart_rx_data, seen, cur, spare>>
        BY <2>2, TheBuffer DEF MainFree, NoBuffer, Buffers, receiver
      <3>2. handling' \in Seq(Buffer) /\ Len(handling') = 0
        BY <3>1
      <3>3. Receiving' = Receiving - 1 /\ Receiving \in Int
        <4>1. /\ Len(cur) \in Nat /\ Len(spare) \in Nat
              /\ Len(fifo_uart_rx_data) \in Nat
          BY DEF Buffers
        <4> QED
          BY <3>1, <3>2, <4>1 DEF Receiving
      <3> QED
        BY <3>1, <3>2, <3>3 DEF Counted, Buffers, Numbers
    <2> QED
      BY <2>1, <2>2
  <1>3. Counted'
    BY <1>2 DEF Counted
  <1>4. Buffers'
    BY <1>1, <1>2 DEF Buffers, receiver
  <1>5. Simple'
    BY <1>1, Zenon DEF Simple, receiver, output
  <1>6. Numbers'
    BY <1>1, <1>2 DEF Numbers, output
  <1>7. Reception'
    BY <1>1 DEF Reception, receiver
  <1>8. BlocksAccounted'
    BY <1>1, <1>2, ReceivingKeepsBlocks
  <1>9. OneRestart'
    BY <1>1 DEF OneRestart, receiver
  <1>10. OneStranded'
    BY <1>1 DEF OneStranded, output, One
  <1> QED
    BY <1>3, <1>4, <1>5, <1>6, <1>7, <1>8, <1>9, <1>10

-----------------------------------------------------------------------------
(***************************************************************************)
(* The steps of the transmitter.                                           *)
(***************************************************************************)
Transmit == BleReceived \/ UartTx \/ TxPut \/ TxDone

\* What the transmitter's steps do to its own variables.
LEMMA TransmitTyped ==
    ASSUME IInv, Transmit
    PROVE  /\ UNCHANGED <<receiver, input>>
           /\ Numbers' /\ ble' \in {"idle", "try", "put"}
           /\ free' \in Int /\ free' >= 0
           /\ free' + Sending' = free + Sending
           /\ OneStranded'
  <1> USE DEF IInv
  <1>1. /\ arrived \in 0..MaxChunks /\ heard \subseteq 1..arrived
        /\ seen \in Seq(1..MaxChunks)
    BY DEF Numbers
  <1>2. /\ free \in Int /\ free >= 0 /\ Len(fifo_uart_tx_data) \in Nat
    BY DEF Counted, Numbers
  <1>3. CASE BleReceived
    <2>1. /\ ble = "idle" /\ frames < MaxFrames /\ frames' = frames + 1
          /\ \/ free > 0 /\ free' = free - 1 /\ ble' = "try"
             \/ free = 0 /\ UNCHANGED <<free, ble>>
          /\ UNCHANGED <<receiver, input, tx, fifo_uart_tx_data, transmitted>>
      BY <1>3 DEF BleReceived
    <2>2. Numbers'
      BY <1>1, <2>1, UartAssumption DEF Numbers, input
    <2>3. free' + Sending' = free + Sending /\ free' \in Int /\ free' >= 0
      BY <1>2, <2>1 DEF Sending, One
    <2>4. OneStranded'
      BY <2>1 DEF OneStranded, One
    <2> QED
      BY <2>1, <2>2, <2>3, <2>4
  <1>4. CASE UartTx
    <2>1. /\ ble = "try"
          /\ \/ tx = NoFrame /\ tx' = frames /\ ble' = "idle"
             \/ tx # NoFrame /\ ble' = "put" /\ UNCHANGED tx
          /\ UNCHANGED <<free, receiver, input, frames, fifo_uart_tx_data, transmitted>>
      BY <1>4 DEF UartTx
    <2>2. frames > 0 /\ frames \in 0..MaxFrames
      BY <2>1 DEF Numbers
    <2>3. Numbers'
      BY <1>1, <2>1, <2>2 DEF Numbers, input
    <2>4. Sending' = Sending
      BY <1>2, <2>1, <2>2 DEF Sending, One, NoFrame
    <2>5. OneStranded'
      BY <2>1, <2>2 DEF OneStranded, One, NoFrame
    <2> QED
      BY <1>2, <2>1, <2>3, <2>4, <2>5
  <1>5. CASE TxPut
    <2>1. /\ ble = "put" /\ ble' = "idle"
          /\ fifo_uart_tx_data' = Append(fifo_uart_tx_data, frames)
          /\ UNCHANGED <<free, receiver, input, frames, tx, transmitted>>
      BY <1>5 DEF TxPut
    <2>2. frames \in 1..MaxFrames
      BY <2>1, UartAssumption DEF Numbers
    <2>3. /\ fifo_uart_tx_data' \in Seq(1..MaxFrames)
          /\ Len(fifo_uart_tx_data') = Len(fifo_uart_tx_data) + 1
      BY <2>1, <2>2 DEF Numbers
    <2>4. Numbers'
      BY <1>1, <2>1, <2>2, <2>3 DEF Numbers, input
    <2>5. Sending' = Sending
      BY <1>2, <2>1, <2>3 DEF Sending, One
    <2>6. OneStranded'
      BY <1>2, <2>1, <2>3 DEF OneStranded, One
    <2> QED
      BY <1>2, <2>1, <2>4, <2>5, <2>6
  <1>6. CASE TxDone
    <2>1. /\ tx # NoFrame /\ transmitted' = Append(transmitted, tx)
          /\ free' = free + 1
          /\ UNCHANGED <<receiver, input, frames, ble>>
      BY <1>6 DEF TxDone
    <2>2. tx \in 1..MaxFrames
      BY <2>1, UartAssumption DEF Numbers, NoFrame
    <2>3. transmitted' \in Seq(1..MaxFrames)
      BY <2>1, <2>2 DEF Numbers
    <2>4. CASE /\ Fetches /\ tx' = Head(fifo_uart_tx_data)
               /\ fifo_uart_tx_data' = Tail(fifo_uart_tx_data)
      <3>1. /\ tx' \in 1..MaxFrames
            /\ fifo_uart_tx_data' \in Seq(1..MaxFrames)
            /\ Len(fifo_uart_tx_data') = Len(fifo_uart_tx_data) - 1
        <4>1. fifo_uart_tx_data \in Seq(1..MaxFrames) /\ fifo_uart_tx_data # <<>>
          BY <2>4 DEF Numbers, Fetches
        <4>2. /\ Head(fifo_uart_tx_data) \in 1..MaxFrames
              /\ Tail(fifo_uart_tx_data) \in Seq(1..MaxFrames)
              /\ Len(Tail(fifo_uart_tx_data)) = Len(fifo_uart_tx_data) - 1
          BY <4>1, HeadAndTail
        <4> QED
          BY <2>4, <4>2
      <3>2. Numbers'
        BY <1>1, <2>1, <2>3, <3>1 DEF Numbers, input
      <3>3. Sending' = Sending - 1 /\ Sending \in Int
        BY <1>2, <2>1, <3>1 DEF Sending, One, NoFrame
      <3>4. OneStranded'
        BY <3>1 DEF OneStranded, NoFrame
      <3> QED
        BY <1>2, <2>1, <3>2, <3>3, <3>4 DEF Simple
    <2>5. CASE ~ Fetches /\ tx' = NoFrame /\ UNCHANGED fifo_uart_tx_data
      <3>0. fifo_uart_tx_data = <<>>
        BY <2>5 DEF Fetches
      <3>1. Numbers'
        BY <1>1, <2>1, <2>3, <2>5, UartAssumption DEF Numbers, input, NoFrame
      <3>2. Sending' = Sending - 1 /\ Sending \in Int
        BY <1>2, <2>1, <2>5 DEF Sending, One, NoFrame
      <3>3. OneStranded'
        BY <2>1, <2>5, <3>0 DEF OneStranded, One
      <3> QED
        BY <1>2, <2>1, <3>1, <3>2, <3>3 DEF Simple
    <2> QED
      BY <1>6, <2>4, <2>5 DEF TxDone
  <1> QED
    BY <1>3, <1>4, <1>5, <1>6 DEF Transmit

\* The transmitter leaves the receiver alone.
LEMMA TransmitIInv == IInv /\ Transmit => IInv'
  <1> SUFFICES ASSUME IInv, Transmit
               PROVE  IInv'
    OBVIOUS
  <1> USE DEF IInv
  <1>1. /\ UNCHANGED <<receiver, input>> /\ free' + Sending' = free + Sending
        /\ free' \in Int /\ free' >= 0 /\ ble' \in {"idle", "try", "put"}
    BY TransmitTyped
  <1>2. Numbers' /\ OneStranded'
    BY TransmitTyped
  <1>3. Counted'
    BY <1>1 DEF Counted
  <1>4. Buffers'
    BY <1>1 DEF Buffers, receiver, input
  <1>5. Simple'
    BY <1>1, Zenon DEF Simple, receiver
  <1>6. Reception'
    BY <1>1 DEF Reception, receiver
  <1>7. BlocksAccounted'
    <2>1. Sending' \in Int
      BY <1>2 DEF Sending, Numbers, One
    <2> QED
      BY <1>1, <2>1, SendingKeepsBlocks
  <1>8. OneRestart'
    BY <1>1 DEF OneRestart, receiver
  <1> QED
    BY <1>2, <1>3, <1>4, <1>5, <1>6, <1>7, <1>8

-----------------------------------------------------------------------------
\* Every step keeps the invariant.
LEMMA NextIInv == IInv /\ [Next]_vars => IInv'
  <1> SUFFICES ASSUME IInv, [Next]_vars
               PROVE  IInv'
    OBVIOUS
  <1>1. CASE UNCHANGED vars
    BY <1>1, StutterIInv
  <1>2. CASE Next
    BY <1>2, BytesIInv, RxBufRequestIInv, RxBufReleasedIInv, RxDisabledIInv,
       UartWorkIInv, MainIInv, TransmitIInv
    DEF Next, Interrupts, Transmit
  <1> QED
    BY <1>1, <1>2

\* The invariant holds throughout every behaviour.
LEMMA Invariance == Spec => []IInv
  BY InitIInv, NextIInv, PTL DEF Spec

\* TypeCorrect: for every heap, the free blocks stay within it, also when
\* k_malloc fails, and every buffer holds what it should.
THEOREM TypeCorrect == Spec => []TypeOK
  BY Invariance, Typed, PTL

\* NoBlockLost: uart_cb, its retry, the Bluetooth thread and the main loop
\* neither lose a block of their heap nor free one twice.
THEOREM NoBlockLost == Spec => []BlocksAccounted
  <1>1. IInv => BlocksAccounted
    BY DEF IInv
  <1> QED
    BY <1>1, Invariance, PTL

\* RestartOnce: a retry is scheduled exactly while the receiver is off, and
\* disable_req is set exactly while it stops.
THEOREM RestartOnce == Spec => []OneRestart
  <1>1. IInv => OneRestart
    BY DEF IInv
  <1> QED
    BY <1>1, Invariance, PTL

-----------------------------------------------------------------------------
(***************************************************************************)
(* The order of the frames.  A frame joins the end of the line when        *)
(* uart_tx is refused.  When it is taken, the frame joins in front of what *)
(* waits, and then that is one frame which nothing has overtaken yet.      *)
(***************************************************************************)
Line == Out \o Waiting

\* No frame of the line is newer than the last notification, nor as new while
\* that one has yet to try.
LineKnown == \A n \in 1..Len(Line) :
    Line[n] <= frames /\ (ble = "try" => Line[n] < frames)

\* What waits while nothing is transmitted has been overtaken by nothing.
StrandedInOrder ==
    tx = NoFrame /\ Len(Waiting) = 1 =>
        \A n \in 1..Len(Line) : Line[n] <= Line[Len(Line)]

LInv == LineKnown /\ StrandedInOrder /\ OvertakenOnce

Frame == 1..MaxFrames

LEMMA LineTyped ==
    ASSUME IInv
    PROVE  /\ Out \in Seq(Frame) /\ Waiting \in Seq(Frame) /\ Line \in Seq(Frame)
           /\ Len(Waiting) = Len(fifo_uart_tx_data) + One(ble = "put")
           /\ tx = NoFrame => Len(Waiting) <= 1
<1>1. /\ transmitted \in Seq(Frame) /\ fifo_uart_tx_data \in Seq(Frame)
      /\ (tx # NoFrame => tx \in Frame) /\ (ble = "put" => frames \in Frame)
  BY UartAssumption DEF IInv, Numbers, Frame, NoFrame
<1>2. (IF tx = NoFrame THEN <<>> ELSE <<tx>>) \in Seq(Frame)
  BY <1>1
<1>3. /\ (IF ble = "put" THEN <<frames>> ELSE <<>>) \in Seq(Frame)
      /\ Len(IF ble = "put" THEN <<frames>> ELSE <<>>) = One(ble = "put")
  BY <1>1 DEF One
<1>4. Out \in Seq(Frame)
  BY <1>1, <1>2 DEF Out
<1>5. Waiting \in Seq(Frame) /\ Len(Waiting) = Len(fifo_uart_tx_data) + One(ble = "put")
  BY <1>1, <1>3 DEF Waiting
<1>6. Line \in Seq(Frame)
  BY <1>4, <1>5 DEF Line
<1>7. tx = NoFrame => Len(Waiting) <= 1
  BY <1>5 DEF IInv, OneStranded
<1> QED
  BY <1>4, <1>5, <1>6, <1>7

LEMMA InitLInv == Init => LInv
<1> SUFFICES ASSUME Init
             PROVE  LInv
  OBVIOUS
<1>1. Out = <<>> /\ Waiting = <<>>
  BY DEF Init, Out, Waiting
<1>2. Line = <<>> /\ Out \o Waiting = <<>>
  BY <1>1 DEF Line
<1>3. Len(Line) = 0 /\ DOMAIN (Out \o Waiting) = {}
  BY <1>2
<1> QED
  BY <1>3 DEF LInv, LineKnown, StrandedInOrder, OvertakenOnce

\* What a step does to the line.
LineKept == Line' = Line
LineAppends == /\ Len(Line') = Len(Line) + 1 /\ DOMAIN Line' = 1..Len(Line')
               /\ Line'[Len(Line')] = frames
               /\ \A n \in 1..Len(Line) : Line'[n] = Line[n]
LineInserts == /\ Len(Waiting) <= 1 /\ Len(Waiting') = Len(Waiting)
               /\ Len(Line') = Len(Line) + 1 /\ DOMAIN Line' = 1..Len(Line')
               /\ \A n \in 1..Len(Out) : Line'[n] = Line[n]
               /\ Line'[Len(Out) + 1] = frames
               /\ Len(Waiting) = 1 => Line'[Len(Line) + 1] = Line[Len(Line)]

\* uart_tx is refused: the frame is the last of the line.
LEMMA RefusedLine ==
    ASSUME IInv, UartTx, tx # NoFrame
    PROVE  LineAppends
<1>1. Out' = Out /\ Waiting = fifo_uart_tx_data \o <<>>
      /\ Waiting' = fifo_uart_tx_data \o <<frames>>
  BY DEF UartTx, Out, Waiting
<1>2. fifo_uart_tx_data \in Seq(Frame) /\ Out \in Seq(Frame) /\ frames \in Frame
  BY LineTyped, UartAssumption DEF IInv, Numbers, Frame, UartTx
<1>3. Waiting = fifo_uart_tx_data
  BY <1>1, <1>2
<1> DEFINE q == fifo_uart_tx_data
<1>4. Line = Out \o q /\ Line' = Out \o (q \o <<frames>>)
  BY <1>1, <1>3 DEF Line
<1> QED
  BY <1>2, <1>4 DEF LineAppends

\* uart_tx is taken: the frame overtakes what waits.
LEMMA TakenLine ==
    ASSUME IInv, UartTx, tx = NoFrame
    PROVE  LineInserts
<1>1. /\ Out = transmitted \o <<>> /\ Out' = transmitted \o <<frames>>
      /\ Waiting' = Waiting
  <2>1. frames # NoFrame
    BY DEF IInv, Numbers, UartTx, NoFrame
  <2> QED
    BY <2>1 DEF UartTx, Out, Waiting
<1>2. /\ transmitted \in Seq(Frame) /\ Waiting \in Seq(Frame) /\ frames \in Frame
      /\ Len(Waiting) <= 1
  BY LineTyped, UartAssumption DEF IInv, Numbers, Frame, UartTx
<1> DEFINE t == transmitted
           w == Waiting
<1>3. Out = t /\ Line = t \o w /\ Line' = (t \o <<frames>>) \o w
  BY <1>1, <1>2 DEF Line
<1>4. /\ Len(Line) = Len(t) + Len(w) /\ Len(Line') = Len(t) + 1 + Len(w)
      /\ \A n \in 1..Len(t) : Line'[n] = Line[n]
      /\ Line'[Len(t) + 1] = frames
      /\ \A n \in 1..Len(w) : /\ Line'[Len(t) + 1 + n] = w[n]
                              /\ Line[Len(t) + n] = w[n]
  BY <1>2, <1>3
<1>5. Len(w) = 1 => Line'[Len(Line) + 1] = Line[Len(Line)]
  BY <1>2, <1>4
<1>6. Len(Line') = Len(Line) + 1 /\ DOMAIN Line' = 1..Len(Line')
  BY <1>2, <1>3, <1>4
<1>7. \A n \in 1..Len(Out) : Line'[n] = Line[n]
  BY <1>3, <1>4
<1>8. Line'[Len(Out) + 1] = frames
  BY <1>3, <1>4
<1> HIDE DEF t, w
<1> QED
  BY <1>1, <1>2, <1>5, <1>6, <1>7, <1>8 DEF LineInserts, w

\* k_fifo_put and UART_TX_DONE leave the line as it is.
LEMMA OtherLine ==
    ASSUME IInv, Next, ~ UartTx
    PROVE  LineKept
<1>1. CASE TxPut
  <2>1. Out' = Out /\ Waiting = fifo_uart_tx_data \o <<frames>>
        /\ Waiting' = Append(fifo_uart_tx_data, frames) \o <<>>
    BY <1>1 DEF TxPut, Out, Waiting
  <2>2. fifo_uart_tx_data \in Seq(Frame) /\ frames \in Frame
    BY <1>1, UartAssumption DEF IInv, Numbers, Frame, TxPut
  <2>3. Waiting' = Waiting
    BY <2>1, <2>2
  <2> QED
    BY <2>1, <2>3 DEF LineKept, Line
<1>2. CASE TxDone
  <2>1. /\ Out = transmitted \o <<tx>>
        /\ transmitted' = Append(transmitted, tx) /\ UNCHANGED <<frames, ble>>
    BY <1>2 DEF TxDone, Out
  <2>2. /\ transmitted \in Seq(Frame) /\ tx \in Frame
        /\ fifo_uart_tx_data \in Seq(Frame)
    BY <1>2, UartAssumption DEF IInv, Numbers, Frame, TxDone, NoFrame
  <2>3. Out = transmitted' /\ transmitted' \in Seq(Frame)
    BY <2>1, <2>2
  <2>4. CASE ~ Fetches
    <3>1. Out' = transmitted' \o <<>> /\ Waiting' = Waiting
      BY <1>2, <2>1, <2>4 DEF TxDone, Out, Waiting
    <3>2. Out' = Out
      BY <2>3, <3>1
    <3> QED
      BY <3>1, <3>2 DEF LineKept, Line
  <2>5. CASE Fetches
    <3> DEFINE q == fifo_uart_tx_data
               rest == IF ble = "put" THEN <<frames>> ELSE <<>>
    <3>1. q # <<>> /\ Head(q) \in Frame /\ Tail(q) \in Seq(Frame)
      BY <2>2, <2>5, HeadAndTail DEF Fetches
    <3>2. Head(q) # NoFrame
      BY <3>1, UartAssumption DEF Frame, NoFrame
    <3>3. Out' = Out \o <<Head(q)>> /\ Waiting' = Tail(q) \o rest
      BY <1>2, <2>1, <2>3, <2>5, <3>2 DEF TxDone, Out, Waiting
    <3>4. rest \in Seq(Frame)
      <4>1. CASE ble = "put"
        <5>1. frames \in Frame
          BY <4>1, UartAssumption DEF IInv, Numbers, Frame
        <5> QED
          BY <4>1, <5>1
      <4>2. CASE ble # "put"
        BY <4>2
      <4> QED
        BY <4>1, <4>2
    <3>5. Out \in Seq(Frame) /\ q \in Seq(Frame)
      BY <2>2, <2>3
    <3>6. Line = Out \o (q \o rest)
      BY DEF Line, Waiting
    <3>7. Line' = (Out \o <<Head(q)>>) \o (Tail(q) \o rest)
      BY <3>3 DEF Line
    <3> HIDE DEF q, rest
    <3>8. q = <<Head(q)>> \o Tail(q)
      BY <3>1, <3>5
    <3> QED
      BY <3>1, <3>4, <3>5, <3>6, <3>7, <3>8, SMTT(30) DEF LineKept
  <2> QED
    BY <2>4, <2>5
<1>3. CASE BleReceived
  BY <1>3 DEF BleReceived, LineKept, Line, Out, Waiting
<1>4. CASE ~ TxPut /\ ~ TxDone /\ ~ BleReceived
  <2>1. UNCHANGED output
    BY <1>4 DEF Next, Bytes, RxRdy, RxRdyIgnored, Chunk, ChunkLost, RxBufRequest,
       Interrupts, RxBufReleased, RxDisabled, UartWork, MainGet, MainFree
  <2> QED
    BY <2>1 DEF output, LineKept, Line, Out, Waiting
<1> QED
  BY <1>1, <1>2, <1>3, <1>4

\* Numbers of frames are integers.
LEMMA LineNumbers ==
    ASSUME IInv
    PROVE  /\ Len(Line) \in Nat /\ Len(Out) \in Nat /\ Len(Waiting) \in Nat
           /\ Len(Line) = Len(Out) + Len(Waiting)
           /\ \A n \in 1..Len(Line) : Line[n] \in Int
           /\ frames \in Int
<1>1. Out \in Seq(Frame) /\ Waiting \in Seq(Frame) /\ Line \in Seq(Frame)
  BY LineTyped
<1>2. \A n \in 1..Len(Line) : Line[n] \in Int
  BY <1>1, UartAssumption DEF Frame
<1>3. frames \in Int
  BY UartAssumption DEF IInv, Numbers
<1> QED
  BY <1>1, <1>2, <1>3 DEF Line

\* OvertakenOnce in terms of the line.
LEMMA OvertakenForm ==
    ASSUME IInv
    PROVE  OvertakenOnce <=>
              \A l, m, n \in 1..Len(Line) :
                 l < m /\ m < n => ~ (Line[l] > Line[n] /\ Line[m] > Line[n])
<1>1. DOMAIN (Out \o Waiting) = 1..Len(Line)
  BY LineTyped DEF Line
<1> QED
  BY <1>1 DEF OvertakenOnce, Line

LEMMA UartTxLInv ==
    ASSUME IInv, LInv, UartTx, IInv'
    PROVE  LInv'
<1>1. /\ Len(Line) \in Nat /\ Len(Out) \in Nat /\ Len(Waiting) \in Nat
      /\ Len(Line) = Len(Out) + Len(Waiting)
      /\ frames \in Int
      /\ \A n \in 1..Len(Line) : Line[n] \in Int /\ Line[n] < frames
  <2>1. \A n \in 1..Len(Line) : Line[n] < frames
    BY DEF UartTx, LInv, LineKnown
  <2> QED
    BY <2>1, LineNumbers
<1>2. \A l, m, n \in 1..Len(Line) :
         l < m /\ m < n => ~ (Line[l] > Line[n] /\ Line[m] > Line[n])
  BY OvertakenForm DEF LInv
<1>3. frames' = frames /\ ble' # "try"
  BY DEF UartTx
<1>4. CASE tx # NoFrame
  <2>1. LineAppends /\ tx' # NoFrame
    BY <1>4, RefusedLine DEF UartTx
  <2>2. \A n \in 1..Len(Line') : \/ n \in 1..Len(Line) /\ Line'[n] = Line[n]
                                 \/ n = Len(Line) + 1 /\ Line'[n] = frames
    BY <1>1, <2>1 DEF LineAppends
  <2>3. LineKnown'
    BY <1>1, <1>3, <2>2 DEF LineKnown
  <2>4. \A l, m, n \in 1..Len(Line') :
           l < m /\ m < n => ~ (Line'[l] > Line'[n] /\ Line'[m] > Line'[n])
    <3> SUFFICES ASSUME NEW l \in 1..Len(Line'), NEW m \in 1..Len(Line'),
                        NEW n \in 1..Len(Line'), l < m, m < n,
                        Line'[l] > Line'[n], Line'[m] > Line'[n]
                 PROVE  FALSE
      OBVIOUS
    <3>1. /\ l \in 1..Len(Line) /\ Line'[l] = Line[l]
          /\ m \in 1..Len(Line) /\ Line'[m] = Line[m]
      BY <1>1, <2>1, <2>2 DEF LineAppends
    <3>2. CASE n \in 1..Len(Line) /\ Line'[n] = Line[n]
      BY <1>2, <3>1, <3>2
    <3>3. CASE n = Len(Line) + 1 /\ Line'[n] = frames
      BY <1>1, <3>1, <3>3
    <3> QED
      BY <2>2, <3>2, <3>3
  <2>5. StrandedInOrder'
    BY <2>1 DEF StrandedInOrder
  <2>6. OvertakenOnce'
    <3>1. DOMAIN (Out' \o Waiting') = 1..Len(Line') /\ Line' = Out' \o Waiting'
      BY <2>1 DEF LineAppends, LineInserts, Line
    <3> QED
      BY <2>4, <3>1 DEF OvertakenOnce
  <2> QED
    BY <2>3, <2>5, <2>6 DEF LInv
<1>5. CASE tx = NoFrame
  <2>1. LineInserts /\ tx' # NoFrame
    <3>1. tx' = frames /\ frames # NoFrame
      BY <1>5 DEF UartTx, IInv, Numbers, NoFrame
    <3> QED
      BY <1>5, <3>1, TakenLine
  <2>2. \A n \in 1..Len(Line') :
           \/ n \in 1..Len(Out) /\ Line'[n] = Line[n] /\ n \in 1..Len(Line)
           \/ n = Len(Out) + 1 /\ Line'[n] = frames
           \/ /\ n = Len(Line) + 1 /\ Len(Waiting) = 1 /\ n = Len(Out) + 2
              /\ Len(Line) \in 1..Len(Line) /\ Line'[n] = Line[Len(Line)]
    BY <1>1, <2>1 DEF LineInserts
  <2>3. LineKnown'
    BY <1>1, <1>3, <2>2 DEF LineKnown
  <2>4. \A l, m, n \in 1..Len(Line') :
           l < m /\ m < n => ~ (Line'[l] > Line'[n] /\ Line'[m] > Line'[n])
    <3> SUFFICES ASSUME NEW l \in 1..Len(Line'), NEW m \in 1..Len(Line'),
                        NEW n \in 1..Len(Line'), l < m, m < n,
                        Line'[l] > Line'[n], Line'[m] > Line'[n]
                 PROVE  FALSE
      OBVIOUS
    <3>1. l \in 1..Len(Out) /\ Line'[l] = Line[l] /\ l \in 1..Len(Line)
      BY <1>1, <2>1, <2>2 DEF LineInserts
    <3>2. CASE n \in 1..Len(Out) /\ Line'[n] = Line[n]
      <4>1. m \in 1..Len(Out) /\ Line'[m] = Line[m]
        BY <1>1, <2>2, <3>2
      <4> QED
        BY <1>1, <1>2, <3>1, <3>2, <4>1
    <3>3. CASE n = Len(Out) + 1 /\ Line'[n] = frames
      BY <1>1, <3>1, <3>3
    <3>4. CASE /\ n = Len(Line) + 1 /\ Len(Waiting) = 1
               /\ Len(Line) \in 1..Len(Line) /\ Line'[n] = Line[Len(Line)]
      BY <1>1, <1>5, <3>1, <3>4 DEF LInv, StrandedInOrder
    <3> QED
      BY <2>2, <3>2, <3>3, <3>4
  <2>5. StrandedInOrder'
    BY <2>1 DEF StrandedInOrder
  <2>6. OvertakenOnce'
    <3>1. DOMAIN (Out' \o Waiting') = 1..Len(Line') /\ Line' = Out' \o Waiting'
      BY <2>1 DEF LineAppends, LineInserts, Line
    <3> QED
      BY <2>4, <3>1 DEF OvertakenOnce
  <2> QED
    BY <2>3, <2>5, <2>6 DEF LInv
<1> QED
  BY <1>4, <1>5

LEMMA OtherLInv ==
    ASSUME IInv, LInv, [Next]_vars, ~ UartTx, IInv'
    PROVE  LInv'
<1>1. Line' = Line
  BY OtherLine DEF LineKept, Line, Out, Waiting, vars
<1>2. /\ Len(Line) \in Nat /\ frames \in Int
      /\ \A n \in 1..Len(Line) : Line[n] \in Int
  BY LineNumbers
<1>3. \/ UNCHANGED <<frames, ble>>
      \/ frames' = frames + 1 /\ ble' \in {ble, "try"}
      \/ UNCHANGED frames /\ ble' = "idle"
  BY DEF Next, Bytes, RxRdy, RxRdyIgnored, Chunk, ChunkLost, RxBufRequest,
     Interrupts, RxBufReleased, RxDisabled, UartWork, MainGet, MainFree,
     BleReceived, TxPut, TxDone, output, vars
<1>4. LineKnown'
  BY <1>1, <1>2, <1>3 DEF LInv, LineKnown
<1>5. OvertakenOnce'
  <2>1. (Out \o Waiting)' = Out \o Waiting
    BY <1>1 DEF Line
  <2> QED
    BY <2>1 DEF LInv, OvertakenOnce
<1>6. StrandedInOrder'
  <2> SUFFICES ASSUME tx' = NoFrame, Len(Waiting') = 1, NEW n \in 1..Len(Line)
               PROVE  Line[n] <= Line[Len(Line)]
    BY <1>1 DEF StrandedInOrder
  <2>1. CASE TxDone /\ ~ Fetches
    <3>1. /\ tx # NoFrame /\ ~ Fetches /\ UNCHANGED <<frames, ble, fifo_uart_tx_data>>
      BY <2>1, UartAssumption DEF TxDone
    <3>2. Waiting = <<>> \o (IF ble = "put" THEN <<frames>> ELSE <<>>)
          /\ Waiting' = Waiting
      BY <3>1 DEF Waiting, Fetches
    <3>3. ble = "put" /\ Waiting = <<frames>>
      BY <3>2
    <3>4. Line[Len(Line)] = frames
      <4>1. Line = Out \o <<frames>> /\ Out \in Seq(Frame)
        BY <3>3, LineTyped DEF Line
      <4> QED
        BY <4>1
    <3> QED
      BY <3>4 DEF LInv, LineKnown
  <2>2. CASE ~ (TxDone /\ ~ Fetches)
    <3>1. tx = NoFrame
      <4>1. CASE TxDone /\ Fetches
        <5>1. tx' = Head(fifo_uart_tx_data) /\ fifo_uart_tx_data \in Seq(Frame)
          BY <4>1 DEF TxDone, IInv, Numbers, Frame
        <5>2. tx' \in Frame
          BY <4>1, <5>1, HeadAndTail DEF Fetches
        <5> QED
          BY <5>2, UartAssumption DEF Frame, NoFrame
      <4>2. CASE ~ TxDone
        BY <4>2 DEF Next, Bytes, RxRdy, RxRdyIgnored, Chunk, ChunkLost,
           RxBufRequest, Interrupts, RxBufReleased, RxDisabled, UartWork,
           MainGet, MainFree, BleReceived, TxPut, output, vars
      <4> QED
        BY <2>2, <4>1, <4>2
    <3>2. Len(Waiting) = 1
      <4>1. Waiting' = Waiting
        <5>1. CASE TxPut
          <6>1. /\ Waiting = fifo_uart_tx_data \o <<frames>>
                /\ Waiting' = Append(fifo_uart_tx_data, frames) \o <<>>
            BY <5>1 DEF TxPut, Waiting
          <6>2. fifo_uart_tx_data \in Seq(Frame) /\ frames \in Frame
            BY <5>1, UartAssumption DEF IInv, Numbers, Frame, TxPut
          <6> QED
            BY <6>1, <6>2
        <5>2. CASE BleReceived
          BY <5>2 DEF BleReceived, Waiting
        <5>3. CASE ~ TxPut /\ ~ BleReceived
          <6>1. UNCHANGED output
            BY <3>1, <5>3 DEF Next, Bytes, RxRdy, RxRdyIgnored, Chunk, ChunkLost,
               RxBufRequest, Interrupts, RxBufReleased, RxDisabled, UartWork,
               MainGet, MainFree, TxDone, output, vars
          <6> QED
            BY <6>1 DEF output, Waiting
        <5> QED
          BY <5>1, <5>2, <5>3
      <4> QED
        BY <4>1
    <3> QED
      BY <3>1, <3>2 DEF LInv, StrandedInOrder
  <2> QED
    BY <2>1, <2>2
<1> QED
  BY <1>4, <1>5, <1>6 DEF LInv

\* FramesInOrder: however often a transmission ends between uart_tx's refusal
\* and k_fifo_put, a frame is overtaken by one later frame at most.
THEOREM FramesInOrder == Spec => []OvertakenOnce
<1>1. IInv /\ LInv /\ [Next]_vars /\ IInv' => LInv'
  BY UartTxLInv, OtherLInv
<1>2. LInv => OvertakenOnce
  BY DEF LInv
<1> QED
  BY <1>1, <1>2, InitLInv, Invariance, PTL DEF Spec

-----------------------------------------------------------------------------
(***************************************************************************)
(* The order of the bursts.  A burst joins the end of the last part, the   *)
(* main loop joins the first two, and a part that a step adds is empty.    *)
(* No step takes one away: a released buffer that is freed is the spare    *)
(* one, because the UART_RX_RDY that counts is the first of its buffer.    *)
(***************************************************************************)
\* The facts about a list of parts, the bursts heard and those that came.
InOrder(p) == \A m, n \in DOMAIN p : \A i \in DOMAIN p[m], j \in DOMAIN p[n] :
    m < n \/ (m = n /\ i < j) => p[m][i] < p[n][j]
Holds(p, H) == \A c \in H : \E n \in DOMAIN p : \E i \in DOMAIN p[n] : p[n][i] = c
Known(p, a) == \A n \in DOMAIN p : \A i \in DOMAIN p[n] : p[n][i] <= a
Good(p, H, a) == InOrder(p) /\ Holds(p, H) /\ Known(p, a)

\* The buffer is new while the receiver is on and counts once it stops; the
\* spare one stays new.
BufferCounts == /\ rx = "on" => cur = <<Empty>>
                /\ rx = "stopping" /\ cur # NoBuffer => cur[1].len > 0
                /\ spare # NoBuffer => spare = <<Empty>>

HInv == Good(Parts, heard, arrived) /\ BufferCounts

\* A burst joins the end of the last part.
LEMMA GrowLast ==
    ASSUME NEW k \in Nat, NEW a \in Nat, NEW H, NEW p, NEW q,
           p \in [0..k -> Seq(Int)], Good(p, H, a),
           NEW b \in Int, b > a, NEW J, J \subseteq H \cup {b},
           DOMAIN q = 0..k, q[k] = Append(p[k], b),
           \A n \in 0..k : n # k => q[n] = p[n]
    PROVE  Good(q, J, b)
<1>1. /\ DOMAIN p = 0..k /\ DOMAIN q = 0..k
      /\ \A n \in 0..k : p[n] \in Seq(Int)
      /\ \A n \in 0..k : n # k => q[n] = p[n]
      /\ q[k] = Append(p[k], b)
  OBVIOUS
<1>2. \A n \in 0..k : DOMAIN p[n] = 1..Len(p[n]) /\ Len(p[n]) \in Nat
                      /\ \A i \in DOMAIN p[n] : p[n][i] \in Int
  BY <1>1
<1>3. /\ DOMAIN q[k] = 1..(Len(p[k]) + 1) /\ q[k][Len(p[k]) + 1] = b
      /\ \A i \in DOMAIN p[k] : i \in DOMAIN q[k] /\ q[k][i] = p[k][i]
  BY <1>1
<1>4. \A n \in 0..k : \A i \in DOMAIN q[n] :
         \/ i \in DOMAIN p[n] /\ q[n][i] = p[n][i]
         \/ n = k /\ i = Len(p[k]) + 1 /\ q[n][i] = b
  <2> SUFFICES ASSUME NEW n \in 0..k, NEW i \in DOMAIN q[n]
               PROVE  \/ i \in DOMAIN p[n] /\ q[n][i] = p[n][i]
                      \/ n = k /\ i = Len(p[k]) + 1 /\ q[n][i] = b
    OBVIOUS
  <2>1. CASE n # k
    BY <1>1, <2>1
  <2>2. CASE n = k
    <3>1. DOMAIN p[k] = 1..Len(p[k]) /\ Len(p[k]) \in Nat
      BY <1>2
    <3> QED
      BY <1>3, <2>2, <3>1
  <2> QED
    BY <2>1, <2>2
<1>5. \A n \in 0..k : \A i \in DOMAIN p[n] : p[n][i] <= a /\ p[n][i] < b
  <2> SUFFICES ASSUME NEW n \in 0..k, NEW i \in DOMAIN p[n]
               PROVE  p[n][i] <= a /\ p[n][i] < b
    OBVIOUS
  <2>1. p[n][i] <= a /\ p[n][i] \in Int
    BY <1>1, <1>2 DEF Good, Known
  <2> QED
    BY <2>1
<1>6. InOrder(q)
  <2> SUFFICES ASSUME NEW m \in 0..k, NEW n \in 0..k,
                      NEW i \in DOMAIN q[m], NEW j \in DOMAIN q[n],
                      m < n \/ (m = n /\ i < j)
               PROVE  q[m][i] < q[n][j]
    BY <1>1 DEF InOrder
  <2>1. i \in DOMAIN p[m] /\ q[m][i] = p[m][i]
    <3> SUFFICES ASSUME m = k, i = Len(p[k]) + 1
                 PROVE  FALSE
      BY <1>4
    <3>1. n = k /\ i < j
      OBVIOUS
    <3> QED
      BY <1>2, <1>3, <3>1
  <2>2. CASE j \in DOMAIN p[n] /\ q[n][j] = p[n][j]
    BY <1>1, <2>1, <2>2 DEF Good, InOrder
  <2>3. CASE q[n][j] = b
    BY <1>5, <2>1, <2>3
  <2> QED
    BY <1>4, <2>2, <2>3
<1>7. Holds(q, J)
  <2> SUFFICES ASSUME NEW c \in J
               PROVE  \E n \in 0..k : \E i \in DOMAIN q[n] : q[n][i] = c
    BY <1>1 DEF Holds
  <2>1. CASE c = b
    <3>1. k \in 0..k /\ Len(p[k]) + 1 \in DOMAIN q[k] /\ q[k][Len(p[k]) + 1] = c
      BY <1>2, <1>3, <2>1
    <3> QED
      BY <3>1
  <2>2. CASE c \in H
    <3>1. PICK n \in 0..k : \E i \in DOMAIN p[n] : p[n][i] = c
      BY <1>1, <2>2 DEF Good, Holds
    <3> QED
      BY <1>1, <1>3, <3>1
  <2> QED
    BY <2>1, <2>2
<1>8. Known(q, b)
  <2> SUFFICES ASSUME NEW n \in 0..k, NEW i \in DOMAIN q[n]
               PROVE  q[n][i] <= b
    BY <1>1 DEF Known
  <2>1. CASE i \in DOMAIN p[n] /\ q[n][i] = p[n][i]
    BY <1>2, <1>5, <2>1
  <2> QED
    BY <1>4, <2>1
<1> QED
  BY <1>6, <1>7, <1>8 DEF Good

\* An empty part is added.
LEMMA AddEmpty ==
    ASSUME NEW k \in Nat, NEW a, NEW H, NEW p, NEW q, NEW S,
           p \in [0..k -> Seq(S)], q \in [0..(k + 1) -> Seq(S)],
           \A n \in 0..k : q[n] = p[n], q[k + 1] = <<>>, Good(p, H, a)
    PROVE  Good(q, H, a)
<1>1. DOMAIN p = 0..k /\ DOMAIN q = 0..(k + 1) /\ DOMAIN q[k + 1] = {}
  OBVIOUS
<1>2. \A n \in DOMAIN q : \A i \in DOMAIN q[n] : n \in DOMAIN p /\ q[n] = p[n]
  BY <1>1
<1>3. \A n \in DOMAIN p : n \in DOMAIN q /\ q[n] = p[n]
  BY <1>1
<1>4. InOrder(q)
  BY <1>2 DEF Good, InOrder
<1>5. Holds(q, H)
  BY <1>3 DEF Good, Holds
<1>6. Known(q, a)
  BY <1>2 DEF Good, Known
<1> QED
  BY <1>4, <1>5, <1>6 DEF Good

LEMMA LenConcat ==
    ASSUME NEW S, NEW s \in Seq(S), NEW t \in Seq(S)
    PROVE  Len(s \o t) = Len(s) + Len(t) /\ Len(s) \in Nat /\ Len(t) \in Nat
  OBVIOUS

\* Where the elements of a concatenation are.
LEMMA Concatenated ==
    ASSUME NEW S, NEW s \in Seq(S), NEW t \in Seq(S)
    PROVE  /\ Len(s) \in Nat /\ Len(t) \in Nat
           /\ DOMAIN s = 1..Len(s) /\ DOMAIN t = 1..Len(t)
           /\ DOMAIN (s \o t) = 1..(Len(s) + Len(t))
           /\ \A i \in 1..Len(s) : (s \o t)[i] = s[i]
           /\ \A i \in 1..Len(t) : (s \o t)[Len(s) + i] = t[i]
  OBVIOUS

\* The first two parts become one.
LEMMA MergeFirst ==
    ASSUME NEW k \in Nat, NEW a, NEW H, NEW p, NEW q, NEW S,
           p \in [0..(k + 1) -> Seq(S)], q \in [0..k -> Seq(S)],
           q[0] = p[0] \o p[1], \A n \in 1..k : q[n] = p[n + 1], Good(p, H, a)
    PROVE  Good(q, H, a)
<1>1. /\ DOMAIN p = 0..(k + 1) /\ DOMAIN q = 0..k
      /\ p[0] \in Seq(S) /\ p[1] \in Seq(S)
  BY SMT
<1> DEFINE l == Len(p[0])
<1>2. /\ l \in Nat /\ Len(p[1]) \in Nat
      /\ DOMAIN p[0] = 1..l /\ DOMAIN p[1] = 1..Len(p[1])
      /\ DOMAIN q[0] = 1..(l + Len(p[1]))
      /\ \A i \in 1..l : q[0][i] = p[0][i]
      /\ \A i \in 1..Len(p[1]) : q[0][l + i] = p[1][i]
  <2> DEFINE s == p[0]
             t == p[1]
  <2>1. s \in Seq(S) /\ t \in Seq(S)
    BY <1>1
  <2>2. q[0] = s \o t
    OBVIOUS
  <2> HIDE DEF s, t
  <2>3. /\ Len(s) \in Nat /\ Len(t) \in Nat
        /\ DOMAIN s = 1..Len(s) /\ DOMAIN t = 1..Len(t)
        /\ DOMAIN q[0] = 1..(Len(s) + Len(t))
        /\ \A i \in 1..Len(s) : q[0][i] = s[i]
        /\ \A i \in 1..Len(t) : q[0][Len(s) + i] = t[i]
    BY <2>1, <2>2, Concatenated
  <2> QED
    BY <2>3 DEF s, t
<1> HIDE DEF l
<1>3. ASSUME NEW n \in 0..k, NEW i \in DOMAIN q[n]
      PROVE  \/ n = 0 /\ i \in DOMAIN p[0] /\ q[n][i] = p[0][i]
             \/ n = 0 /\ i - l \in DOMAIN p[1] /\ q[n][i] = p[1][i - l]
             \/ n > 0 /\ i \in DOMAIN p[n + 1] /\ q[n][i] = p[n + 1][i]
  <2>1. CASE n > 0
    BY <2>1
  <2>2. CASE n = 0 /\ i \in 1..l
    BY <1>2, <2>2
  <2>3. CASE n = 0 /\ ~ (i \in 1..l)
    <3>1. i \in 1..(l + Len(p[1]))
      BY <1>2, <2>3
    <3>2. i - l \in 1..Len(p[1]) /\ i = l + (i - l)
      BY <1>2, <2>3, <3>1
    <3>3. q[0][l + (i - l)] = p[1][i - l]
      BY <1>2, <3>2
    <3> QED
      BY <1>2, <2>3, <3>2, <3>3
  <2> QED
    BY <2>1, <2>2, <2>3
<1>4. InOrder(q)
  <2> SUFFICES ASSUME NEW m \in 0..k, NEW n \in 0..k,
                      NEW i \in DOMAIN q[m], NEW j \in DOMAIN q[n],
                      m < n \/ (m = n /\ i < j)
               PROVE  q[m][i] < q[n][j]
    BY <1>1 DEF InOrder
  <2>1. \A x, y \in 0..(k + 1) : \A u \in DOMAIN p[x], v \in DOMAIN p[y] :
           x < y \/ (x = y /\ u < v) => p[x][u] < p[y][v]
    BY <1>1 DEF Good, InOrder
  <2>2. 0 \in 0..(k + 1) /\ 1 \in 0..(k + 1)
        /\ (m > 0 => m + 1 \in 0..(k + 1)) /\ (n > 0 => n + 1 \in 0..(k + 1))
    OBVIOUS
  <2>3. CASE m > 0
    <3>1. n > 0
      BY <2>3
    <3>2. /\ i \in DOMAIN p[m + 1] /\ q[m][i] = p[m + 1][i]
          /\ j \in DOMAIN p[n + 1] /\ q[n][j] = p[n + 1][j]
      BY <1>3, <2>3, <3>1
    <3>3. m + 1 < n + 1 \/ (m + 1 = n + 1 /\ i < j)
      OBVIOUS
    <3> QED
      BY <2>1, <2>2, <2>3, <3>1, <3>2, <3>3
  <2>4. CASE m = 0 /\ n > 0
    <3>1. j \in DOMAIN p[n + 1] /\ q[n][j] = p[n + 1][j] /\ 1 < n + 1 /\ 0 < n + 1
      BY <1>3, <2>4
    <3>2. \/ i \in DOMAIN p[0] /\ q[m][i] = p[0][i]
          \/ i - l \in DOMAIN p[1] /\ q[m][i] = p[1][i - l]
      BY <1>3, <2>4
    <3> QED
      BY <2>1, <2>2, <2>4, <3>1, <3>2
  <2>5. CASE m = 0 /\ n = 0
    <3>1. i < j /\ i \in Int /\ j \in Int
      BY <1>2, <2>5
    <3>2. CASE i \in DOMAIN p[0] /\ q[m][i] = p[0][i]
      <4>1. \/ j \in DOMAIN p[0] /\ q[n][j] = p[0][j]
            \/ j - l \in DOMAIN p[1] /\ q[n][j] = p[1][j - l]
        BY <1>3, <2>5
      <4> QED
        BY <2>1, <2>2, <3>1, <3>2, <4>1, SMTT(30)
    <3>3. CASE i - l \in DOMAIN p[1] /\ q[m][i] = p[1][i - l]
      <4>1. ~ (j \in DOMAIN p[0])
        BY <1>2, <3>1, <3>3
      <4>2. j - l \in DOMAIN p[1] /\ q[n][j] = p[1][j - l]
        BY <1>3, <2>5, <4>1
      <4>3. i - l < j - l
        BY <1>2, <3>1
      <4> QED
        BY <2>1, <2>2, <3>3, <4>2, <4>3
    <3> QED
      BY <1>3, <2>5, <3>2, <3>3
  <2> QED
    BY <2>3, <2>4, <2>5
<1>5. Holds(q, H)
  <2> SUFFICES ASSUME NEW c \in H
               PROVE  \E n \in 0..k : \E i \in DOMAIN q[n] : q[n][i] = c
    BY <1>1 DEF Holds
  <2>1. PICK n \in 0..(k + 1) : \E i \in DOMAIN p[n] : p[n][i] = c
    BY <1>1 DEF Good, Holds
  <2>2. PICK i \in DOMAIN p[n] : p[n][i] = c
    BY <2>1
  <2>6. 0 \in 0..k
    OBVIOUS
  <2>3. CASE n = 0
    <3>1. i \in DOMAIN q[0] /\ q[0][i] = c
      BY <1>2, <2>2, <2>3
    <3> QED
      BY <2>6, <3>1
  <2>4. CASE n = 1
    <3>1. l + i \in DOMAIN q[0] /\ q[0][l + i] = c
      BY <1>2, <2>2, <2>4
    <3> QED
      BY <2>6, <3>1
  <2>5. CASE n > 1
    <3>1. n - 1 \in 1..k /\ q[n - 1] = p[n]
      BY <2>5
    <3> QED
      BY <2>2, <3>1
  <2> QED
    BY <2>3, <2>4, <2>5
<1>6. Known(q, a)
  <2> SUFFICES ASSUME NEW n \in 0..k, NEW i \in DOMAIN q[n]
               PROVE  q[n][i] <= a
    BY <1>1 DEF Known
  <2>1. \A x \in 0..(k + 1) : \A u \in DOMAIN p[x] : p[x][u] <= a
    BY <1>1 DEF Good, Known
  <2>2. CASE n > 0
    <3>1. n + 1 \in 0..(k + 1)
      OBVIOUS
    <3> QED
      BY <1>3, <2>1, <2>2, <3>1
  <2>3. CASE n = 0
    <3>1. 0 \in 0..(k + 1) /\ 1 \in 0..(k + 1)
      OBVIOUS
    <3>2. \/ i \in DOMAIN p[0] /\ q[n][i] = p[0][i]
          \/ i - l \in DOMAIN p[1] /\ q[n][i] = p[1][i - l]
      BY <1>3, <2>3
    <3> QED
      BY <2>1, <3>1, <3>2
  <2> QED
    BY <2>2, <2>3
<1> QED
  BY <1>4, <1>5, <1>6 DEF Good

\* More time has passed.
LEMMA LaterGood ==
    ASSUME NEW p, NEW H, NEW a \in Int, NEW b \in Int, a <= b,
           \A n \in DOMAIN p : \A i \in DOMAIN p[n] : p[n][i] \in Int,
           Good(p, H, a)
    PROVE  Good(p, H, b)
<1>1. Known(p, b)
  BY DEF Good, Known
<1> QED
  BY <1>1 DEF Good

\* What a buffer has.
LEMMA BufferFields ==
    ASSUME NEW b \in Buffer
    PROVE  b.data \in Seq(1..MaxChunks) /\ b.len \in Nat
  BY DEF Buffer

\* The last of a list.
LEMMA LastOf ==
    ASSUME NEW S, NEW q \in Seq(S), NEW c \in Seq(S), Len(c) = 1
    PROVE  /\ Len(q \o c) = Len(q) + 1 /\ Len(q) \in Nat
           /\ (q \o c)[Len(q) + 1] = c[1]
           /\ \A n \in 1..Len(q) : (q \o c)[n] = q[n]
<1>1. Len(q \o c) = Len(q) + Len(c) /\ Len(q) \in Nat
  BY LenConcat
<1>2. 1 \in 1..Len(c)
  OBVIOUS
<1> QED
  BY <1>1, <1>2, Concatenated

\* What comes after the first of a list.
LEMMA FirstOf ==
    ASSUME NEW S, NEW f \in Seq(S), NEW r \in Seq(S), Len(f) = 1
    PROVE  /\ Len(f \o r) = Len(r) + 1
           /\ (f \o r)[1] = f[1]
           /\ \A n \in 1..Len(r) : (f \o r)[n + 1] = r[n]
<1>1. Len(f \o r) = Len(f) + Len(r) /\ Len(f) \in Nat /\ Len(r) \in Nat
  BY LenConcat
<1>2. 1 \in 1..Len(f)
  OBVIOUS
<1>3. (f \o r)[1] = f[1]
  BY <1>2, Concatenated
<1>5. \A i \in 1..Len(r) : (f \o r)[Len(f) + i] = r[i]
  <2>1. \A s, u \in Seq(S) : \A i \in 1..Len(u) : (s \o u)[Len(s) + i] = u[i]
    BY Concatenated
  <2> QED
    BY <2>1, Zenon
<1>4. ASSUME NEW n \in 1..Len(r)
      PROVE  (f \o r)[n + 1] = r[n]
  <2>1. (f \o r)[Len(f) + n] = r[n]
    BY <1>5, Zenon
  <2>2. Len(f) + n = n + 1
    BY <1>1
  <2> QED
    BY <2>1, <2>2
<1> QED
  BY <1>1, <1>3, <1>4

\* The parts are sequences of bursts.
LEMMA PartsTyped ==
    ASSUME IInv
    PROVE  /\ Behind \in Seq(Buffer) /\ Len(Behind) \in Nat
           /\ Len(Behind) = Len(fifo_uart_rx_data) + Len(cur)
           /\ Parts \in [0..Len(Behind) -> Seq(1..MaxChunks)]
           /\ Parts \in [0..Len(Behind) -> Seq(Int)]
           /\ DOMAIN Parts = 0..Len(Behind)
           /\ \A n \in 0..Len(Behind) : \A i \in DOMAIN Parts[n] : Parts[n][i] \in Int
<1>1. Behind \in Seq(Buffer) /\ Len(Behind) = Len(fifo_uart_rx_data) + Len(cur)
  BY DEF IInv, Buffers, Behind
<1>2. \A n \in 1..Len(Behind) : Behind[n].data \in Seq(1..MaxChunks)
  <2>1. \A n \in 1..Len(Behind) : Behind[n] \in Buffer
    BY <1>1
  <2> QED
    BY <2>1, BufferFields
<1>3. seen \in Seq(1..MaxChunks)
  BY DEF IInv, Numbers
<1>4. Parts \in [0..Len(Behind) -> Seq(1..MaxChunks)]
  BY <1>1, <1>2, <1>3 DEF Parts
<1>5. \A s \in Seq(1..MaxChunks) : s \in Seq(Int) /\ \A i \in DOMAIN s : s[i] \in Int
  BY UartAssumption
<1>6. Parts \in [0..Len(Behind) -> Seq(Int)]
  BY <1>4, <1>5
<1> QED
  BY <1>1, <1>4, <1>5, <1>6, SMTT(30)

LEMMA InitHInv == Init => HInv
<1> SUFFICES ASSUME Init
             PROVE  HInv
  OBVIOUS
<1>1. fifo_uart_rx_data = <<>> /\ cur = <<Empty>> /\ seen = <<>> /\ heard = {}
      /\ rx = "on" /\ spare = NoBuffer
  BY DEF Init
<1>2. Behind = <<Empty>>
  BY <1>1, EmptyBuffer DEF Behind
<1>3. Len(Behind) = 1 /\ Behind[1].data = <<>>
  BY <1>2 DEF Empty
<1>4. DOMAIN Parts = 0..1 /\ \A n \in DOMAIN Parts : Parts[n] = <<>>
  BY <1>1, <1>3 DEF Parts
<1>5. \A n \in DOMAIN Parts : DOMAIN Parts[n] = {}
  BY <1>4
<1>6. Good(Parts, heard, arrived)
  BY <1>1, <1>5 DEF Good, InOrder, Holds, Known
<1> QED
  BY <1>1, <1>6 DEF HInv, BufferCounts, NoBuffer

\* A step that leaves the parts alone.
LEMMA SameParts ==
    ASSUME IInv, HInv, UNCHANGED <<Behind, seen, heard, arrived>>
    PROVE  Good(Parts', heard', arrived')
<1>1. Parts' = Parts
  BY DEF Parts
<1> QED
  BY <1>1 DEF HInv

\* A burst arrives.
LEMMA BytesHInv ==
    ASSUME IInv, HInv, Bytes
    PROVE  HInv'
<1>1. arrived \in Nat /\ arrived' = arrived + 1 /\ UNCHANGED <<spare, seen, fifo_uart_rx_data>>
  BY UartAssumption DEF Bytes, RxRdy, RxRdyIgnored, Chunk, ChunkLost, receiver,
     IInv, Numbers
<1>2. CASE ChunkLost
  <2>1. UNCHANGED <<rx, cur, heard>>
    BY <1>2 DEF ChunkLost, receiver
  <2>2. Parts' = Parts
    BY <1>1, <2>1 DEF Parts, Behind
  <2>3. Good(Parts, heard, arrived')
    BY <1>1, LaterGood, PartsTyped DEF HInv
  <2> QED
    BY <1>1, <2>1, <2>2, <2>3 DEF HInv, BufferCounts
<1>3. CASE RxRdy \/ RxRdyIgnored
  <2>1. Len(cur) = 1 /\ cur \in Seq(Buffer) /\ cur[1] \in Buffer
    BY <1>3, TheBuffer DEF RxRdy, RxRdyIgnored, Chunk, IInv, Buffers
  <2>2. PICK x \in {0, 1} : /\ cur' = <<With(cur[1], arrived', x)>>
                            /\ RxRdy => x = 1
    BY <1>3 DEF RxRdy, RxRdyIgnored, Chunk
  <2>3. heard' \subseteq heard \cup {arrived'}
    BY <1>3 DEF RxRdy, RxRdyIgnored, Chunk
  <2> DEFINE k == Len(Behind)
             b == With(cur[1], arrived', x)
             q == fifo_uart_rx_data
  <2>4. b \in Buffer /\ b.data = Append(cur[1].data, arrived') /\ b.len = cur[1].len + x
    <3>1. arrived' \in 1..MaxChunks
      BY <1>1, <1>3, UartAssumption DEF RxRdy, RxRdyIgnored, Chunk, IInv, Numbers
    <3>2. b \in Buffer
      BY <2>1, <3>1, WithBuffer
    <3> QED
      BY <3>2 DEF With
  <2>5. q \in Seq(Buffer) /\ Behind = q \o cur /\ Behind' = q \o <<b>>
    BY <1>1, <2>2 DEF Behind, IInv, Buffers
  <2>6. cur' = <<b>>
    BY <2>2
  <2> HIDE DEF b, q
  <2>7. /\ k = Len(q) + 1 /\ Len(Behind') = k /\ k \in Nat /\ Len(q) \in Nat
        /\ Behind[k] = cur[1] /\ Behind'[k] = b
        /\ \A n \in 1..Len(q) : Behind'[n] = Behind[n]
    <3>1. /\ Len(Behind) = Len(q) + 1 /\ Len(q) \in Nat
          /\ Behind[Len(q) + 1] = cur[1]
          /\ \A n \in 1..Len(q) : Behind[n] = q[n]
      BY <2>1, <2>5, LastOf
    <3>2. <<b>> \in Seq(Buffer) /\ Len(<<b>>) = 1 /\ <<b>>[1] = b
      BY <2>4
    <3>3. /\ Len(Behind') = Len(q) + 1
          /\ Behind'[Len(q) + 1] = b
          /\ \A n \in 1..Len(q) : Behind'[n] = q[n]
      BY <2>5, <3>2, LastOf
    <3> QED
      BY <3>1, <3>3
  <2>8. /\ DOMAIN Parts' = 0..k /\ Parts'[k] = Append(Parts[k], arrived')
        /\ \A n \in 0..k : n # k => Parts'[n] = Parts[n]
    <3>1. Parts' = [n \in 0..k |-> IF n = 0 THEN seen ELSE Behind'[n].data]
      BY <1>1, <2>7 DEF Parts
    <3>2. k # 0 /\ \A n \in 0..k : n # k /\ n # 0 => n \in 1..Len(q)
      BY <2>7
    <3>3. Parts = [n \in 0..k |-> IF n = 0 THEN seen ELSE Behind[n].data]
      BY DEF Parts
    <3>4. Parts[k] = Behind[k].data /\ Parts'[k] = Behind'[k].data
      BY <2>7, <3>1, <3>2, <3>3
    <3>5. Parts'[k] = Append(Parts[k], arrived')
      BY <2>4, <2>7, <3>4
    <3>6. \A n \in 0..k : n # k => Parts'[n] = Parts[n]
      BY <2>7, <3>1, <3>2, <3>3
    <3> QED
      BY <3>1, <3>5, <3>6
  <2>9. Good(Parts', heard', arrived')
    <3>1. Parts \in [0..k -> Seq(Int)] /\ Good(Parts, heard, arrived)
      BY PartsTyped DEF HInv
    <3>2. arrived' \in Int /\ arrived' > arrived
      BY <1>1
    <3>3. k \in Nat
      BY <2>7
    <3> HIDE DEF k
    <3> QED
      BY <1>1, <2>3, <2>8, <3>1, <3>2, <3>3, GrowLast, ZenonT(60)
  <2>10. BufferCounts'
    <3>1. cur'[1].len = cur[1].len + x /\ cur[1].len \in Nat
      BY <2>1, <2>4, <2>6 DEF Buffer
    <3>2. rx' = "stopping" /\ (RxRdyIgnored => rx = "stopping")
      BY <1>3 DEF RxRdy, RxRdyIgnored, IInv, OneRestart
    <3>3. cur'[1].len > 0
      <4>1. CASE RxRdy
        BY <2>2, <3>1, <4>1
      <4>2. CASE RxRdyIgnored
        BY <2>1, <3>1, <3>2, <4>2, SMTT(30) DEF HInv, BufferCounts, NoBuffer
      <4> QED
        BY <1>3, <4>1, <4>2
    <3> QED
      BY <1>1, <3>2, <3>3 DEF HInv, BufferCounts
  <2> QED
    BY <2>9, <2>10 DEF HInv
<1> QED
  BY <1>2, <1>3 DEF Bytes

\* The spare buffer is allocated.
LEMMA RxBufRequestHInv ==
    ASSUME IInv, HInv, RxBufRequest
    PROVE  HInv'
<1>1. UNCHANGED <<Behind, seen, heard, arrived, rx, cur>>
  BY DEF RxBufRequest, input, Behind
<1>2. spare' = <<Empty>> \/ spare' = spare
  BY DEF RxBufRequest
<1>3. BufferCounts'
  BY <1>1, <1>2 DEF HInv, BufferCounts
<1>4. Good(Parts', heard', arrived')
  BY <1>1, SameParts
<1> QED
  BY <1>3, <1>4 DEF HInv

\* The buffer that was filled goes into the fifo and the spare one is freed.
LEMMA RxBufReleasedHInv ==
    ASSUME IInv, HInv, RxBufReleased
    PROVE  HInv'
<1>1. rx = "stopping" /\ UNCHANGED <<rx, seen, heard, arrived>>
  BY DEF RxBufReleased
<1>2. CASE cur # NoBuffer /\ Released(cur[1]) /\ cur' = NoBuffer /\ UNCHANGED spare
  <2>1. Len(cur) = 1 /\ cur \in Seq(Buffer) /\ cur[1] \in Buffer
        /\ fifo_uart_rx_data \in Seq(Buffer)
    BY <1>2, TheBuffer DEF IInv, Buffers
  <2>2. cur[1].len > 0
    BY <1>1, <1>2 DEF HInv, BufferCounts
  <2>3. fifo_uart_rx_data' = Append(fifo_uart_rx_data, cur[1])
    BY <1>2, <2>2 DEF Released
  <2>4. cur = <<cur[1]>>
    BY <2>1
  <2> DEFINE q == fifo_uart_rx_data
             b == cur[1]
  <2>5. Behind = q \o <<b>> /\ Behind' = Append(q, b) \o <<>>
    BY <1>2, <2>3, <2>4 DEF Behind, NoBuffer
  <2>6. Behind' = Behind
    <3>1. q \in Seq(Buffer) /\ b \in Buffer
      BY <2>1
    <3> HIDE DEF q, b
    <3> QED
      BY <2>5, <3>1
  <2>7. Good(Parts', heard', arrived')
    BY <1>1, <2>6, SameParts
  <2>8. BufferCounts'
    BY <1>1, <1>2 DEF HInv, BufferCounts
  <2> QED
    BY <2>7, <2>8 DEF HInv
<1>3. CASE /\ cur = NoBuffer /\ spare # NoBuffer
           /\ Released(spare[1]) /\ spare' = NoBuffer /\ UNCHANGED cur
  <2>1. spare[1].len = 0
    BY <1>3 DEF HInv, BufferCounts, Empty
  <2>2. UNCHANGED fifo_uart_rx_data
    BY <1>3, <2>1 DEF Released
  <2>3. Good(Parts', heard', arrived')
    <3>1. UNCHANGED Behind
      BY <1>3, <2>2 DEF Behind
    <3> QED
      BY <1>1, <3>1, SameParts
  <2>4. BufferCounts'
    BY <1>1, <1>3 DEF HInv, BufferCounts
  <2> QED
    BY <2>3, <2>4 DEF HInv
<1> QED
  BY <1>2, <1>3 DEF RxBufReleased

\* The receiver is on again: a new buffer is an empty part.
LEMMA EnableHInv ==
    ASSUME IInv, HInv, IInv', Enable, cur = NoBuffer,
           UNCHANGED <<fifo_uart_rx_data, seen, heard, arrived, spare>>
    PROVE  HInv'
<1>1. cur' = <<Empty>> /\ rx' = "on"
  BY DEF Enable
<1> DEFINE k == Len(Behind)
           q == fifo_uart_rx_data
<1>2. q \in Seq(Buffer) /\ q' = q
  BY DEF IInv, Buffers
<1>3. Behind = q \o <<>> /\ Behind' = q \o <<Empty>>
  BY <1>1 DEF Behind, NoBuffer
<1>4. <<Empty>> \in Seq(Buffer) /\ Len(<<Empty>>) = 1 /\ <<Empty>>[1] = Empty
  BY EmptyBuffer
<1> HIDE DEF q
<1>5. Behind = q
  BY <1>2, <1>3
<1>6. /\ Len(Behind') = k + 1 /\ k \in Nat /\ Behind'[k + 1] = Empty
      /\ \A n \in 1..k : Behind'[n] = Behind[n]
  BY <1>2, <1>3, <1>4, <1>5, LastOf
<1>7. /\ Parts' = [n \in 0..(k + 1) |-> IF n = 0 THEN seen ELSE Behind'[n].data]
      /\ Parts = [n \in 0..k |-> IF n = 0 THEN seen ELSE Behind[n].data]
  BY <1>6 DEF Parts
<1>8. Parts'[k + 1] = <<>>
  BY <1>6, <1>7 DEF Empty
<1>9. \A n \in 0..k : Parts'[n] = Parts[n]
  <2> SUFFICES ASSUME NEW n \in 0..k
               PROVE  Parts'[n] = Parts[n]
    OBVIOUS
  <2>1. n \in 0..(k + 1) /\ (n # 0 => Behind'[n] = Behind[n])
    BY <1>6
  <2> QED
    BY <1>7, <2>1
<1>10. /\ Parts \in [0..k -> Seq(1..MaxChunks)]
       /\ Parts' \in [0..(k + 1) -> Seq(1..MaxChunks)]
  <2>1. Parts \in [0..k -> Seq(1..MaxChunks)]
    BY PartsTyped
  <2>2. \A n \in 0..(k + 1) : Parts'[n] \in Seq(1..MaxChunks)
    <3> SUFFICES ASSUME NEW n \in 0..(k + 1)
                 PROVE  Parts'[n] \in Seq(1..MaxChunks)
      OBVIOUS
    <3>1. CASE n = k + 1
      <4>1. <<>> \in Seq(1..MaxChunks)
        OBVIOUS
      <4>2. Parts'[n] = <<>>
        BY <1>8, <3>1
      <4> QED
        BY <4>1, <4>2
    <3>2. CASE n \in 0..k
      BY <1>9, <2>1, <3>2
    <3> QED
      BY <1>6, <3>1, <3>2
  <2> QED
    BY <1>7, <2>1, <2>2
<1>11. Good(Parts', heard', arrived')
  <2>1. Good(Parts, heard, arrived) /\ heard' = heard /\ arrived' = arrived /\ k \in Nat
    BY <1>6 DEF HInv
  <2> HIDE DEF k
  <2> QED
    BY <1>8, <1>9, <1>10, <2>1, AddEmpty
<1>12. BufferCounts'
  BY <1>1 DEF HInv, BufferCounts
<1> QED
  BY <1>11, <1>12 DEF HInv

LEMMA RestartHInv ==
    ASSUME IInv, HInv, IInv', RxDisabled \/ UartWork
    PROVE  HInv'
<1>1. /\ cur = NoBuffer
      /\ UNCHANGED <<fifo_uart_rx_data, seen, heard, arrived, spare>>
  <2>1. CASE RxDisabled
    BY <2>1 DEF RxDisabled, Stopped, input
  <2>2. CASE UartWork
    <3>1. rx = "off" /\ Len(cur) = 0 /\ cur \in Seq(Buffer)
      BY <2>2 DEF UartWork, IInv, OneRestart, Reception, Buffers
    <3>2. cur = <<>>
      BY <3>1
    <3> QED
      BY <2>2, <3>2 DEF UartWork, input, NoBuffer
  <2> QED
    BY <2>1, <2>2
<1>2. Enable \/ (UNCHANGED cur /\ rx' # "on")
  <2>1. CASE RxDisabled
    BY <2>1 DEF RxDisabled
  <2>2. CASE UartWork
    BY <2>2 DEF UartWork, IInv, OneRestart
  <2> QED
    BY <2>1, <2>2
<1>3. CASE Enable
  BY <1>1, <1>3, EnableHInv
<1>4. CASE UNCHANGED cur /\ rx' # "on"
  <2>1. UNCHANGED Behind
    BY <1>1, <1>4 DEF Behind
  <2>2. Good(Parts', heard', arrived')
    BY <1>1, <2>1, SameParts
  <2>3. BufferCounts'
    BY <1>1, <1>4 DEF HInv, BufferCounts
  <2> QED
    BY <2>2, <2>3 DEF HInv
<1> QED
  BY <1>2, <1>3, <1>4

\* The main loop takes a buffer: the first two parts become one.
LEMMA MainHInv ==
    ASSUME IInv, HInv, IInv', MainGet
    PROVE  HInv'
<1> DEFINE q == fifo_uart_rx_data
           h == Head(q)
           t == Tail(q)
           k == Len(t) + Len(cur)
<1>1. /\ q # <<>> /\ seen' = seen \o h.data /\ fifo_uart_rx_data' = t
      /\ UNCHANGED <<heard, arrived, cur, rx, spare>>
  BY DEF MainGet, receiver
<1>2. q \in Seq(Buffer) /\ cur \in Seq(Buffer) /\ seen \in Seq(1..MaxChunks)
  BY DEF IInv, Buffers, Numbers
<1>3. h \in Buffer /\ t \in Seq(Buffer) /\ q = <<h>> \o t
  BY <1>1, <1>2, HeadAndTail
<1>4. Behind = (<<h>> \o t) \o cur /\ Behind' = t \o cur
  BY <1>1, <1>3 DEF Behind
<1> HIDE DEF q, h, t
<1>5. /\ k \in Nat /\ Len(Behind') = k /\ Len(Behind) = k + 1
      /\ Behind[1] = h /\ \A n \in 1..k : Behind'[n] = Behind[n + 1]
  <2>1. Behind = <<h>> \o (t \o cur)
    BY <1>2, <1>3, <1>4
  <2>2. t \o cur \in Seq(Buffer) /\ Len(t \o cur) = k /\ k \in Nat
    BY <1>2, <1>3
  <2>3. <<h>> \in Seq(Buffer) /\ Len(<<h>>) = 1 /\ <<h>>[1] = h
    BY <1>3
  <2> DEFINE r == t \o cur
             f == <<h>>
  <2>4. Behind = f \o r /\ Behind' = r /\ f \in Seq(Buffer) /\ r \in Seq(Buffer)
        /\ Len(f) = 1 /\ f[1] = h /\ Len(r) = k /\ k \in Nat
    BY <1>4, <2>1, <2>2, <2>3
  <2> HIDE DEF r, f, k
  <2>5. /\ Len(f \o r) = Len(r) + 1 /\ (f \o r)[1] = f[1]
        /\ \A n \in 1..Len(r) : (f \o r)[n + 1] = r[n]
    BY <2>4, FirstOf, SMTT(30)
  <2> QED
    BY <2>4, <2>5
<1> HIDE DEF k
<1>6. /\ Parts' = [n \in 0..k |-> IF n = 0 THEN seen' ELSE Behind'[n].data]
      /\ Parts = [n \in 0..(k + 1) |-> IF n = 0 THEN seen ELSE Behind[n].data]
  BY <1>5 DEF Parts
<1>7. Parts'[0] = Parts[0] \o Parts[1]
  <2>1. Parts[0] = seen /\ Parts[1] = h.data /\ Parts'[0] = seen'
    BY <1>5, <1>6
  <2> QED
    BY <1>1, <2>1 DEF h
<1>8. \A n \in 1..k : Parts'[n] = Parts[n + 1]
  <2> SUFFICES ASSUME NEW n \in 1..k
               PROVE  Parts'[n] = Parts[n + 1]
    OBVIOUS
  <2>1. n \in 0..k /\ n # 0 /\ n + 1 \in 0..(k + 1) /\ n + 1 # 0
    BY <1>5
  <2>2. Behind'[n] = Behind[n + 1]
    BY <1>5
  <2> QED
    BY <1>6, <2>1, <2>2
<1>9. /\ Parts \in [0..(k + 1) -> Seq(1..MaxChunks)]
      /\ Parts' \in [0..k -> Seq(1..MaxChunks)]
  <2>1. Parts \in [0..(k + 1) -> Seq(1..MaxChunks)]
    BY <1>5, PartsTyped
  <2>2. seen' \in Seq(1..MaxChunks)
    BY DEF IInv, Numbers
  <2>3. \A n \in 0..k : Parts'[n] \in Seq(1..MaxChunks)
    <3> SUFFICES ASSUME NEW n \in 0..k
                 PROVE  Parts'[n] \in Seq(1..MaxChunks)
      OBVIOUS
    <3>1. CASE n = 0
      BY <1>6, <2>2, <3>1
    <3>2. CASE n # 0
      <4>1. n \in 1..k /\ n + 1 \in 0..(k + 1)
        BY <1>5, <3>2
      <4> QED
        BY <1>8, <2>1, <4>1
    <3> QED
      BY <3>1, <3>2
  <2> QED
    BY <1>6, <2>1, <2>3
<1>10. Good(Parts', heard', arrived')
  <2>1. Good(Parts, heard, arrived) /\ heard' = heard /\ arrived' = arrived /\ k \in Nat
    BY <1>1, <1>5 DEF HInv
  <2> QED
    BY <1>7, <1>8, <1>9, <2>1, MergeFirst
<1>11. BufferCounts'
  BY <1>1 DEF HInv, BufferCounts
<1> QED
  BY <1>10, <1>11 DEF HInv

LEMMA NextHInv == IInv /\ HInv /\ [Next]_vars /\ IInv' => HInv'
<1> SUFFICES ASSUME IInv, HInv, [Next]_vars, IInv'
             PROVE  HInv'
  OBVIOUS
<1>1. CASE UNCHANGED <<fifo_uart_rx_data, cur, seen, heard, arrived, rx, spare>>
  <2>1. Good(Parts', heard', arrived')
    BY <1>1, SameParts DEF Behind
  <2> QED
    BY <1>1, <2>1 DEF HInv, BufferCounts
<1>2. CASE Bytes \/ RxBufRequest \/ RxBufReleased \/ RxDisabled \/ UartWork \/ MainGet
  BY <1>2, BytesHInv, RxBufRequestHInv, RxBufReleasedHInv, RestartHInv, MainHInv
<1>3. CASE MainFree \/ Transmit \/ UNCHANGED vars
  <2>1. UNCHANGED <<fifo_uart_rx_data, cur, seen, heard, arrived, rx, spare>>
    BY <1>3 DEF MainFree, Transmit, BleReceived, UartTx, TxPut, TxDone, receiver,
       input, vars
  <2> QED
    BY <1>1, <2>1
<1> QED
  BY <1>2, <1>3 DEF Next, Interrupts, Transmit

\* HeardStaysInOrder: for every heap, what came while the receiver was on is
\* with the main loop or on its way there, in order, also when uart_cb had no
\* memory for a spare buffer or the receiver was off in between.
THEOREM HeardStaysInOrder == Spec => []HeardInOrder
<1>1. HInv => HeardInOrder
  BY DEF HInv, Good, InOrder, Holds, HeardInOrder
<1> QED
  BY <1>1, InitHInv, NextHInv, Invariance, PTL DEF Spec
=============================================================================
