------------------------- MODULE CommandUplink_proofs ------------------------
(***************************************************************************)
(* Proofs about the gateway's main loop, for every sequence of buffers and *)
(* every number of attempts.                                               *)
(***************************************************************************)
EXTENDS CommandUplink, TLAPS

\* Where the index stands: on a command while one is being written, and the
\* flag k is only set for a command that has been handed over.
OnCommand ==
    /\ pc \in {"take", "sleep"} => i < Len(buf)
    /\ pc = "take" /\ k => buf[i + 1] \in handed
    /\ pc = "sleep" => tries <= MaxTries

\* The inductive invariant.
IInv == TypeOK /\ OnCommand /\ PassedWereHanded

\* Commands are numbers, and what a block still holds of them stays a token.
LEMMA TokensClosed ==
    /\ Commands \subseteq Nat \ {0}
    /\ Commands \subseteq Tokens
    /\ \A c \in Tokens : Stale(c) \in Tokens
  <1>1. Commands \subseteq Nat \ {0}
    <2>1. \A n \in 1..Len(Input) : ToSet(Input[n]) \subseteq Nat \ {0}
      BY UplinkAssumption DEF ToSet
    <2> QED
      BY <2>1 DEF Commands
  <1>2. Commands \subseteq Tokens
    BY <1>1 DEF Tokens
  <1>3. \A c \in Tokens : Stale(c) \in Tokens
    BY <1>1 DEF Tokens, Stale
  <1> QED
    BY <1>1, <1>2, <1>3

\* Tokens are integers, and remains are not positive.
LEMMA TokenInt == Tokens \subseteq Int /\ \A c \in Int : Stale(c) <= 0
<1>2. Tokens \subseteq Int
  BY DEF Tokens
<1>3. \A c \in Int : Stale(c) <= 0
  BY DEF Stale
<1> QED
  BY <1>2, <1>3

\* A buffer that arrives holds commands.
LEMMA InputTyped ==
    ASSUME NEW n \in 1..Len(Input)
    PROVE  Input[n] \in Seq(Tokens)
  <1>1. Input[n] \in Seq(Nat \ {0})
    BY UplinkAssumption
  <1>2. ToSet(Input[n]) \subseteq Commands
    BY DEF Commands
  <1>3. \A j \in 1..Len(Input[n]) : Input[n][j] \in ToSet(Input[n])
    BY <1>1 DEF ToSet
  <1>4. \A j \in 1..Len(Input[n]) : Input[n][j] \in Tokens
    BY <1>2, <1>3, TokensClosed
  <1> QED
    BY <1>1, <1>4

\* A filled buffer holds what arrived, then the remains of its block.
LEMMA FilledTyped ==
    ASSUME NEW new \in Seq(Tokens), NEW old \in Seq(Tokens)
    PROVE  /\ Filled(new, old) \in Seq(Tokens)
           /\ \A j \in 1..Len(Filled(new, old)) : Filled(new, old)[j] > 0 =>
                 j <= Len(new) /\ Filled(new, old)[j] = new[j]
  <1> DEFINE n == Len(old) - Len(new)
             rest == [j \in 1..n |-> Stale(old[Len(new) + j])]
  <1>1. n \in Int
    OBVIOUS
  <1>2. \A j \in 1..n : Stale(old[Len(new) + j]) \in Tokens
    <2> SUFFICES ASSUME NEW j \in 1..n
                 PROVE  Stale(old[Len(new) + j]) \in Tokens
      OBVIOUS
    <2>1. Len(new) + j \in 1..Len(old)
      BY <1>1
    <2>2. old[Len(new) + j] \in Tokens
      BY <2>1
    <2> QED
      BY <2>2, TokensClosed
  <1>3. rest \in Seq(Tokens)
    <2>1. CASE n \in Nat
      BY <2>1, <1>2
    <2>2. CASE n \notin Nat
      <3>1. 1..n = 1..0
        BY <1>1, <2>2
      <3>2. rest \in [1..0 -> Tokens]
        BY <3>1, <1>2
      <3> QED
        BY <3>2, SMTT(30)
    <2> QED
      BY <2>1, <2>2
  <1>4. Filled(new, old) = new \o rest
    BY DEF Filled
  <1>5. DOMAIN rest = 1..n /\ \A j \in 1..n : rest[j] = Stale(old[Len(new) + j])
    OBVIOUS
  <1>8. \A j \in 1..n : Len(new) + j \in 1..Len(old)
    BY <1>1
  <1> HIDE DEF rest, n
  <1>9. \A j \in 1..Len(rest) : rest[j] \in Int /\ rest[j] <= 0
    <2> SUFFICES ASSUME NEW j \in 1..Len(rest)
                 PROVE  rest[j] \in Int /\ rest[j] <= 0
      OBVIOUS
    <2>1. rest[j] \in Tokens /\ j \in DOMAIN rest
      BY <1>3
    <2>2. old[Len(new) + j] \in Tokens
      BY <2>1, <1>5, <1>8
    <2> QED
      BY <2>1, <2>2, <1>5, TokenInt
  <1>6. \A j \in 1..Len(new \o rest) :
           \/ j <= Len(new) /\ (new \o rest)[j] = new[j]
           \/ j - Len(new) \in 1..Len(rest) /\ (new \o rest)[j] = rest[j - Len(new)]
    BY <1>3
  <1>7. \A j \in 1..Len(new \o rest) : (new \o rest)[j] > 0 =>
           j <= Len(new) /\ (new \o rest)[j] = new[j]
    BY <1>6, <1>9
  <1> QED
    BY <1>3, <1>4, <1>7

\* Recycled blocks hold tokens.
LEMMA RecycledTyped == Recycled \subseteq Seq(Tokens)
<1>1. {z \in Int : z <= 0} \subseteq Tokens
  BY DEF Tokens
<1>2. \A S, T : S \subseteq T => Seq(S) \subseteq Seq(T)
  OBVIOUS
<1> QED
  BY <1>1, <1>2, UplinkAssumption

\* The beginning of a sequence with another last element.
LEMMA CutTyped ==
    ASSUME NEW S, NEW s \in Seq(S), NEW n \in 1..Len(s), NEW c \in S
    PROVE  /\ Append(SubSeq(s, 1, n - 1), c) \in Seq(S)
           /\ Len(Append(SubSeq(s, 1, n - 1), c)) = n
           /\ Append(SubSeq(s, 1, n - 1), c)[n] = c
           /\ \A j \in 1..(n - 1) : Append(SubSeq(s, 1, n - 1), c)[j] = s[j]
<1> DEFINE first == SubSeq(s, 1, n - 1)
<1>1. /\ first \in Seq(S) /\ Len(first) = n - 1
      /\ \A j \in 1..(n - 1) : first[j] = s[j]
  OBVIOUS
<1> HIDE DEF first
<1>2. /\ Append(first, c) \in Seq(S) /\ Len(Append(first, c)) = n
      /\ Append(first, c)[n] = c
      /\ \A j \in 1..(n - 1) : Append(first, c)[j] = first[j]
  BY <1>1
<1> QED
  BY <1>1, <1>2 DEF first

\* What is received of a burst, cut short or not: its commands up to some
\* place, and there perhaps something that is none of them.
LEMMA ReceivedTyped ==
    ASSUME NEW m \in 1..Len(Input), NEW old \in Seq(Tokens),
           NEW burst \in Received(Input[m], old)
    PROVE  /\ burst \in Seq(Tokens)
           /\ Len(burst) <= Len(Input[m])
           /\ \A j \in 1..Len(burst) : burst[j] > 0 => burst[j] = Input[m][j]
<1>1. Input[m] \in Seq(Tokens) /\ Len(Input[m]) \in Nat
  BY InputTyped
<1>2. CASE burst = Input[m]
  BY <1>1, <1>2
<1>3. CASE burst # Input[m]
  <2>0. PICK n \in 1..Len(Input[m]) : \E c \in Completed(n, old) :
           burst = Append(SubSeq(Input[m], 1, n - 1), c)
    BY <1>3 DEF Received
  <2>1. PICK c \in Completed(n, old) : burst = Append(SubSeq(Input[m], 1, n - 1), c)
    BY <2>0
  <2>2. c \in Tokens /\ ~ (c > 0)
    <3>1. CASE c = 0
      BY <3>1 DEF Tokens
    <3>2. CASE c # 0
      <4>1. PICK j \in DOMAIN old : c = Stale(old[j])
        BY <2>1, <3>2 DEF Completed
      <4>2. old[j] \in Tokens /\ old[j] \in Int
        <5>1. old \in Seq(Tokens) /\ j \in 1..Len(old)
          BY <4>1
        <5>2. old[j] \in Tokens
          BY <5>1
        <5> QED
          BY <5>2, TokenInt
      <4>3. c \in Tokens /\ c \in Int /\ c <= 0
        BY <4>1, <4>2, TokensClosed, TokenInt
      <4> QED
        BY <4>3
    <3> QED
      BY <3>1, <3>2
  <2>3. /\ burst \in Seq(Tokens) /\ Len(burst) = n /\ burst[n] = c
        /\ \A j \in 1..(n - 1) : burst[j] = Input[m][j]
    BY <1>1, <2>1, <2>2, CutTyped
  <2>4. \A j \in 1..Len(burst) : j = n \/ j \in 1..(n - 1)
    BY <2>3
  <2> QED
    BY <1>1, <2>2, <2>3, <2>4
<1> QED
  BY <1>2, <1>3

\* The empty sequence is a sequence of anything.
LEMMA EmptySeq == \A S : <<>> \in Seq(S) /\ Len(<<>>) = 0
  OBVIOUS

\* The main loop starts in the invariant.
LEMMA InitIInv == Init => IInv
<1> SUFFICES ASSUME Init
             PROVE  IInv
  OBVIOUS
<1>1. /\ arrived \in 0..Len(Input)
      /\ tries \in 0..MaxTries
  BY UplinkAssumption DEF Init
<1>2. /\ rx \in Seq(Tokens) /\ freed \subseteq Seq(Tokens)
      /\ fifo_uart_rx_data \in Seq(Seq(Tokens))
      /\ buf \in Seq(Tokens) /\ received \in Seq(Tokens)
      /\ pending \in Seq(Tokens) /\ Len(pending) <= 1
  BY EmptySeq, RecycledTyped DEF Init
<1>3. i \in 0..Len(buf)
  BY EmptySeq DEF Init
<1>5. TypeOK
  BY <1>1, <1>2, <1>3 DEF Init, TypeOK
<1>4. OnCommand /\ PassedWereHanded
  BY DEF Init, OnCommand, PassedWereHanded
<1> QED
  BY <1>4, <1>5 DEF IInv

\* The next block holds tokens, if there is one.
LEMMA NextBufferTyped ==
    ASSUME IInv, NextBuffer
    PROVE  receiving' \in BOOLEAN /\ rx' \in Seq(Tokens) /\ freed' \subseteq Seq(Tokens)
BY RecycledTyped, EmptySeq DEF IInv, TypeOK, NextBuffer

\* A buffer arrives: the remains of its block join what was received.
LEMMA UartPutIInv == IInv /\ UartPut => IInv'
<1> SUFFICES ASSUME IInv, UartPut
             PROVE  IInv'
  OBVIOUS
<1>1. arrived' \in 1..Len(Input) /\ arrived' \in 0..Len(Input)
  BY UplinkAssumption DEF IInv, TypeOK, UartPut
<1>2. PICK burst \in Received(Input[arrived'], rx) :
         /\ fifo_uart_rx_data' = Append(fifo_uart_rx_data, Filled(burst, rx))
         /\ faulty' = (faulty \/ burst # Input[arrived'])
  BY DEF UartPut
<1>3. Filled(burst, rx) \in Seq(Tokens)
  BY <1>1, ReceivedTyped, FilledTyped DEF IInv, TypeOK
<1>4. fifo_uart_rx_data' \in Seq(Seq(Tokens)) /\ faulty' \in BOOLEAN
  BY <1>2, <1>3 DEF IInv, TypeOK
<1>5. receiving' \in BOOLEAN /\ rx' \in Seq(Tokens) /\ freed' \subseteq Seq(Tokens)
  BY NextBufferTyped DEF UartPut
<1>6. UNCHANGED <<loop, nus_write_sem, link, handed>>
  BY DEF UartPut
<1> QED
  BY <1>1, <1>4, <1>5, <1>6
  DEF IInv, TypeOK, OnCommand, PassedWereHanded, loop, link

\* A lost burst leaves nothing; the receiver comes back with some block.
LEMMA ReceiverIInv == IInv /\ (UartLost \/ UartWork) => IInv'
<1> SUFFICES ASSUME IInv, UartLost \/ UartWork
             PROVE  IInv'
  OBVIOUS
<1>1. receiving' \in BOOLEAN /\ rx' \in Seq(Tokens) /\ freed' \subseteq Seq(Tokens)
  BY NextBufferTyped DEF IInv, TypeOK, UartLost, UartWork, queue
<1>2. faulty' \in BOOLEAN
  BY DEF IInv, TypeOK, UartLost, UartWork
<1>3. UNCHANGED <<arrived, fifo_uart_rx_data, loop, nus_write_sem, link, handed>>
  BY DEF UartLost, UartWork, queue
<1> QED
  BY <1>1, <1>2, <1>3
  DEF IInv, TypeOK, OnCommand, PassedWereHanded, loop, link

\* The main loop: the index stays on a command until that command is handed
\* over, and a token moves it only then.
LEMMA MainLoopIInv == IInv /\ MainLoop => IInv'
<1> SUFFICES ASSUME IInv, MainLoop
             PROVE  IInv'
  OBVIOUS
<1> USE UplinkAssumption DEF IInv, TypeOK, OnCommand, PassedWereHanded, queue,
        link, FirstTries, Attempts, Send, Passed, Kept
<1>1. CASE Get
  BY <1>1, SMTT(30) DEF Get
<1>2. CASE SendAccepted
  <2>1. buf[i + 1] \in Tokens
    BY <1>2 DEF SendAccepted, MoreToDo
  <2>2. pending' \in Seq(Tokens) /\ Len(pending') = 1
    BY <1>2, <2>1 DEF SendAccepted
  <2>3. tries' \in 0..MaxTries
    BY <1>2 DEF SendAccepted, MoreToDo
  <2>4. handed' \subseteq Tokens
    BY <1>2, <2>1 DEF SendAccepted
  <2>5. TypeOK'
    <3>1. pc' = "take" /\ k' \in BOOLEAN /\ delivered' \in BOOLEAN
      BY <1>2 DEF SendAccepted
    <3>2. Len(pending') <= 1
      BY <2>2
    <3> QED
      BY <1>2, <2>2, <2>3, <2>4, <3>1, <3>2 DEF SendAccepted
  <2>6. OnCommand'
    BY <1>2 DEF SendAccepted, MoreToDo
  <2>7. PassedWereHanded'
    BY <1>2 DEF SendAccepted
  <2> QED
    BY <2>5, <2>6, <2>7
<1>3. CASE SendFailed
  <2>1. tries' \in 0..MaxTries
    BY <1>3 DEF SendFailed, MoreToDo
  <2> QED
    BY <1>3, <2>1 DEF SendFailed, MoreToDo
<1>4. CASE Take
  <2>1. i' \in 0..Len(buf)
    BY <1>4 DEF Take
  <2>2. \A j \in 1..i' : buf[j] \in handed
    BY <1>4 DEF Take
  <2> QED
    BY <1>4, <2>1, <2>2 DEF Take
<1>5. CASE Timeout
  BY <1>5 DEF Timeout
<1>6. CASE Slept
  BY <1>6 DEF Slept
<1>7. CASE Free
  <2>1. freed' \subseteq Seq(Tokens)
    BY <1>7 DEF Free
  <2>2. buf' \in Seq(Tokens) /\ i' = 0 /\ i' \in 0..Len(buf')
    BY <1>7, EmptySeq DEF Free
  <2>3. TypeOK'
    BY <1>7, <2>1, <2>2 DEF Free
  <2>4. OnCommand' /\ PassedWereHanded'
    BY <1>7, <2>2 DEF Free
  <2> QED
    BY <2>3, <2>4
<1> QED
  BY <1>1, <1>2, <1>3, <1>4, <1>5, <1>6, <1>7 DEF MainLoop

\* The link never touches the main loop's variables, only its semaphore.
LEMMA LinkIInv == IInv /\ (Radio \/ AttError \/ Disconnect \/ Connect) => IInv'
<1> SUFFICES ASSUME IInv, Radio \/ AttError \/ Disconnect \/ Connect
             PROVE  IInv'
  OBVIOUS
<1>1. received' \in Seq(Tokens)
  <2>1. CASE RobotReceives
    BY <2>1 DEF IInv, TypeOK, RobotReceives
  <2>2. CASE ~ RobotReceives
    BY <2>2 DEF IInv, TypeOK, Radio, Acknowledged, AttError, Disconnect, Connect
  <2> QED
    BY <2>1, <2>2
<1>2. /\ pending' \in Seq(Tokens) /\ Len(pending') <= 1
      /\ delivered' \in BOOLEAN
      /\ linked' \in BOOLEAN
      /\ nus_write_sem' \in {0, 1}
      /\ faulty' \in BOOLEAN
  <2> USE DEF IInv, TypeOK
  <2>1. CASE RobotReceives
    BY <2>1 DEF RobotReceives
  <2>2. CASE Acknowledged \/ AttError
    <3>1. pending' = <<>> /\ delivered' = FALSE /\ nus_write_sem' = 1
      BY <2>2 DEF Acknowledged, AttError, WriteOver
    <3>2. linked' = linked /\ faulty' \in BOOLEAN
      BY <2>2 DEF Acknowledged, AttError
    <3>3. pending' \in Seq(Tokens) /\ Len(pending') <= 1
      BY <3>1, EmptySeq
    <3>4. delivered' \in BOOLEAN
      BY <3>1
    <3> QED
      BY <3>1, <3>2, <3>3, <3>4
  <2>3. CASE Disconnect
    <3>1. /\ pending' = <<>> \/ pending' = pending
          /\ delivered' = FALSE \/ delivered' = delivered
          /\ nus_write_sem' = 1 \/ nus_write_sem' = nus_write_sem
      BY <2>3 DEF Disconnect, WriteOver
    <3>2. linked' = FALSE /\ faulty' = TRUE
      BY <2>3 DEF Disconnect
    <3>3. pending' \in Seq(Tokens) /\ Len(pending') <= 1
      <4>1. CASE pending' = <<>>
        BY <4>1, EmptySeq
      <4>2. CASE pending' = pending
        BY <4>2
      <4> QED
        BY <3>1, <4>1, <4>2
    <3>4. delivered' \in BOOLEAN
      BY <3>1
    <3> QED
      BY <3>1, <3>2, <3>3, <3>4
  <2>4. CASE Connect
    BY <2>4 DEF Connect
  <2> QED
    BY <2>1, <2>2, <2>3, <2>4 DEF Radio
<1>3. UNCHANGED <<queue, loop, handed>>
  BY DEF Radio, RobotReceives, Acknowledged, AttError, Disconnect, Connect
<1> QED
  BY <1>1, <1>2, <1>3
  DEF IInv, TypeOK, OnCommand, PassedWereHanded, queue, loop

\* Every step keeps the invariant.
LEMMA NextIInv == IInv /\ [Next]_vars => IInv'
<1> SUFFICES ASSUME IInv, [Next]_vars
             PROVE  IInv'
  OBVIOUS
<1>1. CASE UNCHANGED vars
  BY <1>1 DEF IInv, TypeOK, OnCommand, PassedWereHanded, vars
<1> QED
  BY <1>1, UartPutIInv, ReceiverIInv, MainLoopIInv, LinkIInv DEF Next, Uart

-----------------------------------------------------------------------------
(***************************************************************************)
(* The order of commands.  The line is what the robot got and, after it,   *)
(* a write it may yet get: a step shortens it or an accepted write joins.  *)
(***************************************************************************)
Line == received \o (IF delivered THEN <<>> ELSE pending)

\* The buffers taken from the fifo so far; the last one is the loop's.
Taken == arrived - Len(fifo_uart_rx_data)

\* The commands of a buffer that are not remains are those of an input.
HoldsInput(b, m) ==
    \A j \in 1..Len(b) : b[j] > 0 => j <= Len(Input[m]) /\ b[j] = Input[m][j]

Buffers ==
    /\ Taken \in 0..arrived
    /\ \A n \in 1..Len(fifo_uart_rx_data) :
          HoldsInput(fifo_uart_rx_data[n], Taken + n)
    /\ pc # "get" => Taken > 0 /\ HoldsInput(buf, Taken)

\* A command in the line stands in a buffer the loop has taken, and in its
\* present one not behind the index.
LineIsPast ==
    \A n \in 1..Len(Line) : Line[n] > 0 =>
        \E m \in 1..Taken : \E a \in 1..Len(Input[m]) :
            /\ Line[n] = Input[m][a]
            /\ m = Taken /\ pc # "get" => a <= i + 1

LineInOrder ==
    \A m, n \in 1..Len(Line) :
        m < n /\ Line[m] > 0 /\ Line[n] > 0 => Line[m] <= Line[n]

\* The index is on a command of the line.
Copy(n) == n \in 1..Len(Line) /\ pc # "get" /\ i < Len(buf) /\ buf[i + 1] > 0
           /\ Line[n] = buf[i + 1]

\* Where attempts go: after a timeout the next write is accepted only when the
\* answer to the last one has come, and then its token is there, which the
\* accepted write takes at once or a failed one uses up an attempt for.
AttemptsSpent ==
    /\ pc = "take" /\ k => pending # <<>> \/ nus_write_sem = 1
    /\ \A n \in 1..Len(Line) : Copy(n) =>
          /\ tries >= 1
          /\ pc # "take" => pending # <<>> \/ nus_write_sem = 1 \/ tries >= 2
          /\ pc = "take" /\ ~ k => tries >= 2
    /\ \A m, n \in 1..Len(Line) : m < n /\ Copy(m) /\ Copy(n) =>
          tries >= 3 \/ (pc = "take" /\ k /\ nus_write_sem = 1)

NoThird ==
    MaxTries <= 3 =>
        \A l, m, n \in 1..Len(Line) :
            l < m /\ m < n /\ Line[l] = Line[m] /\ Line[m] = Line[n] => Line[n] <= 0

OInv == Buffers /\ LineIsPast /\ LineInOrder /\ AttemptsSpent /\ NoThird

LEMMA LineTyped == TypeOK => Line \in Seq(Tokens)
<1> SUFFICES ASSUME TypeOK
             PROVE  Line \in Seq(Tokens)
  OBVIOUS
<1>1. (IF delivered THEN <<>> ELSE pending) \in Seq(Tokens)
  BY EmptySeq DEF TypeOK
<1>2. received \in Seq(Tokens)
  BY DEF TypeOK
<1> HIDE DEF TypeOK
<1> QED
  BY <1>1, <1>2 DEF Line

LEMMA InitOInv == Init => OInv
<1> SUFFICES ASSUME Init
             PROVE  OInv
  OBVIOUS
<1>1. Len(Line) = 0
  BY DEF Line, Init
<1>2. Buffers
  <2>1. Len(fifo_uart_rx_data) = 0 /\ arrived = 0 /\ pc = "get"
    BY DEF Init
  <2> QED
    BY <2>1 DEF Buffers, Taken
<1>3. pc # "take"
  BY DEF Init
<1> QED
  BY <1>1, <1>2, <1>3 DEF OInv, LineIsPast, LineInOrder, AttemptsSpent, NoThird

\* What a step may do to the line.
LineKept == Line' = Line
LineCut == /\ Len(Line') \in Nat /\ Len(Line') <= Len(Line)
           /\ \A n \in 1..Len(Line') : Line'[n] = Line[n]
LineGrows == /\ Len(Line') = Len(Line) + 1
             /\ Line'[Len(Line')] = buf[i + 1]
             /\ \A n \in 1..Len(Line) : Line'[n] = Line[n]


\* Only SendAccepted makes the line grow.
LEMMA LineSteps ==
    ASSUME TypeOK, Next
    PROVE  /\ SendAccepted => LineGrows
           /\ RobotReceives => LineKept
           /\ Acknowledged \/ AttError \/ Disconnect => LineCut
           /\ ~ (SendAccepted \/ Acknowledged \/ AttError \/ Disconnect) => LineKept
<1> DEFINE rest == IF delivered THEN <<>> ELSE pending
<1>1. /\ received \in Seq(Tokens) /\ rest \in Seq(Tokens)
      /\ Line = received \o rest
  BY EmptySeq DEF TypeOK, Line
<1>2. ASSUME SendAccepted PROVE LineGrows
  <2>1. received' = received /\ pending' = <<buf[i + 1]>> /\ ~ delivered'
    BY <1>2 DEF SendAccepted, Send
  <2>2. rest = <<>>
    BY <1>2 DEF SendAccepted
  <2>3. Line = received
    BY <1>1, <2>2
  <2>4. Line' = received \o <<buf[i + 1]>>
    BY <2>1 DEF Line
  <2> QED
    BY <1>1, <2>3, <2>4 DEF LineGrows
<1>3. ASSUME RobotReceives PROVE LineKept
  <2>1. received' = received \o pending /\ delivered' /\ ~ delivered
    BY <1>3 DEF RobotReceives
  <2>2. Line' = received'
    <3>1. received' \in Seq(Tokens)
      BY <2>1, <1>1
    <3>2. Line' = received' \o <<>>
      BY <2>1 DEF Line
    <3> QED
      BY <3>1, <3>2
  <2> QED
    BY <1>1, <2>1, <2>2 DEF LineKept
<1>4. ASSUME Acknowledged \/ AttError \/ Disconnect PROVE LineCut
  <2>1. received' = received
    BY <1>4 DEF Acknowledged, AttError, Disconnect
  <2>2. CASE pending' = <<>>
    <3>1. Line' = received
      BY <1>1, <2>1, <2>2 DEF Line
    <3> QED
      BY <1>1, <3>1 DEF LineCut
  <2>3. CASE UNCHANGED <<pending, delivered>>
    <3>1. Line' = Line
      BY <2>1, <2>3 DEF Line
    <3> QED
      BY <3>1, LineTyped DEF LineCut
  <2> QED
    BY <1>4, <2>2, <2>3 DEF Acknowledged, AttError, Disconnect, WriteOver
<1>5. ASSUME ~ (SendAccepted \/ Acknowledged \/ AttError \/ Disconnect)
      PROVE  LineKept
  <2>1. CASE RobotReceives
    BY <1>3, <2>1
  <2>2. CASE ~ RobotReceives
    <3>1. UNCHANGED <<received, pending, delivered>>
      BY <1>5, <2>2 DEF Next, Uart, UartPut, UartLost, UartWork, MainLoop, Get,
         SendFailed, Send, Take, Timeout, Slept, Free, Radio, Connect, link
    <3> QED
      BY <3>1 DEF LineKept, Line
  <2> QED
    BY <2>1, <2>2
<1> QED
  BY <1>2, <1>3, <1>4, <1>5

\* The buffers in the fifo and in the loop hold what arrived, and remains.
LEMMA BuffersKept ==
    ASSUME IInv, Buffers, Next
    PROVE  Buffers'
<1> USE DEF IInv, TypeOK
<1>1. CASE UartPut
  <2>1. /\ Len(fifo_uart_rx_data') = Len(fifo_uart_rx_data) + 1
        /\ arrived' = arrived + 1 /\ Taken' = Taken
        /\ UNCHANGED <<pc, buf>>
    BY <1>1 DEF UartPut, loop, Taken
  <2>2. PICK burst \in Received(Input[arrived'], rx) :
           fifo_uart_rx_data' = Append(fifo_uart_rx_data, Filled(burst, rx))
    BY <1>1 DEF UartPut
  <2>6. HoldsInput(Filled(burst, rx), arrived')
    <3>1. arrived' \in 1..Len(Input)
      BY <1>1, UplinkAssumption DEF UartPut
    <3>2. /\ burst \in Seq(Tokens) /\ Len(burst) <= Len(Input[arrived'])
          /\ \A j \in 1..Len(burst) : burst[j] > 0 => burst[j] = Input[arrived'][j]
      BY <3>1, ReceivedTyped
    <3>3. /\ Filled(burst, rx) \in Seq(Tokens)
          /\ \A j \in 1..Len(Filled(burst, rx)) : Filled(burst, rx)[j] > 0 =>
                j <= Len(burst) /\ Filled(burst, rx)[j] = burst[j]
      BY <3>2, FilledTyped
    <3>4. Len(Input[arrived']) \in Nat
      BY <3>1, InputTyped
    <3> SUFFICES ASSUME NEW j \in 1..Len(Filled(burst, rx)), Filled(burst, rx)[j] > 0
                 PROVE  /\ j <= Len(Input[arrived'])
                        /\ Filled(burst, rx)[j] = Input[arrived'][j]
      BY DEF HoldsInput
    <3>5. j <= Len(burst) /\ Filled(burst, rx)[j] = burst[j] /\ j \in 1..Len(burst)
      BY <3>2, <3>3
    <3> QED
      BY <3>2, <3>4, <3>5
  <2>3. \A n \in 1..Len(fifo_uart_rx_data') : HoldsInput(fifo_uart_rx_data'[n], Taken' + n)
    <3>1. SUFFICES ASSUME NEW n \in 1..Len(fifo_uart_rx_data')
                   PROVE  HoldsInput(fifo_uart_rx_data'[n], Taken' + n)
      OBVIOUS
    <3>2. CASE n = Len(fifo_uart_rx_data')
      <4>1. fifo_uart_rx_data'[n] = Filled(burst, rx)
        BY <2>1, <2>2, <3>2
      <4>2. Taken' + n = arrived'
        BY <2>1, <3>2 DEF Taken
      <4> QED
        BY <2>6, <4>1, <4>2
    <3>3. CASE n \in 1..Len(fifo_uart_rx_data)
      <4>1. fifo_uart_rx_data'[n] = fifo_uart_rx_data[n]
        BY <2>2, <3>3
      <4> QED
        BY <2>1, <3>3, <4>1 DEF Buffers
    <3> QED
      BY <2>1, <3>2, <3>3
  <2>4. Taken' \in 0..arrived'
    BY <2>1 DEF Buffers
  <2>5. pc' # "get" => Taken' > 0 /\ HoldsInput(buf', Taken')
    BY <2>1 DEF Buffers
  <2> QED
    BY <2>3, <2>4, <2>5 DEF Buffers, HoldsInput
<1>2. CASE Get
  <2>1. /\ Taken' = Taken + 1 /\ arrived' = arrived
        /\ Len(fifo_uart_rx_data') = Len(fifo_uart_rx_data) - 1
        /\ Len(fifo_uart_rx_data) > 0
        /\ buf' = fifo_uart_rx_data[1]
        /\ \A n \in 1..Len(fifo_uart_rx_data') :
              fifo_uart_rx_data'[n] = fifo_uart_rx_data[n + 1]
    BY <1>2 DEF Get, Taken
  <2>2. HoldsInput(buf', Taken')
    BY <2>1 DEF Buffers
  <2>3. \A n \in 1..Len(fifo_uart_rx_data') : HoldsInput(fifo_uart_rx_data'[n], Taken' + n)
    <3>1. SUFFICES ASSUME NEW n \in 1..Len(fifo_uart_rx_data')
                   PROVE  HoldsInput(fifo_uart_rx_data'[n], Taken' + n)
      OBVIOUS
    <3>2. n + 1 \in 1..Len(fifo_uart_rx_data) /\ Taken' + n = Taken + (n + 1)
      <4>1. Len(fifo_uart_rx_data) \in Nat /\ arrived \in Nat
        BY DEF IInv, TypeOK
      <4>2. Taken \in Int
        BY <4>1 DEF Taken
      <4>3. n \in Nat /\ n >= 1 /\ n <= Len(fifo_uart_rx_data) - 1
        BY <2>1, <4>1
      <4> QED
        BY <2>1, <4>1, <4>2, <4>3
    <3> QED
      BY <2>1, <3>2 DEF Buffers
  <2>4. Taken' \in 0..arrived' /\ Taken' > 0
    BY <2>1 DEF Buffers, Taken
  <2> QED
    BY <2>2, <2>3, <2>4 DEF Buffers, HoldsInput
<1>3. CASE ~ UartPut /\ ~ Get
  <2>1. UNCHANGED <<arrived, fifo_uart_rx_data>>
    BY <1>3 DEF Next, Uart, UartLost, UartWork, MainLoop, SendAccepted, SendFailed,
       Send, Take, Timeout, Slept, Free, Radio, RobotReceives, Acknowledged, AttError,
       Disconnect, Connect, queue
  <2>2. pc' = "get" \/ (pc # "get" /\ buf' = buf) \/ UNCHANGED <<pc, buf>>
    BY <1>3 DEF Next, Uart, UartLost, UartWork, MainLoop, SendAccepted, SendFailed,
       Send, Take, Timeout, Slept, Free, Radio, RobotReceives, Acknowledged, AttError,
       Disconnect, Connect, queue, loop
  <2> QED
    BY <2>1, <2>2 DEF Buffers, Taken, HoldsInput
<1> QED
  BY <1>1, <1>2, <1>3


\* A command of the loop's buffer is newer than those of earlier buffers and
\* those before it in its own.
LEMMA BufIsNewer ==
    ASSUME NEW t \in 1..Len(Input), NEW b \in Seq(Tokens), HoldsInput(b, t),
           NEW j \in 1..Len(b), b[j] > 0,
           NEW m \in 1..t, NEW a \in 1..Len(Input[m])
    PROVE  /\ m < t \/ a < j => Input[m][a] < b[j]
           /\ m = t /\ a = j => Input[m][a] = b[j]
<1>1. m \in 1..Len(Input) /\ m <= t
  OBVIOUS
<1>2. j \in 1..Len(Input[t]) /\ b[j] = Input[t][j]
  <2>1. Len(Input[t]) \in Nat
    BY InputTyped
  <2> QED
    BY <2>1 DEF HoldsInput
<1>3. m < t \/ (m = t /\ a < j) => Input[m][a] < Input[t][j]
  BY <1>1, <1>2, NumberAssumption
<1>4. j \in Int /\ a \in Int /\ m \in Int
  BY <1>1, InputTyped
<1> QED
  BY <1>1, <1>2, <1>3, <1>4

\* So is the command at the index: it is in the line already or newer than
\* everything there, and once the index moves, it is newer.
LEMMA IndexIsNewest ==
    ASSUME IInv, OInv, pc # "get", i < Len(buf), buf[i + 1] > 0,
           NEW n \in 1..Len(Line), Line[n] > 0
    PROVE  Line[n] <= buf[i + 1]
<1>1. PICK m \in 1..Taken : \E a \in 1..Len(Input[m]) :
         Line[n] = Input[m][a] /\ (m = Taken => a <= i + 1)
  BY DEF OInv, LineIsPast
<1>2. PICK a \in 1..Len(Input[m]) :
         Line[n] = Input[m][a] /\ (m = Taken => a <= i + 1)
  BY <1>1
<1>3. i + 1 \in 1..Len(buf) /\ buf[i + 1] \in Int
  <2>1. i + 1 \in 1..Len(buf) /\ buf \in Seq(Tokens)
    BY DEF IInv, TypeOK
  <2>2. buf[i + 1] \in Tokens
    BY <2>1
  <2> QED
    BY <2>1, <2>2, TokenInt
<1>8. Taken \in 1..Len(Input) /\ HoldsInput(buf, Taken) /\ buf \in Seq(Tokens)
  BY SMTT(30) DEF OInv, Buffers, IInv, TypeOK
<1>4. /\ m < Taken \/ a < i + 1 => Input[m][a] < buf[i + 1]
      /\ m = Taken /\ a = i + 1 => Input[m][a] = buf[i + 1]
  BY <1>3, <1>8, BufIsNewer
<1>5. m \in Int /\ a \in Int /\ Taken \in Int
  <2>1. m \in 1..Len(Input)
    BY DEF OInv, Buffers, IInv, TypeOK
  <2> QED
    BY <2>1, InputTyped DEF OInv, Buffers, Taken
<1>6. m < Taken \/ m = Taken
  BY <1>5 DEF OInv, Buffers
<1>7. Line[n] \in Int
  <2>1. Line[n] \in Tokens
    BY LineTyped DEF IInv
  <2> QED
    BY <2>1, TokenInt
<1> QED
  BY <1>2, <1>3, <1>4, <1>5, <1>6, <1>7

\* A step leaves each place of the line behind the index.
LEMMA PlacesKept ==
    ASSUME IInv, OInv, Next,
           NEW m \in 1..Taken, NEW a \in 1..Len(Input[m]),
           m = Taken /\ pc # "get" => a <= i + 1
    PROVE  m \in 1..Taken' /\ (m = Taken' /\ pc' # "get" => a <= i' + 1)
<1>1. m \in Int /\ a \in Int /\ i \in Int /\ Taken \in Nat
  <2>1. m \in 1..Len(Input)
    BY DEF OInv, Buffers, IInv, TypeOK
  <2> QED
    BY <2>1, InputTyped DEF OInv, Buffers, IInv, TypeOK
<1>2. CASE Get
  <2>1. Taken' = Taken + 1
    BY <1>2 DEF Get, Taken, IInv, TypeOK
  <2> QED
    BY <1>1, <2>1
<1>3. CASE ~ Get
  <2>1. Taken' = Taken
    <3>1. CASE UartPut
      <4>1. /\ arrived' = arrived + 1
            /\ Len(fifo_uart_rx_data') = Len(fifo_uart_rx_data) + 1
        BY <3>1 DEF UartPut, IInv, TypeOK
      <4> QED
        BY <4>1 DEF Taken, IInv, TypeOK
    <3>2. CASE ~ UartPut
      <4>1. UNCHANGED <<arrived, fifo_uart_rx_data>>
        BY <1>3, <3>2 DEF Next, Uart, UartLost, UartWork, MainLoop, SendAccepted,
           SendFailed, Send, Take, Timeout, Slept, Free, Radio, RobotReceives,
           Acknowledged, AttError, Disconnect, Connect, queue
      <4> QED
        BY <4>1 DEF Taken
    <3> QED
      BY <3>1, <3>2
  <2>2. pc' = "get" \/ (pc # "get" /\ i' \in {i, i + 1}) \/ UNCHANGED <<pc, i>>
    BY <1>3 DEF Next, Uart, UartLost, UartWork, MainLoop, SendAccepted, SendFailed,
       Send, Take, Timeout, Slept, Free, Radio, RobotReceives, Acknowledged, AttError,
       Disconnect, Connect, queue, UartPut, loop, Passed, Kept
  <2> QED
    BY <1>1, <2>1, <2>2
<1> QED
  BY <1>2, <1>3

\* Each step keeps the line past and in order.
LEMMA LineOrderKept ==
    ASSUME IInv, OInv, Next
    PROVE  LineIsPast' /\ LineInOrder'
<1>1. Line \in Seq(Tokens) /\ Len(Line) \in Nat
  BY LineTyped DEF IInv
<1>2. CASE SendAccepted
  <2>1. LineGrows
    BY <1>2, LineSteps DEF IInv
  <2>2. /\ pc = "test" /\ i + 1 \in 1..Len(buf) /\ i' = i /\ pc' = "take"
        /\ UNCHANGED <<arrived, fifo_uart_rx_data>>
    BY <1>2 DEF SendAccepted, Send, MoreToDo, queue, IInv, TypeOK
  <2>3. LineIsPast'
    <3> SUFFICES ASSUME NEW n \in 1..Len(Line'), Line'[n] > 0
                 PROVE  \E m \in 1..Taken' : \E a \in 1..Len(Input[m]) :
                           /\ Line'[n] = Input[m][a]
                           /\ m = Taken' /\ pc' # "get" => a <= i' + 1
      BY DEF LineIsPast
    <3>1. CASE n \in 1..Len(Line)
      <4>1. Line[n] = Line'[n]
        BY <2>1, <3>1 DEF LineGrows
      <4>2. PICK m \in 1..Taken : \E a \in 1..Len(Input[m]) :
               /\ Line[n] = Input[m][a]
               /\ m = Taken /\ pc # "get" => a <= i + 1
        BY <3>1, <4>1 DEF OInv, LineIsPast
      <4> QED
        BY <4>1, <4>2, <2>2 DEF Taken
    <3>2. CASE n \notin 1..Len(Line)
      <4>1. Line'[n] = buf[i + 1]
        BY <1>1, <2>1, <3>2 DEF LineGrows
      <4>2. /\ Taken \in 1..Taken /\ i + 1 <= Len(Input[Taken])
            /\ buf[i + 1] = Input[Taken][i + 1]
        BY <2>2, <4>1 DEF OInv, Buffers, HoldsInput
      <4>3. i + 1 \in 1..Len(Input[Taken])
        <5>1. Taken \in 1..Len(Input)
          BY <4>2 DEF OInv, Buffers, IInv, TypeOK
        <5> QED
          BY <4>2, <5>1, InputTyped DEF IInv, TypeOK
      <4>4. Taken' = Taken
        BY <2>2 DEF Taken
      <4> QED
        BY <2>2, <4>1, <4>2, <4>3, <4>4
    <3> QED
      BY <3>1, <3>2
  <2>4. LineInOrder'
    <3> SUFFICES ASSUME NEW m \in 1..Len(Line'), NEW n \in 1..Len(Line'),
                        m < n, Line'[m] > 0, Line'[n] > 0
                 PROVE  Line'[m] <= Line'[n]
      BY DEF LineInOrder
    <3>1. m \in 1..Len(Line) /\ Line'[m] = Line[m]
      BY <1>1, <2>1 DEF LineGrows
    <3>2. CASE n \in 1..Len(Line)
      BY <2>1, <3>1, <3>2 DEF LineGrows, OInv, LineInOrder
    <3>3. CASE n \notin 1..Len(Line)
      <4>1. Line'[n] = buf[i + 1]
        BY <1>1, <2>1, <3>3 DEF LineGrows
      <4>2. pc # "get" /\ i < Len(buf) /\ buf[i + 1] > 0 /\ Line[m] > 0
        BY <1>2, <3>1, <4>1 DEF SendAccepted, Send, MoreToDo
      <4>3. Line[m] <= buf[i + 1]
        BY <3>1, <4>2, IndexIsNewest
      <4> QED
        BY <3>1, <4>1, <4>3
    <3> QED
      BY <3>2, <3>3
  <2> QED
    BY <2>3, <2>4
<1>3. CASE ~ SendAccepted
  <2>1. LineCut
    BY <1>1, <1>3, LineSteps DEF IInv, LineCut, LineKept
  <2>2. LineIsPast'
    <3> SUFFICES ASSUME NEW n \in 1..Len(Line'), Line'[n] > 0
                 PROVE  \E m \in 1..Taken' : \E a \in 1..Len(Input[m]) :
                           /\ Line'[n] = Input[m][a]
                           /\ m = Taken' /\ pc' # "get" => a <= i' + 1
      BY DEF LineIsPast
    <3>1. n \in 1..Len(Line) /\ Line[n] = Line'[n]
      BY <1>1, <2>1 DEF LineCut
    <3>2. PICK m \in 1..Taken : \E a \in 1..Len(Input[m]) :
             /\ Line[n] = Input[m][a]
             /\ m = Taken /\ pc # "get" => a <= i + 1
      BY <3>1 DEF OInv, LineIsPast
    <3>3. PICK a \in 1..Len(Input[m]) :
             /\ Line[n] = Input[m][a]
             /\ m = Taken /\ pc # "get" => a <= i + 1
      BY <3>2
    <3>4. m \in 1..Taken' /\ (m = Taken' /\ pc' # "get" => a <= i' + 1)
      BY <3>3, PlacesKept
    <3> QED
      BY <3>1, <3>3, <3>4
  <2>3. LineInOrder'
    <3> SUFFICES ASSUME NEW m \in 1..Len(Line'), NEW n \in 1..Len(Line'),
                        m < n, Line'[m] > 0, Line'[n] > 0
                 PROVE  Line'[m] <= Line'[n]
      BY DEF LineInOrder
    <3>1. /\ m \in 1..Len(Line) /\ Line'[m] = Line[m]
          /\ n \in 1..Len(Line) /\ Line'[n] = Line[n]
      BY <1>1, <2>1 DEF LineCut
    <3>2. LineInOrder
      BY DEF OInv
    <3>3. Line[m] > 0 /\ Line[n] > 0
      BY <3>1
    <3>4. Line[m] <= Line[n]
      BY <3>1, <3>2, <3>3 DEF LineInOrder
    <3> QED
      BY <3>1, <3>4
  <2> QED
    BY <2>2, <2>3
<1> QED
  BY <1>2, <1>3


\* When the index moves or a new buffer is begun, no copy is left in the line.
LEMMA NoCopyAfterMove ==
    ASSUME IInv, OInv, Next, LineKept, Buffers', IInv',
           Get \/ (Take /\ k),
           NEW n \in 1..Len(Line')
    PROVE  ~ Copy(n)'
<1> SUFFICES ASSUME Copy(n)'
             PROVE  FALSE
  OBVIOUS
<1>1. /\ Line'[n] = Line[n] /\ n \in 1..Len(Line)
      /\ Line[n] = buf'[i' + 1] /\ Line[n] > 0
      /\ i' + 1 \in 1..Len(buf') /\ pc' # "get"
  <2>1. Line' = Line /\ i' \in 0..Len(buf') /\ buf' \in Seq(Tokens)
    BY DEF LineKept, IInv, TypeOK
  <2>2. /\ pc' # "get" /\ i' < Len(buf') /\ buf'[i' + 1] > 0
        /\ Line'[n] = buf'[i' + 1]
    BY DEF Copy
  <2>3. i' + 1 \in 1..Len(buf')
    <3>1. Len(buf') \in Nat /\ i' \in 0..Len(buf') /\ i' < Len(buf')
      BY <2>1, <2>2
    <3>2. \A x, y \in Nat : x < y => x + 1 \in 1..y
      OBVIOUS
    <3>3. i' \in Nat
      BY <3>1
    <3> QED
      BY <3>1, <3>2, <3>3
  <2>4. Line'[n] = Line[n] /\ n \in 1..Len(Line)
    BY <2>1
  <2> QED
    BY <2>2, <2>3, <2>4
<1>8. Taken' \in 1..Len(Input) /\ HoldsInput(buf', Taken') /\ buf' \in Seq(Tokens)
  <2>1. Taken' > 0 /\ Taken' \in 0..arrived' /\ arrived' \in 0..Len(Input)
    BY <1>1 DEF Buffers, IInv, TypeOK
  <2>2. HoldsInput(buf', Taken')
    BY <1>1 DEF Buffers, HoldsInput
  <2> QED
    BY <2>1, <2>2 DEF IInv, TypeOK
<1>2. PICK m \in 1..Taken : \E a \in 1..Len(Input[m]) :
         /\ Line[n] = Input[m][a]
         /\ m = Taken /\ pc # "get" => a <= i + 1
  BY <1>1 DEF OInv, LineIsPast
<1>3. PICK a \in 1..Len(Input[m]) :
         /\ Line[n] = Input[m][a]
         /\ m = Taken /\ pc # "get" => a <= i + 1
  BY <1>2
<1>4. m \in Int /\ a \in Int /\ Taken \in Nat /\ i \in Nat
  <2>1. m \in 1..Len(Input)
    BY DEF OInv, Buffers, IInv, TypeOK
  <2> QED
    BY <2>1, InputTyped DEF OInv, Buffers, IInv, TypeOK
<1>5. m \in 1..Taken' /\ (m < Taken' \/ a < i' + 1)
  <2>1. CASE Get
    <3>1. Taken' = Taken + 1
      BY <2>1 DEF Get, Taken, IInv, TypeOK
    <3> QED
      BY <1>4, <3>1
  <2>2. CASE Take /\ k
    <3>1. Taken' = Taken /\ i' = i + 1 /\ pc # "get"
      BY <2>2 DEF Take, Taken, Passed, queue
    <3> QED
      BY <1>3, <1>4, <3>1
  <2> QED
    BY <2>1, <2>2
<1>6. Input[m][a] < buf'[i' + 1]
  <2>1. /\ m < Taken' \/ a < i' + 1 => Input[m][a] < buf'[i' + 1]
    BY <1>1, <1>5, <1>8, BufIsNewer
  <2> QED
    BY <1>5, <2>1
<1>7. Line[n] \in Int
  <2>1. Line[n] \in Tokens
    BY <1>1, LineTyped DEF IInv
  <2> QED
    BY <2>1, TokenInt
<1> QED
  BY <1>1, <1>3, <1>6, <1>7


\* A copy after a step that leaves the loop on its command was one before it.
LEMMA CopyWasCopy ==
    ASSUME Line \in Seq(Tokens), LineCut,
           UNCHANGED <<buf, i>>, pc # "get",
           NEW n \in 1..Len(Line'), Copy(n)'
    PROVE  n \in 1..Len(Line) /\ Copy(n)
<1>1. n \in 1..Len(Line) /\ Line'[n] = Line[n]
  BY DEF LineCut
<1> QED
  BY <1>1 DEF Copy

\* The attempts that copies have cost.
LEMMA AttemptsKept ==
    ASSUME IInv, OInv, Next, IInv', Buffers'
    PROVE  AttemptsSpent'
<1>1. Line \in Seq(Tokens) /\ Len(Line) \in Nat
  BY LineTyped DEF IInv
<1>2. AttemptsSpent
  BY DEF OInv
<1>3. tries \in Nat /\ nus_write_sem \in {0, 1} /\ k \in BOOLEAN
  BY UplinkAssumption DEF IInv, TypeOK
<1>4. CASE SendAccepted
  <2>1. LineGrows
    BY <1>4, LineSteps DEF IInv
  <2>2. /\ pc = "test" /\ pending = <<>> /\ pending' # <<>>
        /\ tries' = tries + 1 /\ pc' = "take" /\ k'
        /\ UNCHANGED <<buf, i, nus_write_sem>>
    BY <1>4 DEF SendAccepted, Send, Attempts
  <2>3. \A n \in 1..Len(Line') : n \in 1..Len(Line) \/ n = Len(Line')
    BY <1>1, <2>1 DEF LineGrows
  <2>4. \A n \in 1..Len(Line) : Copy(n)' => Copy(n)
    BY <2>1, <2>2 DEF LineGrows, Copy
  <2>5. \A m, n \in 1..Len(Line') : m < n /\ Copy(m)' /\ Copy(n)' =>
           tries' >= 3 \/ nus_write_sem' = 1
    <3> SUFFICES ASSUME NEW m \in 1..Len(Line'), NEW n \in 1..Len(Line'),
                        m < n, Copy(m)'
                 PROVE  tries' >= 3 \/ nus_write_sem' = 1
      OBVIOUS
    <3>1. m \in 1..Len(Line)
      BY <1>1, <2>1, <2>3 DEF LineGrows
    <3>2. nus_write_sem = 1 \/ tries >= 2
      BY <1>2, <2>2, <2>4, <3>1 DEF AttemptsSpent
    <3> QED
      BY <1>3, <2>2, <3>2
  <2> QED
    BY <1>3, <2>2, <2>5 DEF AttemptsSpent
<1>5. CASE Get \/ (Take /\ k)
  <2>1. LineKept
    BY <1>5, LineSteps DEF IInv, Get, Take, SendAccepted, Send, Acknowledged,
       AttError, Disconnect, RobotReceives, loop, queue
  <2> QED
    BY <1>5, <2>1, NoCopyAfterMove DEF AttemptsSpent, Get, Take
<1>6. CASE Acknowledged \/ AttError \/ Disconnect
  <2>1. LineCut
    BY <1>6, LineSteps DEF IInv
  <2>2. UNCHANGED <<pc, buf, i, tries, k>>
    BY <1>6 DEF Acknowledged, AttError, Disconnect, loop
  <2>3. nus_write_sem' = 1 \/ UNCHANGED <<pending, nus_write_sem>>
    BY <1>6 DEF Acknowledged, AttError, Disconnect, WriteOver
  <2>4. \A n \in 1..Len(Line') : Copy(n)' => n \in 1..Len(Line) /\ Copy(n)
    BY <1>1, <2>1, <2>2 DEF LineCut, Copy
  <2> QED
    BY <1>2, <2>2, <2>3, <2>4 DEF AttemptsSpent
<1>7. CASE Free
  BY <1>7 DEF Free, AttemptsSpent, Copy
<1>8. CASE ~ (SendAccepted \/ Get \/ (Take /\ k) \/ Acknowledged \/ AttError
              \/ Disconnect \/ Free)
  <2>1. Line' = Line
    BY <1>8, LineSteps DEF IInv, LineKept
  <2>2. UNCHANGED <<buf, i>> /\ (pc' # "get" => pc # "get")
    BY <1>3, <1>8 DEF Next, Uart, UartPut, UartLost, UartWork, MainLoop, SendFailed,
       Send, Take, Passed, Timeout, Kept, Slept, Radio, RobotReceives, Connect, loop, queue
  <2>3. \A n \in 1..Len(Line) : Copy(n)' => Copy(n)
    BY <2>1, <2>2 DEF Copy
  <2>4. CASE SendFailed
    <3>1. pc = "test" /\ pc' = "take" /\ ~ k' /\ tries' = tries + 1
      BY <2>4 DEF SendFailed, Send, Attempts
    <3> QED
      BY <1>2, <1>3, <2>1, <2>3, <3>1 DEF AttemptsSpent
  <2>5. CASE Take /\ ~ k
    <3>1. pc = "take" /\ pc' = "test" /\ UNCHANGED <<k, tries>>
      BY <2>5 DEF Take
    <3> QED
      BY <1>2, <1>3, <2>1, <2>3, <2>5, <3>1 DEF AttemptsSpent
  <2>6. CASE Timeout
    <3>1. /\ pc = "take" /\ pc' = "sleep" /\ nus_write_sem = 0
          /\ UNCHANGED <<k, tries, pending, nus_write_sem>>
      BY <2>6 DEF Timeout, link
    <3> QED
      BY <1>2, <1>3, <2>1, <2>3, <3>1 DEF AttemptsSpent
  <2>7. CASE Slept
    <3>1. /\ pc = "sleep" /\ pc' = "test"
          /\ UNCHANGED <<k, tries, pending, nus_write_sem>>
      BY <2>7 DEF Slept, link
    <3> QED
      BY <1>2, <1>3, <2>1, <2>3, <3>1 DEF AttemptsSpent
  <2>8. CASE Uart \/ RobotReceives \/ Connect
    <3>1. UNCHANGED <<pc, k, tries, pending, nus_write_sem>>
      BY <2>8 DEF Uart, UartPut, UartLost, UartWork, RobotReceives, Connect, loop, link
    <3> QED
      BY <1>2, <1>3, <2>1, <2>3, <3>1 DEF AttemptsSpent
  <2> QED
    BY <1>3, <1>8, <2>4, <2>5, <2>6, <2>7, <2>8 DEF Next, MainLoop, Radio
<1> QED
  BY <1>4, <1>5, <1>6, <1>7, <1>8

\* No third copy joins the line.
LEMMA NoThirdKept ==
    ASSUME IInv, OInv, Next
    PROVE  NoThird'
<1> SUFFICES ASSUME MaxTries <= 3,
                    NEW l \in 1..Len(Line'), NEW m \in 1..Len(Line'),
                    NEW n \in 1..Len(Line'), l < m, m < n,
                    Line'[l] = Line'[m], Line'[m] = Line'[n]
             PROVE  Line'[n] <= 0
  BY DEF NoThird
<1>1. Line \in Seq(Tokens) /\ Len(Line) \in Nat
  BY LineTyped DEF IInv
<1>2. \A x, y, z \in 1..Len(Line) :
         x < y /\ y < z /\ Line[x] = Line[y] /\ Line[y] = Line[z] => Line[z] <= 0
  BY DEF OInv, NoThird
<1>3. CASE SendAccepted
  <2>1. LineGrows
    BY <1>3, LineSteps DEF IInv
  <2>2. /\ l \in 1..Len(Line) /\ Line'[l] = Line[l]
        /\ m \in 1..Len(Line) /\ Line'[m] = Line[m]
    BY <1>1, <2>1 DEF LineGrows
  <2>3. CASE n \in 1..Len(Line)
    <3>1. Line'[n] = Line[n]
      BY <2>1, <2>3 DEF LineGrows
    <3>2. Line[n] <= 0
      BY <1>2, <2>2, <2>3, <3>1
    <3> QED
      BY <3>1, <3>2
  <2>4. CASE n \notin 1..Len(Line)
    <3>1. Line'[n] = buf[i + 1]
      BY <1>1, <2>1, <2>4 DEF LineGrows
    <3>2. pc = "test" /\ i < Len(buf) /\ tries < MaxTries
      BY <1>3 DEF SendAccepted, Send, MoreToDo
    <3>3. buf[i + 1] \in Int /\ tries \in Nat
      <4>1. i + 1 \in 1..Len(buf) /\ buf \in Seq(Tokens) /\ tries \in 0..MaxTries
        BY <3>2 DEF IInv, TypeOK
      <4>2. buf[i + 1] \in Tokens
        BY <4>1
      <4>3. buf[i + 1] \in Int
        BY <4>2, TokenInt
      <4>4. tries \in Nat
        BY <4>1, UplinkAssumption
      <4> QED
        BY <4>3, <4>4
    <3>4. ~ (Copy(l) /\ Copy(m))
      BY <2>2, <3>2, <3>3, UplinkAssumption DEF OInv, AttemptsSpent
    <3>5. ~ (buf[i + 1] > 0)
      BY <2>2, <3>1, <3>2, <3>4 DEF Copy
    <3> QED
      BY <3>1, <3>3, <3>5
  <2> QED
    BY <2>3, <2>4
<1>4. CASE ~ SendAccepted
  <2>1. LineCut
    BY <1>1, <1>4, LineSteps DEF IInv, LineCut, LineKept
  <2>2. /\ l \in 1..Len(Line) /\ Line'[l] = Line[l]
        /\ m \in 1..Len(Line) /\ Line'[m] = Line[m]
        /\ n \in 1..Len(Line) /\ Line'[n] = Line[n]
    BY <1>1, <2>1 DEF LineCut
  <2>3. Line[n] <= 0
    BY <1>2, <2>2
  <2> QED
    BY <2>2, <2>3
<1> QED
  BY <1>3, <1>4

LEMMA NextOInv == IInv /\ OInv /\ [Next]_vars /\ IInv' => OInv'
<1> SUFFICES ASSUME IInv, OInv, [Next]_vars, IInv'
             PROVE  OInv'
  OBVIOUS
<1>1. CASE Next
  <2>1. Buffers'
    BY <1>1, BuffersKept DEF OInv
  <2> QED
    BY <1>1, <2>1, LineOrderKept, AttemptsKept, NoThirdKept DEF OInv
<1>2. CASE UNCHANGED vars
  <2>1. Line' = Line /\ Taken' = Taken
    BY <1>2 DEF vars, Line, Taken
  <2>2. Buffers'
    BY <1>2, <2>1 DEF vars, OInv, Buffers, HoldsInput
  <2>3. LineIsPast'
    BY <1>2, <2>1 DEF vars, OInv, LineIsPast
  <2>4. LineInOrder' /\ NoThird'
    BY <2>1 DEF OInv, LineInOrder, NoThird
  <2>5. AttemptsSpent'
    BY <1>2, <2>1 DEF vars, OInv, AttemptsSpent, Copy
  <2> QED
    BY <2>2, <2>3, <2>4, <2>5 DEF OInv
<1> QED
  BY <1>1, <1>2

-----------------------------------------------------------------------------
\* The gateway's main loop keeps the inductive invariant.
THEOREM Invariance == Spec => []IInv
<1> QED
  BY InitIInv, NextIInv, PTL DEF Spec

\* However late the answers come and whatever the blocks still hold, the
\* counters, the flags and the buffers of the main loop keep their types:
\* in particular the index stays within the buffer and the number of attempts
\* within MaxTries.
THEOREM TypeCorrect == Spec => []TypeOK
<1>1. IInv => TypeOK
  BY DEF IInv
<1> QED
  BY <1>1, Invariance, PTL

\* The index never passes a command the NUS client has not accepted: a token
\* left by an earlier write cannot make the loop skip one.
THEOREM NoneSkipped == Spec => []PassedWereHanded
<1>1. IInv => PassedWereHanded
  BY DEF IInv
<1> QED
  BY <1>1, Invariance, PTL

\* The line is in order, and its copies have cost their attempts.
THEOREM LineInvariance == Spec => []OInv
<1> QED
  BY InitIInv, NextIInv, InitOInv, NextOInv, PTL DEF Spec

\* What the robot got is the beginning of the line.
LEMMA ReceivedOfLine ==
    TypeOK => \A n \in DOMAIN received : n \in 1..Len(Line) /\ Line[n] = received[n]
<1> SUFFICES ASSUME TypeOK
             PROVE  \A n \in DOMAIN received :
                       n \in 1..Len(Line) /\ Line[n] = received[n]
  OBVIOUS
<1>1. received \in Seq(Tokens) /\ (IF delivered THEN <<>> ELSE pending) \in Seq(Tokens)
  BY EmptySeq DEF TypeOK
<1> HIDE DEF TypeOK
<1> QED
  BY <1>1 DEF Line

\* However late the answers come, however often the link breaks and whatever
\* is tried again, the robot gets the commands in the order of their arrival.
THEOREM SentInOrder == Spec => []InOrder
<1>1. IInv /\ OInv => InOrder
  <2> SUFFICES ASSUME IInv, OInv
               PROVE  InOrder
    OBVIOUS
  <2>1. \A n \in DOMAIN received : n \in 1..Len(Line) /\ Line[n] = received[n]
    BY ReceivedOfLine DEF IInv
  <2>2. DOMAIN received = 1..Len(received)
    BY DEF IInv, TypeOK
  <2>3. LineInOrder
    BY DEF OInv
  <2> QED
    BY <2>1, <2>3 DEF InOrder, LineInOrder
<1> QED
  BY <1>1, Invariance, LineInvariance, PTL

\* With the three attempts of the code a command never reaches the robot a
\* third time.
THEOREM SentAtMostTwice ==
    ASSUME MaxTries <= 3
    PROVE  Spec => []AtMostTwice
<1>1. IInv /\ OInv => AtMostTwice
  <2> SUFFICES ASSUME IInv, OInv
               PROVE  AtMostTwice
    OBVIOUS
  <2>1. \A n \in DOMAIN received : n \in 1..Len(Line) /\ Line[n] = received[n]
    BY ReceivedOfLine DEF IInv
  <2>2. NoThird
    BY DEF OInv
  <2> QED
    BY <2>1, <2>2 DEF AtMostTwice, NoThird
<1> QED
  BY <1>1, Invariance, LineInvariance, PTL

-----------------------------------------------------------------------------
(***************************************************************************)
(* How many writes there can be: every one costs an attempt of its buffer. *)
(***************************************************************************)
\* The attempts the loop has had so far, at most.
Spent == IF pc = "get" THEN MaxTries * Taken ELSE MaxTries * (Taken - 1) + tries

LineFits == Len(Line) <= Spent

\* A buffer has MaxTries attempts.
LEMMA BudgetSteps ==
    \A n \in Nat : /\ MaxTries * (n + 1) = MaxTries * n + MaxTries
                   /\ MaxTries * n \in Nat
BY UplinkAssumption

\* What is not in the fifo any more has been taken.
LEMMA TakenSteps ==
    ASSUME TypeOK, Next
    PROVE  /\ Get => Taken' = Taken + 1
           /\ ~ Get => Taken' = Taken
<1>1. /\ arrived \in Nat /\ Len(fifo_uart_rx_data) \in Nat
      /\ fifo_uart_rx_data \in Seq(Seq(Tokens))
  BY DEF TypeOK
<1>2. CASE Get
  <2>1. /\ Len(fifo_uart_rx_data') = Len(fifo_uart_rx_data) - 1
        /\ arrived' = arrived
    BY <1>1, <1>2 DEF Get
  <2> QED
    BY <1>1, <1>2, <2>1 DEF Taken
<1>3. CASE UartPut
  <2>1. /\ Len(fifo_uart_rx_data') = Len(fifo_uart_rx_data) + 1
        /\ arrived' = arrived + 1 /\ ~ Get
    <3>1. /\ pc' = pc /\ arrived' = arrived + 1
          /\ \E b : fifo_uart_rx_data' = Append(fifo_uart_rx_data, b)
      BY <1>3 DEF UartPut, loop
    <3>2. Len(fifo_uart_rx_data') = Len(fifo_uart_rx_data) + 1
      BY <1>1, <3>1
    <3> QED
      BY <3>1, <3>2 DEF Get
  <2> QED
    BY <1>1, <1>3, <2>1 DEF Taken
<1>4. CASE ~ Get /\ ~ UartPut
  <2>1. UNCHANGED <<arrived, fifo_uart_rx_data>>
    BY <1>4 DEF Next, Uart, UartLost, UartWork, MainLoop, SendAccepted, SendFailed,
       Send, Take, Timeout, Slept, Free, Radio, RobotReceives, Acknowledged, AttError,
       Disconnect, Connect, queue
  <2> QED
    BY <1>4, <2>1 DEF Taken
<1> QED
  BY <1>2, <1>3, <1>4

\* The line never outgrows the attempts.
LEMMA LineFitsKept == IInv /\ OInv /\ LineFits /\ [Next]_vars => LineFits'
<1> SUFFICES ASSUME IInv, OInv, LineFits, [Next]_vars
             PROVE  LineFits'
  OBVIOUS
<1>1. /\ Line \in Seq(Tokens) /\ Len(Line) \in Nat
      /\ Taken \in Nat /\ tries \in Nat /\ tries <= MaxTries /\ MaxTries \in Nat
      /\ pc # "get" => Taken - 1 \in Nat
  BY LineTyped, UplinkAssumption, SMTT(30) DEF IInv, OInv, TypeOK, Buffers
<1>2. CASE UNCHANGED vars
  BY <1>2 DEF LineFits, Spent, Taken, Line, vars
<1>3. CASE Next /\ SendAccepted
  <2>1. LineGrows /\ Taken' = Taken
    BY <1>3, LineSteps, TakenSteps DEF IInv, SendAccepted, Send, Get
  <2>2. tries' = tries + 1 /\ pc = "test" /\ pc' = "take"
    BY <1>3 DEF SendAccepted, Send, Attempts
  <2>3. MaxTries * (Taken - 1) \in Nat
    BY <1>1, <2>2, BudgetSteps
  <2> QED
    BY <1>1, <2>1, <2>2, <2>3 DEF LineGrows, LineFits, Spent
<1>4. CASE Next /\ ~ SendAccepted
  <2>1. Len(Line') \in Nat /\ Len(Line') <= Len(Line)
    BY <1>1, <1>4, LineSteps DEF IInv, LineKept, LineCut
  <2>2. Spent \in Nat /\ Spent' \in Nat /\ Spent <= Spent'
    <3>1. CASE Get
      <4>1. Taken' = Taken + 1 /\ pc = "get" /\ pc' = "test" /\ tries' = 0
        BY <1>4, <3>1, TakenSteps DEF IInv, Get, FirstTries
      <4>2. Taken' - 1 = Taken
        BY <1>1, <4>1
      <4> QED
        BY <1>1, <4>1, <4>2, BudgetSteps DEF Spent
    <3>2. CASE Free
      <4>1. Taken' = Taken /\ pc = "test" /\ pc' = "get"
        BY <1>4, <3>2, TakenSteps DEF IInv, Free, Get
      <4>2. /\ MaxTries * (Taken - 1) \in Nat
            /\ MaxTries * Taken = MaxTries * (Taken - 1) + MaxTries
        <5>1. Taken - 1 \in Nat /\ (Taken - 1) + 1 = Taken
          BY <1>1, <4>1
        <5> QED
          BY <5>1, BudgetSteps
      <4> QED
        BY <1>1, <4>1, <4>2 DEF Spent
    <3>3. CASE ~ Get /\ ~ Free
      <4>1. Taken' = Taken
        BY <1>4, <3>3, TakenSteps DEF IInv
      <4>2. /\ tries' \in {tries, tries + 1}
            /\ pc = "get" <=> pc' = "get"
        BY <1>4, <3>3 DEF Next, Uart, UartPut, UartLost, UartWork, MainLoop, SendFailed,
           Send, Attempts, Take, Timeout, Slept, Radio, RobotReceives, Acknowledged,
           AttError, Disconnect, Connect, loop
      <4> DEFINE all == MaxTries * Taken
                 past == MaxTries * (Taken - 1)
      <4>3. all \in Nat /\ (pc # "get" => past \in Nat)
        BY <1>1, BudgetSteps
      <4>4. /\ Spent = IF pc = "get" THEN all ELSE past + tries
            /\ Spent' = IF pc = "get" THEN all ELSE past + tries'
        BY <4>1, <4>2 DEF Spent
      <4> HIDE DEF all, past
      <4> QED
        BY <1>1, <4>2, <4>3, <4>4
    <3> QED
      BY <3>1, <3>2, <3>3
  <2> QED
    BY <1>1, <2>1, <2>2 DEF LineFits
<1> QED
  BY <1>2, <1>3, <1>4

LEMMA InitLineFits == Init => LineFits
<1> SUFFICES ASSUME Init PROVE LineFits
  OBVIOUS
<1>1. Len(Line) = 0
  BY DEF Init, Line
<1>2. Taken = 0
  <2>1. arrived = 0 /\ Len(fifo_uart_rx_data) = 0
    BY DEF Init
  <2> QED
    BY <2>1 DEF Taken
<1>3. pc = "get"
  BY DEF Init
<1> QED
  BY <1>1, <1>2, <1>3, BudgetSteps DEF LineFits, Spent

\* The attempts so far are those of the buffers that have arrived.
LEMMA SpentBounded ==
    ASSUME IInv, OInv, LineFits
    PROVE  Len(Line) <= MaxTries * arrived
<1>1. /\ Len(Line) \in Nat /\ tries \in Nat /\ tries <= MaxTries /\ MaxTries \in Nat
      /\ Taken \in Nat /\ arrived \in Nat /\ Taken <= arrived
      /\ pc # "get" => Taken - 1 \in Nat
  BY LineTyped, UplinkAssumption, SMTT(30) DEF IInv, OInv, TypeOK, Buffers
<1>2. Spent <= MaxTries * Taken /\ Spent \in Nat /\ MaxTries * Taken \in Nat
  <2>1. CASE pc = "get"
    BY <1>1, <2>1, BudgetSteps DEF Spent
  <2>2. CASE pc # "get"
    <3>1. /\ Taken - 1 \in Nat /\ (Taken - 1) + 1 = Taken
      BY <1>1, <2>2
    <3>2. /\ MaxTries * (Taken - 1) \in Nat
          /\ MaxTries * Taken = MaxTries * (Taken - 1) + MaxTries
      BY <3>1, BudgetSteps
    <3> QED
      BY <1>1, <2>2, <3>2 DEF Spent
  <2> QED
    BY <2>1, <2>2
<1>3. MaxTries * Taken <= MaxTries * arrived /\ MaxTries * arrived \in Nat
  <2>1. arrived - Taken \in Nat
    BY <1>1
  <2>2. MaxTries * arrived = MaxTries * Taken + MaxTries * (arrived - Taken)
    BY <1>1, <2>1
  <2>3. MaxTries * (arrived - Taken) \in Nat
    BY <2>1, BudgetSteps
  <2> QED
    BY <1>1, <1>2, <2>2, <2>3, BudgetSteps
<1> QED
  BY <1>1, <1>2, <1>3 DEF LineFits

\* Whatever is lost, late or repeated: for each buffer that has arrived the
\* robot gets MaxTries writes at most, with remains of recycled blocks or not.
THEOREM WritesBounded == Spec => [](Len(received) <= MaxTries * arrived)
<1>1. IInv /\ OInv /\ LineFits => Len(received) <= MaxTries * arrived
  <2> SUFFICES ASSUME IInv, OInv, LineFits
               PROVE  Len(received) <= MaxTries * arrived
    OBVIOUS
  <2>1. /\ received \in Seq(Tokens)
        /\ (IF delivered THEN <<>> ELSE pending) \in Seq(Tokens)
    BY EmptySeq DEF IInv, TypeOK
  <2>2. Len(received) <= Len(Line) /\ Len(received) \in Nat /\ Len(Line) \in Nat
    BY <2>1 DEF Line
  <2>3. MaxTries * arrived \in Nat
    BY BudgetSteps DEF IInv, TypeOK
  <2> QED
    BY <2>2, <2>3, SpentBounded
<1> QED
  BY <1>1, InitIInv, NextIInv, InitOInv, NextOInv, InitLineFits, LineFitsKept, PTL DEF Spec
=============================================================================
