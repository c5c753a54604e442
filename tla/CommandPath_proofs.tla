------------------------- MODULE CommandPath_proofs -------------------------
(***************************************************************************)
(* Proofs about the way of a command, for every number of commands and of  *)
(* lost brokers: the theorems about the gateway's main loop, which is part *)
(* of it, carry over, and with what the Raspberry Pi keeps in order they   *)
(* give the order of the robot's moves.                                    *)
(***************************************************************************)
EXTENDS CommandPath, CommandUplink_proofs

\* The Raspberry Pi: commands go from the inbox to the message to the UART.
PiTyped ==
    /\ sent \in Nat
    /\ inbox \in Seq(1..sent)
    /\ message \in {0} \cup 1..sent
    /\ written \in Seq(1..sent)
    /\ p_pc = "write" <=> message # 0

PiInOrder ==
    /\ \A m, n \in 1..Len(written) : m < n => written[m] < written[n]
    /\ \A m, n \in 1..Len(inbox) : m < n => inbox[m] < inbox[n]
    /\ \A m \in 1..Len(written), n \in 1..Len(inbox) : written[m] < inbox[n]
    /\ message # 0 => /\ \A m \in 1..Len(written) : written[m] < message
                      /\ \A n \in 1..Len(inbox) : message < inbox[n]

\* The UART: what the gateway has heard are some of the writes, in order.
HeardInOrder ==
    /\ passed \in Nat /\ passed <= Len(written)
    /\ heard \in Seq(Int) /\ Len(heard) = arrived
    /\ \A n \in 1..Len(heard) : \E m \in 1..passed : heard[n] = written[m]
    /\ \A m, n \in 1..Len(heard) : m < n => heard[m] < heard[n]

\* The robot: the moves, and then what waits, are at some of the places of
\* what it got, in order; what is at the others was no command or is lost.
Moved(at, from) ==
    /\ \A n \in 1..Len(moves) :
         /\ received[at[n]] \in 1..Len(heard)
         /\ moves[n] = heard[received[at[n]]]
    /\ \A n \in 1..Len(waiting) : waiting[n] = received[from[n]]
    /\ \A m, n \in 1..Len(moves) : m < n => at[m] < at[n]
    /\ \A m, n \in 1..Len(waiting) : m < n => from[m] < from[n]
    /\ \A m \in 1..Len(moves), n \in 1..Len(waiting) : at[m] < from[n]

Places == 1..Len(received)

RobotInv ==
    /\ waiting \in Seq(Tokens) /\ moves \in Seq(Int)
    /\ \E at \in [1..Len(moves) -> Places], from \in [1..Len(waiting) -> Places] :
          Moved(at, from)

PathInv == IInv /\ OInv /\ PiTyped /\ PiInOrder /\ HeardInOrder /\ RobotInv

-----------------------------------------------------------------------------
\* The gateway of the path is the one of CommandUplink.
LEMMA UplinkStep == [PathNext]_pathVars => [Next]_vars
  BY DEF PathNext, pathVars, Pi, PathUartPut, PathUartLost, PathUartWork, Gateway, Answer,
         Link, Deliver, DeliverDropped, Serve, Finish, Next, Uart, Radio

LEMMA PathInitInv == PathInit => PathInv
<1> SUFFICES ASSUME PathInit PROVE PathInv
  OBVIOUS
<1>1. IInv /\ OInv
  BY InitIInv, InitOInv DEF PathInit
<1>2. PiTyped /\ PiInOrder
  BY DEF PathInit, P!Init, P!NoMessage, PiTyped, PiInOrder
<1>3. HeardInOrder
  <2>1. passed = 0 /\ heard = <<>> /\ written = <<>> /\ arrived = 0
    BY DEF PathInit, Init, P!Init
  <2> QED
    BY <2>1, EmptySeq DEF HeardInOrder
<1>4. RobotInv
  <2>1. received = <<>> /\ waiting = <<>> /\ moves = <<>>
    BY DEF PathInit, Init
  <2> DEFINE none == [n \in 1..0 |-> 0]
  <2>2. /\ none \in [1..Len(moves) -> Places]
        /\ none \in [1..Len(waiting) -> Places]
    BY <2>1 DEF Places
  <2>3. Moved(none, none)
    BY <2>1 DEF Moved
  <2>4. waiting \in Seq(Tokens) /\ moves \in Seq(Int)
    BY <2>1, EmptySeq
  <2> QED
    BY <2>2, <2>3, <2>4, Zenon DEF RobotInv
<1> QED
  BY <1>1, <1>2, <1>3, <1>4 DEF PathInv

LEMMA AppendType ==
    ASSUME NEW S, NEW s \in Seq(S), NEW e \in S  PROVE Append(s, e) \in Seq(S)
  OBVIOUS

LEMMA Joined ==
    ASSUME NEW S, NEW s \in Seq(S), NEW t \in Seq(S)
    PROVE  /\ s \o t \in Seq(S) /\ Len(s \o t) = Len(s) + Len(t)
           /\ \A n \in 1..Len(s) : (s \o t)[n] = s[n]
           /\ \A n \in 1..Len(t) : (s \o t)[Len(s) + n] = t[n]
  OBVIOUS

LEMMA OneJoins ==
    ASSUME NEW S, NEW s \in Seq(S), NEW t \in Seq(S), Len(t) <= 1, t # <<>>
    PROVE  /\ s \o t \in Seq(S) /\ Len(s \o t) = Len(s) + 1 /\ Len(s) \in Nat
           /\ \A n \in 1..Len(s) : (s \o t)[n] = s[n]
           /\ (s \o t)[Len(s) + 1] = t[1]
<1>1. Len(t) = 1
  <2>1. Len(t) # 0
    OBVIOUS
  <2>2. Len(t) \in Nat
    OBVIOUS
  <2>3. \A x \in Nat : x <= 1 /\ x # 0 => x = 1
    OBVIOUS
  <2> QED
    BY <2>1, <2>2, <2>3, Zenon
<1>2. 1 \in 1..Len(t) /\ Len(s) \in Nat
  BY <1>1
<1> QED
  BY <1>1, <1>2, Joined

\* The Raspberry Pi keeps its commands in order.
LEMMA PiStep ==
    ASSUME PiTyped, PiInOrder, P!Next
    PROVE  /\ PiTyped' /\ PiInOrder'
           /\ written' = written \/ \E c : written' = Append(written, c)
<1> USE DEF PiTyped
<1>0. /\ Len(inbox) \in Nat /\ Len(written) \in Nat
      /\ \A n \in 1..Len(inbox) : inbox[n] \in 1..sent
      /\ \A n \in 1..Len(written) : written[n] \in 1..sent
  OBVIOUS
<1>1. CASE P!PublishCommand
  <2>1. /\ sent' = sent + 1 /\ UNCHANGED <<p_pc, message, written>>
        /\ inbox' = Append(inbox, sent + 1) \/ inbox' = inbox
    BY <1>1 DEF P!PublishCommand, P!broker, P!thread
  <2>2. /\ sent' \in Nat /\ 1..sent \subseteq 1..sent' /\ sent + 1 \in 1..sent'
    BY <2>1
  <2>3. inbox \in Seq(1..sent') /\ written \in Seq(1..sent')
    BY <2>2
  <2>7. inbox' \in Seq(1..sent')
    BY <2>1, <2>2, <2>3, AppendType
  <2>8. message' \in {0} \cup 1..sent'
    BY <2>1, <2>2
  <2>4. PiTyped'
    BY <2>1, <2>2, <2>3, <2>7, <2>8
  <2>5. CASE inbox' = inbox
    BY <2>1, <2>4, <2>5 DEF PiInOrder
  <2>6. CASE inbox' = Append(inbox, sent + 1)
    <3>1. /\ Len(inbox') = Len(inbox) + 1 /\ inbox'[Len(inbox) + 1] = sent + 1
          /\ \A n \in 1..Len(inbox) : inbox'[n] = inbox[n]
      BY <2>6
    <3>2. message < sent + 1 /\ sent \in Nat
      OBVIOUS
    <3>3. /\ \A n \in 1..Len(inbox) : inbox'[n] < sent + 1
          /\ \A n \in 1..Len(written) : written[n] < sent + 1
      <4>1. \A x \in 1..sent : x < sent + 1
        OBVIOUS
      <4> QED
        BY <1>0, <3>1, <4>1, Zenon
    <3>4. \A n \in 1..Len(inbox') : n = Len(inbox) + 1 \/ n \in 1..Len(inbox)
      BY <1>0, <3>1
    <3>5. \A m, n \in 1..Len(inbox') : m < n => inbox'[m] < inbox'[n]
      <4> SUFFICES ASSUME NEW m \in 1..Len(inbox'), NEW n \in 1..Len(inbox'), m < n
                   PROVE  inbox'[m] < inbox'[n]
        OBVIOUS
      <4>1. m \in 1..Len(inbox)
        BY <1>0, <3>1
      <4> QED
        BY <3>1, <3>3, <3>4, <4>1 DEF PiInOrder
    <3>6. \A m \in 1..Len(written), n \in 1..Len(inbox') : written[m] < inbox'[n]
      BY <3>1, <3>3, <3>4 DEF PiInOrder
    <3>7. message # 0 => \A n \in 1..Len(inbox') : message < inbox'[n]
      BY <3>1, <3>2, <3>4 DEF PiInOrder
    <3> QED
      BY <2>1, <2>4, <3>5, <3>6, <3>7, Zenon DEF PiInOrder
  <2> QED
    BY <2>1, <2>5, <2>6
<1>2. CASE P!LoseBroker
  <2>1. PICK n \in 0..Len(inbox) : inbox' = SubSeq(inbox, 1, n)
    BY <1>2 DEF P!LoseBroker
  <2>2. /\ inbox' \in Seq(1..sent) /\ Len(inbox') = n
        /\ \A m \in 1..n : inbox'[m] = inbox[m]
    BY <2>1
  <2>3. UNCHANGED <<sent, p_pc, message, written>>
    BY <1>2 DEF P!LoseBroker, P!thread
  <2>4. PiTyped'
    BY <2>2, <2>3
  <2>5. 1..n \subseteq 1..Len(inbox)
    BY <1>0
  <2> QED
    BY <2>2, <2>3, <2>4, <2>5 DEF PiInOrder
<1>3. CASE P!OnMqttMessage
  <2>1. /\ inbox # <<>> /\ message' = Head(inbox) /\ inbox' = Tail(inbox)
        /\ p_pc' = "write" /\ p_pc = "loop" /\ UNCHANGED <<sent, written>>
    BY <1>3 DEF P!OnMqttMessage, P!Oldest, P!broker
  <2>2. /\ message' = inbox[1] /\ message' \in 1..sent
        /\ inbox' \in Seq(1..sent) /\ Len(inbox') = Len(inbox) - 1
        /\ \A m \in 1..Len(inbox') : inbox'[m] = inbox[m + 1]
    BY <2>1
  <2>3. /\ Len(inbox) \in Nat /\ 1 \in 1..Len(inbox)
        /\ \A m \in 1..Len(inbox') : m + 1 \in 1..Len(inbox) /\ 1 < m + 1
    BY <2>1, <2>2
  <2>4. PiTyped'
    BY <2>1, <2>2
  <2>5. \A m, n \in 1..Len(inbox') : m < n => inbox'[m] < inbox'[n]
    <3>1. \A m, n \in 1..Len(inbox') : m < n => m + 1 < n + 1
      OBVIOUS
    <3> QED
      BY <2>2, <2>3, <3>1, Zenon DEF PiInOrder
  <2>6. \A m \in 1..Len(written'), n \in 1..Len(inbox') : written'[m] < inbox'[n]
    BY <2>1, <2>2, <2>3 DEF PiInOrder
  <2>7. \A m \in 1..Len(written') : written'[m] < message'
    BY <2>1, <2>2, <2>3 DEF PiInOrder
  <2>8. \A n \in 1..Len(inbox') : message' < inbox'[n]
    BY <2>2, <2>3, Zenon DEF PiInOrder
  <2> QED
    BY <2>1, <2>4, <2>5, <2>6, <2>7, <2>8 DEF PiInOrder
<1>4. CASE P!WriteUART
  <2>1. /\ written' = Append(written, message) /\ message' = 0 /\ p_pc' = "sleep"
        /\ UNCHANGED <<sent, inbox>> /\ message # 0
    BY <1>4 DEF P!WriteUART, P!NoMessage, P!broker
  <2>2. /\ written' \in Seq(1..sent) /\ Len(written') = Len(written) + 1
        /\ written'[Len(written) + 1] = message
        /\ \A m \in 1..Len(written) : written'[m] = written[m]
    BY <2>1
  <2> QED
    BY <2>1, <2>2 DEF PiInOrder
<1>5. CASE P!Subscribe \/ P!Reconnect \/ P!Wake \/ P!Raise
  <2>1. /\ UNCHANGED <<sent, inbox, written>> /\ p_pc' # "write"
        /\ message' = 0
    BY <1>5 DEF P!Subscribe, P!Reconnect, P!Wake, P!Waiting, P!Raise, P!thread, P!broker,
                P!NoMessage
  <2> QED
    BY <2>1 DEF PiInOrder
<1> QED
  BY <1>1, <1>2, <1>3, <1>4, <1>5 DEF P!Next, P!mqtt_subscribe

\* A command of the line has been heard.
LEMMA LineArrived ==
    ASSUME PathInv, NEW n \in 1..Len(Line), Line[n] > 0
    PROVE  Line[n] \in 1..Len(heard)
<1>1. PICK m \in 1..Taken : \E a \in 1..Len(Input[m]) : Line[n] = Input[m][a]
  BY DEF PathInv, OInv, LineIsPast
<1>2. Taken \in 0..arrived /\ arrived \in 0..Len(Input) /\ arrived = Len(heard)
  BY DEF PathInv, OInv, Buffers, IInv, TypeOK, HeardInOrder
<1>3. Input[m] = <<m>>
  BY <1>1, <1>2, PathAssumption
<1>4. Line[n] = m
  BY <1>1, <1>3
<1> QED
  BY <1>2, <1>4

\* And so has a command the robot got.
LEMMA ReceivedArrived ==
    ASSUME PathInv, NEW n \in 1..Len(received), received[n] > 0
    PROVE  received[n] \in 1..Len(heard)
<1>1. n \in 1..Len(Line) /\ Line[n] = received[n]
  BY ReceivedOfLine DEF PathInv, IInv, TypeOK
<1> QED
  BY <1>1, LineArrived

\* The gateway hears the next write, or only that one is lost.
LEMMA HeardStep ==
    ASSUME PathInv, PathUartPut \/ PathUartLost
    PROVE  /\ HeardInOrder'
           /\ Len(heard) <= Len(heard')
           /\ \A n \in 1..Len(heard) : heard'[n] = heard[n]
<1>1. /\ written \in Seq(1..sent) /\ sent \in Nat
      /\ \A m, n \in 1..Len(written) : m < n => written[m] < written[n]
  BY DEF PathInv, PiTyped, PiInOrder
<1>2. /\ passed \in Nat /\ passed < Len(written) /\ passed' = passed + 1
      /\ written' = written /\ passed' \in 1..Len(written)
  BY <1>1 DEF PathInv, HeardInOrder, PathUartPut, PathUartLost, Arrives, pi
<1>3. /\ heard \in Seq(Int) /\ Len(heard) = arrived /\ arrived \in Nat
      /\ \A n \in 1..Len(heard) : \E m \in 1..passed : heard[n] = written[m]
      /\ \A m, n \in 1..Len(heard) : m < n => heard[m] < heard[n]
  BY DEF PathInv, HeardInOrder, IInv, TypeOK
<1>4. CASE PathUartLost
  <2>1. heard' = heard /\ arrived' = arrived
    BY <1>4 DEF PathUartLost, UartLost, queue
  <2>2. 1..passed \subseteq 1..passed'
    BY <1>2
  <2> QED
    BY <1>2, <1>3, <2>1, <2>2 DEF HeardInOrder
<1>5. CASE PathUartPut
  <2> DEFINE H == Len(heard)
             w == written[passed']
  <2>1. heard' = Append(heard, w) /\ arrived' = arrived + 1 /\ w \in Int
    BY <1>1, <1>2, <1>5 DEF PathUartPut, UartPut
  <2>2. /\ H \in Nat /\ heard' \in Seq(Int) /\ Len(heard') = H + 1 /\ heard'[H + 1] = w
        /\ \A n \in 1..H : heard'[n] = heard[n]
    BY <1>3, <2>1
  <2>3. \A n \in 1..H : heard[n] < w
    <3> SUFFICES ASSUME NEW n \in 1..H PROVE heard[n] < w
      OBVIOUS
    <3>1. PICK m \in 1..passed : heard[n] = written[m]
      BY <1>3
    <3>2. m \in 1..Len(written) /\ m < passed'
      BY <1>1, <1>2
    <3> QED
      BY <1>1, <1>2, <3>1, <3>2
  <2> HIDE DEF H, w
  <2>4. \A n \in 1..(H + 1) : n = H + 1 \/ n \in 1..H
    BY <2>2
  <2>5. \A n \in 1..(H + 1) : \E m \in 1..passed' : heard'[n] = written[m]
    <3> SUFFICES ASSUME NEW n \in 1..(H + 1)
                 PROVE  \E m \in 1..passed' : heard'[n] = written[m]
      OBVIOUS
    <3>1. CASE n = H + 1
      <4>1. passed' \in 1..passed'
        BY <1>2
      <4> QED
        BY <2>2, <3>1, <4>1 DEF w
    <3>2. CASE n \in 1..H
      <4>1. PICK m \in 1..passed : heard[n] = written[m]
        BY <1>3, <3>2 DEF H
      <4>2. m \in 1..passed'
        BY <1>2
      <4> QED
        BY <2>2, <3>2, <4>1, <4>2
    <3> QED
      BY <2>4, <3>1, <3>2
  <2>6. \A m, n \in 1..(H + 1) : m < n => heard'[m] < heard'[n]
    <3> SUFFICES ASSUME NEW m \in 1..(H + 1), NEW n \in 1..(H + 1), m < n
                 PROVE  heard'[m] < heard'[n]
      OBVIOUS
    <3>1. m \in 1..H
      BY <2>2
    <3> QED
      BY <1>3, <2>2, <2>3, <2>4, <3>1 DEF H
  <2>7. Len(heard') = arrived' /\ H <= Len(heard')
    BY <1>3, <2>1, <2>2 DEF H
  <2> QED
    BY <1>2, <2>2, <2>5, <2>6, <2>7 DEF HeardInOrder, H
<1> QED
  BY <1>4, <1>5

\* What has moved stays, whatever else is written or heard.
LEMMA MovedKept ==
    ASSUME PathInv, UNCHANGED <<received, waiting, moves>>,
           Len(heard) \in Nat, Len(heard') \in Nat, Len(heard) <= Len(heard'),
           \A n \in 1..Len(heard) : heard'[n] = heard[n]
    PROVE  RobotInv'
<1>1. /\ waiting \in Seq(Tokens) /\ moves \in Seq(Int)
  BY DEF PathInv, RobotInv
<1>2. PICK at \in [1..Len(moves) -> Places], from \in [1..Len(waiting) -> Places] :
         Moved(at, from)
  BY DEF PathInv, RobotInv
<1>3. \A n \in 1..Len(heard) : n \in 1..Len(heard') /\ heard'[n] = heard[n]
  OBVIOUS
<1>4. Moved(at, from)'
  BY <1>2, <1>3 DEF Moved
<1>5. /\ at \in [1..Len(moves') -> Places'] /\ from \in [1..Len(waiting') -> Places']
      /\ waiting' \in Seq(Tokens) /\ moves' \in Seq(Int)
  BY <1>1, <1>2 DEF Places
<1> QED
  BY <1>4, <1>5, Zenon DEF RobotInv

\* A write gets to the robot, which accepts it.
LEMMA DeliverKeepsOrder ==
    ASSUME PathInv, Deliver
    PROVE  RobotInv'
<1>1. /\ received \in Seq(Tokens) /\ pending \in Seq(Tokens) /\ Len(pending) <= 1
      /\ waiting \in Seq(Tokens) /\ moves \in Seq(Int)
  BY DEF PathInv, IInv, TypeOK, RobotInv
<1>2. /\ received' = received \o pending /\ waiting' = waiting \o pending
      /\ pending # <<>> /\ UNCHANGED <<heard, moves>>
  BY DEF Deliver, RobotReceives, wire
<1>3. PICK at \in [1..Len(moves) -> Places], from \in [1..Len(waiting) -> Places] :
         Moved(at, from)
  BY DEF PathInv, RobotInv
<1> DEFINE R == Len(received)
           W == Len(waiting)
           c == pending[1]
<1>4. /\ Len(received') = R + 1 /\ Len(waiting') = W + 1
      /\ received' \in Seq(Tokens) /\ waiting' \in Seq(Tokens)
      /\ \A n \in 1..R : received'[n] = received[n]
      /\ received'[R + 1] = c /\ waiting'[W + 1] = c
      /\ \A n \in 1..W : waiting'[n] = waiting[n]
      /\ R \in Nat /\ W \in Nat
  <2>1. /\ received' \in Seq(Tokens) /\ Len(received') = R + 1
        /\ \A n \in 1..R : received'[n] = received[n]
        /\ received'[R + 1] = c /\ R \in Nat
    BY <1>1, <1>2, OneJoins
  <2>2. /\ waiting' \in Seq(Tokens) /\ Len(waiting') = W + 1
        /\ \A n \in 1..W : waiting'[n] = waiting[n]
        /\ waiting'[W + 1] = c /\ W \in Nat
    BY <1>1, <1>2, OneJoins
  <2> QED
    BY <2>1, <2>2
<1>5. /\ \A n \in 1..Len(moves) : at[n] \in 1..R
      /\ \A n \in 1..W : from[n] \in 1..R
  BY <1>3 DEF Places
<1> HIDE DEF R, W, c
<1>6. /\ \A n \in 1..(W + 1) : n = W + 1 \/ n \in 1..W
      /\ \A n \in 1..W : n \in 1..(W + 1) /\ n # W + 1
      /\ W + 1 \in 1..(W + 1)
      /\ \A n \in 1..R : n < R + 1 /\ n \in 1..(R + 1)
      /\ R + 1 \in 1..(R + 1)
  BY <1>4
<1>7. PICK new \in [1..(W + 1) -> 1..(R + 1)] :
         new[W + 1] = R + 1 /\ \A n \in 1..W : new[n] = from[n]
  <2> DEFINE g == [n \in 1..(W + 1) |-> IF n = W + 1 THEN R + 1 ELSE from[n]]
  <2>1. /\ g[W + 1] = R + 1 /\ \A n \in 1..W : g[n] = from[n]
        /\ g \in [1..(W + 1) -> 1..(R + 1)]
    BY <1>5, <1>6
  <2> QED
    BY <2>1
<1>8. \A n \in 1..(W + 1) : waiting'[n] = received'[new[n]]
  BY <1>3, <1>4, <1>5, <1>6, <1>7 DEF Moved, W
<1>9. \A m, n \in 1..(W + 1) : m < n => new[m] < new[n]
  <2> SUFFICES ASSUME NEW m \in 1..(W + 1), NEW n \in 1..(W + 1), m < n
               PROVE  new[m] < new[n]
    OBVIOUS
  <2>1. m \in 1..W
    BY <1>4
  <2>2. CASE n = W + 1
    BY <1>5, <1>6, <1>7, <2>1, <2>2
  <2>3. CASE n \in 1..W
    BY <1>3, <1>7, <2>1, <2>3 DEF Moved, W
  <2> QED
    BY <1>6, <2>2, <2>3
<1>10. \A m \in 1..Len(moves), n \in 1..(W + 1) : at[m] < new[n]
  BY <1>3, <1>5, <1>6, <1>7 DEF Moved, W
<1>11. \A n \in 1..Len(moves) : received'[at[n]] = received[at[n]]
  BY <1>4, <1>5
<1>12. Moved(at, new)'
  BY <1>2, <1>3, <1>4, <1>8, <1>9, <1>10, <1>11 DEF Moved
<1>13. /\ at \in [1..Len(moves') -> Places'] /\ new \in [1..Len(waiting') -> Places']
       /\ moves' \in Seq(Int) /\ waiting' \in Seq(Tokens)
  <2>1. Places' = 1..(R + 1) /\ Places \subseteq Places'
    BY <1>4, <1>6 DEF Places, R
  <2> QED
    BY <1>1, <1>2, <1>3, <1>4, <1>7, <2>1
<1> QED
  BY <1>12, <1>13, Zenon DEF RobotInv

\* It gets to the robot, which has no memory for it.
LEMMA DropKeepsOrder ==
    ASSUME PathInv, DeliverDropped
    PROVE  RobotInv'
<1>1. /\ received \in Seq(Tokens) /\ pending \in Seq(Tokens)
      /\ waiting \in Seq(Tokens) /\ moves \in Seq(Int)
  BY DEF PathInv, IInv, TypeOK, RobotInv
<1>2. /\ received' = received \o pending /\ UNCHANGED <<heard, waiting, moves>>
  BY DEF DeliverDropped, RobotReceives, wire
<1>3. PICK at \in [1..Len(moves) -> Places], from \in [1..Len(waiting) -> Places] :
         Moved(at, from)
  BY DEF PathInv, RobotInv
<1>4. \A n \in Places : n \in Places' /\ received'[n] = received[n]
  BY <1>1, <1>2 DEF Places
<1>5. Moved(at, from)'
  <2>1. /\ \A n \in 1..Len(moves) : received'[at[n]] = received[at[n]]
        /\ \A n \in 1..Len(waiting) : received'[from[n]] = received[from[n]]
    BY <1>3, <1>4
  <2> QED
    BY <1>2, <1>3, <2>1 DEF Moved
<1>6. /\ at \in [1..Len(moves') -> Places'] /\ from \in [1..Len(waiting') -> Places']
      /\ moves' \in Seq(Int) /\ waiting' \in Seq(Tokens)
  BY <1>1, <1>2, <1>3, <1>4
<1> QED
  BY <1>5, <1>6, Zenon DEF RobotInv

\* The robot serves the oldest frame.
LEMMA ServeKeepsOrder ==
    ASSUME PathInv, Serve
    PROVE  RobotInv'
<1>1. waiting \in Seq(Tokens) /\ moves \in Seq(Int) /\ heard \in Seq(Int)
  BY DEF PathInv, RobotInv, HeardInOrder
<1>2. /\ waiting # <<>> /\ waiting' = Tail(waiting) /\ UNCHANGED <<heard, received>>
      /\ \/ Head(waiting) > 0 /\ moves' = Append(moves, heard[Head(waiting)])
         \/ moves' = moves
  BY DEF Serve, CommandOf, vars, wire
<1>3. PICK at \in [1..Len(moves) -> Places], from \in [1..Len(waiting) -> Places] :
         Moved(at, from)
  BY DEF PathInv, RobotInv
<1> DEFINE W == Len(waiting)
           M == Len(moves)
<1>4. /\ W \in Nat /\ W > 0 /\ M \in Nat /\ Head(waiting) = waiting[1]
      /\ waiting' \in Seq(Tokens) /\ Len(waiting') = W - 1
      /\ \A n \in 1..(W - 1) : waiting'[n] = waiting[n + 1]
  BY <1>1, <1>2
<1> HIDE DEF W, M
<1>5. /\ \A n \in 1..(W - 1) : n + 1 \in 1..W /\ 1 < n + 1
      /\ \A m, n \in 1..(W - 1) : m < n => m + 1 < n + 1
      /\ 1 \in 1..W
  BY <1>4
<1>6. PICK later \in [1..(W - 1) -> Places] :
         \A n \in 1..(W - 1) : later[n] = from[n + 1]
  <2> DEFINE g == [n \in 1..(W - 1) |-> from[n + 1]]
  <2>1. g \in [1..(W - 1) -> Places] /\ \A n \in 1..(W - 1) : g[n] = from[n + 1]
    BY <1>3, <1>5 DEF W
  <2> QED
    BY <2>1
<1>7. /\ \A n \in 1..W : waiting[n] = received[from[n]] /\ from[n] \in Places
      /\ \A m, n \in 1..W : m < n => from[m] < from[n]
      /\ \A m \in 1..M, n \in 1..W : at[m] < from[n]
      /\ \A m, n \in 1..M : m < n => at[m] < at[n]
      /\ \A n \in 1..M : /\ at[n] \in Places /\ received[at[n]] \in 1..Len(heard)
                         /\ moves[n] = heard[received[at[n]]]
  BY <1>3 DEF Moved, W, M
<1>8. /\ \A n \in 1..(W - 1) : waiting'[n] = received[later[n]]
      /\ \A m, n \in 1..(W - 1) : m < n => later[m] < later[n]
  BY <1>4, <1>5, <1>6, <1>7
<1>9. CASE moves' = moves
  <2>1. \A m \in 1..M, n \in 1..(W - 1) : at[m] < later[n]
    BY <1>5, <1>6, <1>7
  <2>2. Moved(at, later)'
    BY <1>2, <1>4, <1>7, <1>8, <1>9, <2>1 DEF Moved, M
  <2> QED
    BY <1>1, <1>2, <1>3, <1>4, <1>6, <1>9, <2>2, Zenon DEF RobotInv, Places
<1>10. CASE Head(waiting) > 0 /\ moves' = Append(moves, heard[Head(waiting)])
  <2> DEFINE p == from[1]
  <2>1. p \in Places /\ waiting[1] = received[p] /\ received[p] \in 1..Len(heard)
    <3>1. p \in 1..Len(received) /\ received[p] > 0
      BY <1>4, <1>5, <1>7, <1>10 DEF Places
    <3> QED
      BY <1>5, <1>7, <3>1, ReceivedArrived
  <2>2. /\ Len(moves') = M + 1 /\ moves' \in Seq(Int)
        /\ moves'[M + 1] = heard[received[p]]
        /\ \A n \in 1..M : moves'[n] = moves[n]
    <3>1. heard[received[p]] \in Int
      BY <1>1, <2>1
    <3> QED
      BY <1>1, <1>4, <1>10, <2>1, <3>1 DEF M
  <2>3. \A m \in 1..M : at[m] < p
    BY <1>5, <1>7
  <2>4. \A n \in 1..(W - 1) : p < later[n]
    BY <1>5, <1>6, <1>7
  <2> HIDE DEF p
  <2>5. /\ \A n \in 1..(M + 1) : n = M + 1 \/ n \in 1..M
        /\ \A n \in 1..M : n \in 1..(M + 1) /\ n # M + 1
        /\ M + 1 \in 1..(M + 1)
    BY <1>4
  <2>6. PICK new \in [1..(M + 1) -> Places] :
           new[M + 1] = p /\ \A n \in 1..M : new[n] = at[n]
    <3> DEFINE g == [n \in 1..(M + 1) |-> IF n = M + 1 THEN p ELSE at[n]]
    <3>1. /\ g \in [1..(M + 1) -> Places] /\ g[M + 1] = p
          /\ \A n \in 1..M : g[n] = at[n]
      BY <1>7, <2>1, <2>5
    <3> QED
      BY <3>1
  <2>7. \A n \in 1..(M + 1) : /\ received[new[n]] \in 1..Len(heard)
                              /\ moves'[n] = heard[received[new[n]]]
    BY <1>7, <2>1, <2>2, <2>5, <2>6
  <2>8. \A m, n \in 1..(M + 1) : m < n => new[m] < new[n]
    <3> SUFFICES ASSUME NEW m \in 1..(M + 1), NEW n \in 1..(M + 1), m < n
                 PROVE  new[m] < new[n]
      OBVIOUS
    <3>1. m \in 1..M
      BY <1>4
    <3> QED
      BY <1>7, <2>3, <2>5, <2>6, <3>1
  <2>9. \A m \in 1..(M + 1), n \in 1..(W - 1) : new[m] < later[n]
    <3> SUFFICES ASSUME NEW m \in 1..(M + 1), NEW n \in 1..(W - 1)
                 PROVE  new[m] < later[n]
      OBVIOUS
    <3>1. CASE m = M + 1
      BY <2>4, <2>6, <3>1
    <3>2. CASE m \in 1..M
      BY <1>5, <1>6, <1>7, <2>6, <3>2
    <3> QED
      BY <2>5, <3>1, <3>2
  <2>10. Moved(new, later)'
    BY <1>2, <1>4, <1>8, <2>2, <2>7, <2>8, <2>9 DEF Moved
  <2> QED
    BY <1>2, <1>4, <1>6, <2>2, <2>6, <2>10, Zenon DEF RobotInv, Places
<1> QED
  BY <1>2, <1>9, <1>10

LEMMA PathStep == PathInv /\ [PathNext]_pathVars => PathInv'
<1> SUFFICES ASSUME PathInv, [PathNext]_pathVars PROVE PathInv'
  OBVIOUS
<1>1. IInv' /\ OInv'
  BY UplinkStep, NextIInv, NextOInv DEF PathInv
<1>2. heard \in Seq(Int) /\ Len(heard) \in Nat /\ Len(heard) <= Len(heard)
  BY DEF PathInv, HeardInOrder
<1>3. CASE Pi
  <2>1. PiTyped' /\ PiInOrder' /\ (written' = written \/ \E c : written' = Append(written, c))
    BY <1>3, PiStep DEF Pi, PathInv
  <2>2. UNCHANGED <<arrived, passed, heard, received, waiting, moves>>
    BY <1>3 DEF Pi, vars, wire, robot
  <2>3. RobotInv'
    BY <1>2, <2>2, MovedKept
  <2>4. /\ Len(written) <= Len(written') /\ Len(written) \in Nat /\ Len(written') \in Nat
        /\ \A n \in 1..Len(written) : written'[n] = written[n]
    <3>1. written \in Seq(1..sent)
      BY DEF PathInv, PiTyped
    <3>2. ASSUME NEW c, written' = Append(written, c)
          PROVE  /\ Len(written') = Len(written) + 1
                 /\ \A n \in 1..Len(written) : written'[n] = written[n]
      BY <3>1, <3>2
    <3> QED
      BY <2>1, <3>1, <3>2
  <2>5. HeardInOrder'
    <3>1. \A m \in 1..passed : written'[m] = written[m]
      <4>1. 1..passed \subseteq 1..Len(written)
        BY <2>4 DEF PathInv, HeardInOrder
      <4> QED
        BY <2>4, <4>1
    <3>2. passed \in Nat /\ passed <= Len(written')
      BY <2>4 DEF PathInv, HeardInOrder
    <3> QED
      BY <2>2, <3>1, <3>2 DEF PathInv, HeardInOrder
  <2> QED
    BY <1>1, <2>1, <2>3, <2>5 DEF PathInv
<1>4. ASSUME UNCHANGED pi PROVE PiTyped' /\ PiInOrder'
  BY <1>4 DEF PathInv, PiTyped, PiInOrder, pi
<1>5. CASE PathUartPut \/ PathUartLost
  <2>1. UNCHANGED <<pi, received, waiting, moves>>
    BY <1>5 DEF PathUartPut, PathUartLost, Arrives, UartPut, UartLost, link, robot
  <2>2. /\ HeardInOrder' /\ Len(heard) <= Len(heard')
        /\ \A n \in 1..Len(heard) : heard'[n] = heard[n]
    BY <1>5, HeardStep
  <2>3. Len(heard') \in Nat
    BY <2>2 DEF HeardInOrder
  <2>4. RobotInv'
    BY <1>2, <2>1, <2>2, <2>3, MovedKept
  <2> QED
    BY <1>1, <1>4, <2>1, <2>2, <2>4 DEF PathInv
<1>6. ASSUME UNCHANGED <<pi, wire, arrived>> PROVE HeardInOrder'
  BY <1>6 DEF PathInv, HeardInOrder, pi, wire
<1>7. CASE PathUartWork \/ Gateway \/ Answer \/ Link \/ Finish \/ UNCHANGED pathVars
  <2>1. UNCHANGED <<pi, wire, received, waiting, moves, arrived>>
    BY <1>7 DEF PathUartWork, UartWork, Gateway, MainLoop, Get, Send, SendAccepted,
       SendFailed, Take, Timeout, Slept, Free, Answer, Acknowledged, Link, AttError,
       Disconnect, Connect, Finish, queue, link, robot, vars, pathVars
  <2>2. RobotInv'
    BY <1>2, <2>1, MovedKept DEF wire
  <2> QED
    BY <1>1, <1>4, <1>6, <2>1, <2>2 DEF PathInv
<1>8. CASE Deliver \/ DeliverDropped \/ Serve
  <2>1. UNCHANGED <<pi, wire, arrived>>
    BY <1>8 DEF Deliver, DeliverDropped, Serve, RobotReceives, queue, vars
  <2>2. RobotInv'
    BY <1>8, DeliverKeepsOrder, DropKeepsOrder, ServeKeepsOrder
  <2> QED
    BY <1>1, <1>4, <1>6, <2>1, <2>2 DEF PathInv
<1> QED
  BY <1>3, <1>5, <1>7, <1>8 DEF PathNext

-----------------------------------------------------------------------------
THEOREM PathInvariance == PathSpec => []PathInv
<1> QED
  BY PathInitInv, PathStep, PTL DEF PathSpec

\* On the whole path, too, the UART gets every command at most once and in
\* the order of the buttons.
THEOREM UartInOrder == PathSpec => []WrittenInOrder
<1>1. PathInv => WrittenInOrder
  <2> SUFFICES ASSUME PathInv PROVE P!WrittenInOrder
    BY DEF WrittenInOrder
  <2> DEFINE last == IF message = 0 THEN <<>> ELSE <<message>>
             line == written \o last \o inbox
             w == Len(written)
             l == Len(last)
             x == Len(inbox)
  <2>1. /\ written \in Seq(Nat) /\ inbox \in Seq(Nat) /\ message \in Nat
    BY DEF PathInv, PiTyped
  <2>2. /\ last \in Seq(Nat) /\ l \in {0, 1}
        /\ l = 1 => last[1] = message /\ message # 0
    BY <2>1
  <2> HIDE DEF last
  <2>3. /\ DOMAIN line = 1..(w + l + x) /\ w \in Nat /\ x \in Nat
        /\ \A n \in 1..w : line[n] = written[n]
        /\ l = 1 => line[w + 1] = last[1]
        /\ \A n \in 1..x : line[w + l + n] = inbox[n]
    BY <2>1, <2>2
  <2> HIDE DEF w, x, l, line
  <2>4. ASSUME NEW n \in 1..(w + l + x)
        PROVE  \/ n \in 1..w
               \/ n = w + 1 /\ l = 1
               \/ n - (w + l) \in 1..x /\ n = w + l + (n - (w + l))
    BY <2>2, <2>3
  <2>5. ASSUME NEW m \in 1..(w + l + x), NEW n \in 1..(w + l + x), m < n
        PROVE  line[m] < line[n]
    <3>1. CASE m \in 1..w /\ n \in 1..w
      BY <2>3, <2>5, <3>1 DEF PathInv, PiInOrder, w
    <3>2. CASE m \in 1..w /\ n = w + 1 /\ l = 1
      BY <2>2, <2>3, <3>2 DEF PathInv, PiInOrder, w
    <3>3. CASE n - (w + l) \in 1..x
      <4> DEFINE o == n - (w + l)
      <4>1. line[n] = inbox[o] /\ o \in 1..x
        BY <2>2, <2>3, <3>3
      <4>2. m - (w + l) \in 1..x => m - (w + l) < o
        BY <2>2, <2>3, <2>5
      <4> HIDE DEF o
      <4>3. CASE m \in 1..w
        BY <2>3, <4>1, <4>3 DEF PathInv, PiInOrder, w, x
      <4>4. CASE m = w + 1 /\ l = 1
        BY <2>2, <2>3, <4>1, <4>4 DEF PathInv, PiInOrder, x
      <4>5. CASE m - (w + l) \in 1..x
        <5>1. line[m] = inbox[m - (w + l)]
          BY <2>2, <2>3, <4>5
        <5> QED
          BY <4>1, <4>2, <4>5, <5>1 DEF PathInv, PiInOrder, x
      <4> QED
        BY <2>4, <4>3, <4>4, <4>5
    <3> QED
      BY <2>2, <2>3, <2>4, <2>5, <3>1, <3>2, <3>3
  <2> QED
    BY <2>3, <2>5 DEF P!WrittenInOrder, P!NoMessage, line, last
<1> QED
  BY <1>1, PathInvariance, PTL

\* With the three attempts of the gateway: the moves are at places of what the
\* robot got, and what it got is in order and holds no command three times.
LEMMA MovesFollow ==
    ASSUME PathInv, MaxTries <= 3
    PROVE  MovesAsPressed
<1>1. PICK at \in [1..Len(moves) -> Places], from \in [1..Len(waiting) -> Places] :
         Moved(at, from)
  BY DEF PathInv, RobotInv
<1>2. /\ received \in Seq(Tokens) /\ DOMAIN moves = 1..Len(moves)
      /\ DOMAIN received = 1..Len(received)
  BY DEF PathInv, RobotInv, IInv, TypeOK
<1>3. \A n \in 1..Len(received) : n \in 1..Len(Line) /\ Line[n] = received[n]
  BY <1>2, ReceivedOfLine DEF PathInv, IInv
<1>4. \A m, n \in 1..Len(received) :
         m < n /\ received[m] > 0 /\ received[n] > 0 => received[m] <= received[n]
  BY <1>3 DEF PathInv, OInv, LineInOrder
<1>5. \A l, m, n \in 1..Len(received) :
         l < m /\ m < n /\ received[l] = received[m] /\ received[m] = received[n]
            => received[n] <= 0
  BY <1>3 DEF PathInv, OInv, NoThird
<1> DEFINE c(n) == received[at[n]]
<1>6. \A n \in 1..Len(moves) : /\ at[n] \in 1..Len(received)
                              /\ c(n) \in 1..Len(heard) /\ moves[n] = heard[c(n)]
  BY <1>1 DEF Moved, Places
<1>7. \A m, n \in 1..Len(moves) : m < n => at[m] < at[n] /\ c(m) <= c(n)
  <2> SUFFICES ASSUME NEW m \in 1..Len(moves), NEW n \in 1..Len(moves), m < n
               PROVE  at[m] < at[n] /\ c(m) <= c(n)
    OBVIOUS
  <2>1. at[m] < at[n]
    BY <1>1 DEF Moved
  <2>2. c(m) > 0 /\ c(n) > 0
    BY <1>6
  <2> QED
    BY <1>4, <1>6, <2>1, <2>2
<1>8. \A m, n \in 1..Len(heard) : /\ m < n => heard[m] < heard[n]
                                 /\ heard[m] \in Int
  BY DEF PathInv, HeardInOrder
<1>9. \A l, m, n \in 1..Len(moves) : l < m /\ m < n => c(l) < c(n)
  <2> SUFFICES ASSUME NEW l \in 1..Len(moves), NEW m \in 1..Len(moves),
                      NEW n \in 1..Len(moves), l < m, m < n, ~ (c(l) < c(n))
               PROVE  FALSE
    OBVIOUS
  <2>1. c(l) <= c(m) /\ c(m) <= c(n) /\ at[l] < at[m] /\ at[m] < at[n]
    BY <1>7
  <2>2. c(l) \in Nat \ {0} /\ c(m) \in Nat \ {0} /\ c(n) \in Nat \ {0}
    BY <1>6
  <2>3. c(l) = c(m) /\ c(m) = c(n)
    BY <2>1, <2>2
  <2>4. c(n) <= 0
    BY <1>5, <1>6, <2>1, <2>3
  <2> QED
    BY <2>2, <2>4
<1> HIDE DEF c
<1>10. \A m, n \in 1..Len(moves) : m < n => moves[m] <= moves[n]
  <2> SUFFICES ASSUME NEW m \in 1..Len(moves), NEW n \in 1..Len(moves), m < n
               PROVE  moves[m] <= moves[n]
    OBVIOUS
  <2>1. c(m) < c(n) \/ c(m) = c(n)
    BY <1>6, <1>7
  <2> QED
    BY <1>6, <1>8, <2>1
<1>11. \A l, m, n \in 1..Len(moves) : l < m /\ m < n => moves[l] < moves[n]
  BY <1>6, <1>8, <1>9
<1> QED
  BY <1>2, <1>10, <1>11 DEF MovesAsPressed

\* The robot moves in the order in which the buttons were pressed; with the
\* three attempts of the gateway, no press moves it a third time.
THEOREM MovesInOrder ==
    ASSUME MaxTries <= 3
    PROVE  PathSpec => []MovesAsPressed
<1>1. PathInv => MovesAsPressed
  BY MovesFollow
<1> QED
  BY <1>1, PathInvariance, PTL

-----------------------------------------------------------------------------
\* A write of the Raspberry Pi is one command, and so is every buffer: behind
\* it a block holds nothing that the loop could take for a command.
OneCommand(b) == \A j \in 1..Len(b) : b[j] >= 0 /\ (j > 1 => b[j] = 0)
TailClear(b) == \A j \in 2..Len(b) : b[j] = 0

NoRemains ==
    /\ TailClear(rx) /\ OneCommand(buf)
    /\ \A b \in freed : OneCommand(b)
    /\ \A n \in 1..Len(fifo_uart_rx_data) : OneCommand(fifo_uart_rx_data[n])
    /\ \A n \in 1..Len(pending) : pending[n] >= 0
    /\ \A n \in 1..Len(received) : received[n] >= 0

\* One command joins what a block held: what is left behind it are zeros.
LEMMA FilledHasOne ==
    ASSUME NEW n \in Nat \ {0}, NEW old \in Seq(Int), TailClear(old)
    PROVE  OneCommand(Filled(<<n>>, old))
<1> DEFINE rest == [j \in 1..(Len(old) - 1) |-> Stale(old[1 + j])]
<1>1. Len(<<n>>) = 1 /\ <<n>> \in Seq(Int) /\ <<n>>[1] = n
  OBVIOUS
<1>2. Filled(<<n>>, old) = <<n>> \o rest
  BY <1>1 DEF Filled
<1>3. \A j \in 1..(Len(old) - 1) : rest[j] = 0
  <2> SUFFICES ASSUME NEW j \in 1..(Len(old) - 1) PROVE rest[j] = 0
    OBVIOUS
  <2>1. 1 + j \in 2..Len(old)
    OBVIOUS
  <2>2. old[1 + j] = 0
    BY <2>1 DEF TailClear
  <2> QED
    BY <2>2 DEF Stale
<1>4. CASE Len(old) = 0
  <2>1. rest = <<>>
    BY <1>4
  <2> HIDE DEF rest
  <2>2. Filled(<<n>>, old) = <<n>>
    BY <1>1, <1>2, <2>1
  <2> QED
    BY <1>1, <2>2 DEF OneCommand
<1>5. CASE Len(old) # 0
  <2>1. Len(old) - 1 \in Nat
    BY <1>5
  <2>2. rest \in Seq(Int) /\ Len(rest) = Len(old) - 1
    BY <1>3, <2>1
  <2> HIDE DEF rest
  <2>3. /\ Len(<<n>> \o rest) = Len(old)
        /\ (<<n>> \o rest)[1] = n
        /\ \A j \in 2..Len(old) : (<<n>> \o rest)[j] = rest[j - 1]
    BY <1>1, <2>1, <2>2
  <2>4. \A j \in 1..Len(old) : /\ j > 1 => j \in 2..Len(old) /\ j - 1 \in 1..(Len(old) - 1)
                               /\ ~ (j > 1) => j = 1
    BY <2>1
  <2>5. ASSUME NEW j \in 1..Len(old)
        PROVE  (<<n>> \o rest)[j] >= 0 /\ (j > 1 => (<<n>> \o rest)[j] = 0)
    <3>1. CASE j > 1
      BY <1>3, <2>3, <2>4, <3>1
    <3>2. CASE ~ (j > 1)
      BY <2>3, <2>4, <3>2
    <3> QED
      BY <3>1, <3>2
  <2> QED
    BY <1>2, <2>3, <2>5, Zenon DEF OneCommand
<1> QED
  BY <1>4, <1>5

\* Tokens are integers, and so are sequences of them.
LEMMA TokenSeq == Seq(Tokens) \subseteq Seq(Int)
<1>1. \A S, T : S \subseteq T => \A s \in Seq(S) : s \in Seq(T)
  OBVIOUS
<1> QED
  BY <1>1, TokenInt

LEMMA NoRemainsKept == PathInv /\ NoRemains /\ [PathNext]_pathVars => NoRemains'
<1> SUFFICES ASSUME PathInv, NoRemains, [Next]_vars
             PROVE  NoRemains'
  BY UplinkStep
<1>1. /\ rx \in Seq(Int) /\ fifo_uart_rx_data \in Seq(Seq(Tokens)) /\ buf \in Seq(Int)
      /\ pending \in Seq(Int) /\ received \in Seq(Int)
      /\ i \in 0..Len(buf) /\ arrived \in 0..Len(Input)
  BY TokenSeq DEF PathInv, IInv, TypeOK
<1>0. ASSUME NextBuffer
      PROVE  TailClear(rx') /\ freed' \subseteq freed
  <2>1. \A b \in freed \cup Recycled : TailClear(b)
    BY PathAssumption DEF NoRemains, OneCommand, TailClear
  <2> QED
    BY <1>0, <2>1 DEF NextBuffer, TailClear
<1>2. CASE UartPut
  <2>1. arrived' \in 1..MaxCommands
    BY <1>1, <1>2, PathAssumption DEF UartPut
  <2> DEFINE new == <<arrived'>>
  <2>6. Input[arrived'] = new /\ arrived' \in Nat \ {0}
    BY <2>1, PathAssumption
  <2> HIDE DEF new
  <2>7. Received(new, rx) = {new}
    BY PathAssumption DEF Received
  <2>8. /\ fifo_uart_rx_data' = Append(fifo_uart_rx_data, Filled(new, rx))
        /\ NextBuffer /\ UNCHANGED <<buf, pending, received>>
    BY <1>2, <2>6, <2>7 DEF UartPut, loop, link
  <2>2. OneCommand(Filled(new, rx))
    BY <1>1, <2>6, FilledHasOne DEF NoRemains, new
  <2>3. \A n \in 1..Len(fifo_uart_rx_data') : OneCommand(fifo_uart_rx_data'[n])
    <3>1. /\ Len(fifo_uart_rx_data') = Len(fifo_uart_rx_data) + 1
          /\ fifo_uart_rx_data'[Len(fifo_uart_rx_data) + 1] = Filled(new, rx)
          /\ \A n \in 1..Len(fifo_uart_rx_data) :
                fifo_uart_rx_data'[n] = fifo_uart_rx_data[n]
      BY <1>1, <2>8
    <3>2. \A n \in 1..Len(fifo_uart_rx_data') :
             n = Len(fifo_uart_rx_data) + 1 \/ n \in 1..Len(fifo_uart_rx_data)
      <4>1. Len(fifo_uart_rx_data) \in Nat
        BY <1>1
      <4> QED
        BY <3>1, <4>1
    <3> QED
      BY <2>2, <3>1, <3>2, Zenon DEF NoRemains
  <2> QED
    BY <1>0, <2>3, <2>8 DEF NoRemains
<1>9. CASE UartLost \/ UartWork
  <2>1. /\ UNCHANGED <<fifo_uart_rx_data, buf, pending, received>>
        /\ NextBuffer \/ UNCHANGED <<rx, freed>>
    BY <1>9 DEF UartLost, UartWork, queue, loop, link
  <2> QED
    BY <1>0, <2>1 DEF NoRemains
<1>3. CASE Get
  <2>1. /\ buf' = fifo_uart_rx_data[1] /\ 1 \in 1..Len(fifo_uart_rx_data)
        /\ Len(fifo_uart_rx_data') = Len(fifo_uart_rx_data) - 1
        /\ \A n \in 1..Len(fifo_uart_rx_data') :
              /\ fifo_uart_rx_data'[n] = fifo_uart_rx_data[n + 1]
              /\ n + 1 \in 1..Len(fifo_uart_rx_data)
        /\ UNCHANGED <<rx, freed, pending, received>>
    BY <1>1, <1>3 DEF Get, link
  <2> QED
    BY <2>1 DEF NoRemains
<1>4. CASE SendAccepted
  <2>1. /\ i + 1 \in 1..Len(buf) /\ pending' = <<buf[i + 1]>>
        /\ UNCHANGED <<rx, freed, fifo_uart_rx_data, buf, received>>
    BY <1>1, <1>4 DEF SendAccepted, Send, MoreToDo, queue
  <2>2. buf[i + 1] >= 0
    BY <2>1 DEF NoRemains, OneCommand
  <2> QED
    BY <2>1, <2>2 DEF NoRemains
<1>5. CASE Free
  <2>1. /\ freed' = freed \cup {buf} /\ buf' = <<>>
        /\ UNCHANGED <<rx, fifo_uart_rx_data, pending, received>>
    BY <1>5 DEF Free, link
  <2> QED
    BY <2>1 DEF NoRemains, OneCommand
<1>6. CASE RobotReceives
  <2>1. /\ received' = received \o pending
        /\ UNCHANGED <<rx, freed, fifo_uart_rx_data, buf, pending>>
    BY <1>6 DEF RobotReceives, queue, loop
  <2>2. \A n \in 1..Len(received') : received'[n] >= 0
    <3>1. /\ Len(received') = Len(received) + Len(pending)
          /\ \A n \in 1..Len(received) : received'[n] = received[n]
          /\ \A n \in 1..Len(pending) : received'[Len(received) + n] = pending[n]
      BY <1>1, <2>1
    <3> SUFFICES ASSUME NEW n \in 1..Len(received') PROVE received'[n] >= 0
      OBVIOUS
    <3>2. CASE n \in 1..Len(received)
      BY <3>1, <3>2 DEF NoRemains
    <3>3. CASE n > Len(received)
      <4>1. n - Len(received) \in 1..Len(pending) /\ n = Len(received) + (n - Len(received))
        BY <1>1, <3>1, <3>3
      <4> QED
        BY <3>1, <4>1 DEF NoRemains
    <3> QED
      BY <1>1, <3>2, <3>3
  <2> QED
    BY <2>1, <2>2 DEF NoRemains
<1>7. CASE Acknowledged \/ AttError \/ Disconnect
  <2>1. /\ UNCHANGED <<rx, freed, fifo_uart_rx_data, buf, received>>
        /\ pending' = <<>> \/ pending' = pending
    BY <1>7 DEF Acknowledged, AttError, Disconnect, WriteOver, queue, loop
  <2> QED
    BY <2>1 DEF NoRemains
<1>8. CASE SendFailed \/ Take \/ Timeout \/ Slept \/ Connect \/ UNCHANGED vars
  <2>1. UNCHANGED <<rx, freed, fifo_uart_rx_data, buf, received, pending>>
    BY <1>8 DEF SendFailed, Send, Take, Timeout, Slept, Connect, vars, queue, loop, link
  <2> QED
    BY <2>1 DEF NoRemains
<1> QED
  BY <1>2, <1>3, <1>4, <1>5, <1>6, <1>7, <1>8, <1>9 DEF Next, Uart, MainLoop, Radio

\* As long as every write of the Raspberry Pi is one command, the buffers that
\* are not cleared do no harm: no command is sent from the remains of one.
THEOREM NoOldCommands == PathSpec => [](\A n \in DOMAIN received : received[n] >= 0)
<1>1. PathInit => NoRemains
  <2> SUFFICES ASSUME PathInit PROVE NoRemains
    OBVIOUS
  <2>1. /\ rx \in Recycled /\ buf = <<>> /\ freed = {} /\ fifo_uart_rx_data = <<>>
        /\ pending = <<>> /\ received = <<>>
    BY DEF PathInit, Init
  <2> QED
    BY <2>1, PathAssumption DEF NoRemains, OneCommand, TailClear
<1>2. PathInv /\ NoRemains => \A n \in DOMAIN received : received[n] >= 0
  BY DEF PathInv, IInv, TypeOK, NoRemains
<1> QED
  BY <1>1, <1>2, NoRemainsKept, PathInitInv, PathStep, PTL DEF PathSpec

-----------------------------------------------------------------------------
(***************************************************************************)
(* The robot: what waits there are frames the driver can read.             *)
(***************************************************************************)
FrameByte == Key \cup {"1", "3", "<", ">"}

\* A command that waits at the robot was heard by the gateway.
LEMMA WaitingArrived ==
    ASSUME PathInv, NEW j \in 1..Len(waiting), waiting[j] > 0
    PROVE  waiting[j] \in 1..Len(heard)
<1>1. PICK at \in [1..Len(moves) -> Places], from \in [1..Len(waiting) -> Places] :
         Moved(at, from)
  BY DEF PathInv, RobotInv
<1>2. waiting[j] = received[from[j]] /\ from[j] \in 1..Len(received)
  BY <1>1 DEF Moved, Places
<1> QED
  BY <1>1, <1>2, ReceivedArrived

\* Only as many buttons are pressed as there are commands.
PressesBounded == sent <= MaxCommands

LEMMA PressesBoundedKept ==
    PathInv /\ PressesBounded /\ [PathNext]_pathVars => PressesBounded'
<1> SUFFICES ASSUME PathInv, PressesBounded, [PathNext]_pathVars
             PROVE  PressesBounded'
  OBVIOUS
<1>1. CASE UNCHANGED sent
  BY <1>1 DEF PressesBounded
<1>2. CASE P!PublishCommand
  BY <1>2, PathAssumption DEF P!PublishCommand, PressesBounded, PathInv, PiTyped
<1>3. UNCHANGED sent \/ P!PublishCommand
  BY DEF PathNext, pathVars, pi, Pi, PathUartPut, PathUartLost, Arrives, PathUartWork,
         Gateway, Answer, Link, Deliver, DeliverDropped, Serve, Finish, P!Next,
         P!LoseBroker, P!mqtt_subscribe, P!Subscribe, P!Reconnect, P!OnMqttMessage,
         P!WriteUART, P!Wake, P!Raise
<1> QED
  BY <1>1, <1>2, <1>3

\* The key of a command that was heard.
LEMMA ButtonOfHeard ==
    ASSUME PathInv, PressesBounded, NEW token \in 1..Len(heard)
    PROVE  /\ CommandOf(token) \in 1..sent
           /\ Buttons[CommandOf(token)] \in Key
<1>3. PICK m \in 1..passed : heard[token] = written[m]
  BY DEF PathInv, HeardInOrder
<1>4. m \in 1..Len(written) /\ written \in Seq(1..sent) /\ sent \in Nat
  BY DEF PathInv, HeardInOrder, PiTyped
<1>1. heard[token] \in 1..sent /\ sent \in Nat
  BY <1>3, <1>4
<1>2. heard[token] \in 1..MaxCommands
  BY <1>1, PathAssumption DEF PressesBounded
<1> QED
  BY <1>1, <1>2, PathAssumption DEF CommandOf

LEMMA FirstPart ==
    ASSUME NEW S, NEW s \in Seq(S), 3 <= Len(s)
    PROVE  /\ SubSeq(s, 1, 3) \in Seq(S)
           /\ Len(SubSeq(s, 1, 3)) = 3
           /\ \A n \in 1..3 : SubSeq(s, 1, 3)[n] = s[n]
OBVIOUS

\* A frame is read as the command it is; the beginning of one is none.
LEMMA MotionOfFrames ==
    /\ \A key \in Key : /\ Command(key) \in Seq(FrameByte)
                        /\ Motion(Command(key)) = Mecanum(Heading(key))
    /\ Prefix \in Seq(FrameByte)
    /\ Motion(Prefix) = fb_stop
<1>1. /\ Prefix \in Seq(FrameByte) /\ Len(Prefix) = 3
      /\ Prefix[1] = "1" /\ Prefix[2] = "3" /\ Prefix[3] = "<"
  BY DEF Prefix, FrameByte
<1>2. Motion(Prefix) = fb_stop
  BY <1>1 DEF Motion, IsCommand
<1>3. ASSUME NEW key \in Key
      PROVE  /\ Command(key) \in Seq(FrameByte)
             /\ Motion(Command(key)) = Mecanum(Heading(key))
  <2> DEFINE end == <<key, ">">>
  <2>1. /\ end \in Seq(FrameByte) /\ Len(end) = 2
        /\ end[1] = key /\ end[2] = ">"
        /\ Command(key) = Prefix \o end
    BY DEF FrameByte, Command
  <2> HIDE DEF end
  <2>2. /\ Command(key) \in Seq(FrameByte) /\ Len(Command(key)) = 5
        /\ Command(key)[4] = key /\ Command(key)[5] = ">"
        /\ \A n \in 1..3 : Command(key)[n] = Prefix[n]
    <3>1. /\ Prefix \o end \in Seq(FrameByte)
          /\ Len(Prefix \o end) = Len(Prefix) + Len(end)
          /\ \A n \in 1..Len(Prefix) : (Prefix \o end)[n] = Prefix[n]
          /\ \A n \in 1..Len(end) : (Prefix \o end)[Len(Prefix) + n] = end[n]
      <4>1. Prefix \in Seq(FrameByte) /\ end \in Seq(FrameByte)
        BY <1>1, <2>1
      <4> QED
        BY <4>1, Joined
    <3>2. (Prefix \o end)[4] = end[1] /\ (Prefix \o end)[5] = end[2]
      <4>1. 1 \in 1..2 /\ 2 \in 1..2 /\ 3 + 1 = 4 /\ 3 + 2 = 5
        OBVIOUS
      <4> QED
        BY <1>1, <2>1, <3>1, <4>1
    <3> QED
      BY <1>1, <2>1, <3>1, <3>2
  <2>3. SubSeq(Command(key), 1, 3) = Prefix
    <3>1. /\ SubSeq(Command(key), 1, 3) \in Seq(FrameByte)
          /\ Len(SubSeq(Command(key), 1, 3)) = 3
          /\ \A n \in 1..3 : SubSeq(Command(key), 1, 3)[n] = Command(key)[n]
      <4>1. Command(key) \in Seq(FrameByte) /\ 3 <= Len(Command(key))
        BY <2>2
      <4> HIDE DEF FrameByte
      <4> QED
        BY <4>1, FirstPart, Zenon
    <3> QED
      BY <1>1, <2>2, <3>1
  <2>4. IsCommand(Command(key)) /\ KeyOf(Command(key)) = key
    BY <2>2, <2>3 DEF IsCommand, KeyOf
  <2> QED
    BY <2>2, <2>4 DEF Motion
<1> QED
  BY <1>1, <1>2, <1>3

\* The three copies of the commands, the robot's and those of the two
\* promises, are the same.
LEMMA SameMoves ==
    /\ D!fb_stop = fb_stop /\ Remote!fb_stop = fb_stop
    /\ \A frame : D!Motion(frame) = Motion(frame)
    /\ \A key : Remote!Mecanum(Remote!Heading(key)) = Mecanum(Heading(key))
BY DEF fb_stop, D!fb_stop, Remote!fb_stop,
       Motion, IsCommand, KeyOf, Key, Prefix, Mecanum, Heading, Sign,
       D!Motion, D!IsCommand, D!KeyOf, D!Key, D!Prefix, D!Mecanum, D!Heading, D!Sign,
       Remote!Mecanum, Remote!Heading, Remote!Sign

\* A frame that waits is a byte string.
LEMMA FrameTyped ==
    ASSUME PathInv, PressesBounded, NEW token, token > 0 => token \in 1..Len(heard)
    PROVE  FrameOf(token) \in Seq(FrameByte)
<1>1. CASE token > 0
  BY <1>1, ButtonOfHeard, MotionOfFrames DEF FrameOf
<1>2. CASE ~ (token > 0)
  BY <1>2, MotionOfFrames DEF FrameOf
<1> QED
  BY <1>1, <1>2

\* The frames that wait, as the driver's promise has them.
DriveQueue == [n \in DOMAIN waiting |-> FrameOf(waiting[n])]

LEMMA PathInvs == PathSpec => [](PathInv /\ PressesBounded)
<1>1. PathInit => PathInv /\ PressesBounded
  <2>1. PathInit => PressesBounded
    BY PathAssumption DEF PathInit, P!Init, PressesBounded
  <2> QED
    BY <2>1, PathInitInv
<1>2. /\ PathInv /\ PressesBounded /\ [PathNext]_pathVars
      => (PathInv /\ PressesBounded)'
  BY PathStep, PressesBoundedKept
<1> QED
  BY <1>1, <1>2, PTL DEF PathSpec

-----------------------------------------------------------------------------
(***************************************************************************)
(* The whole system.  What the person at the buttons was promised follows  *)
(* from the order of the moves and from what the robot does with a frame.  *)
(***************************************************************************)
\* read_thread serves a frame: the robot moves for a press, or stays.
LEMMA ServeMoves ==
    ASSUME PathInv, PathInv', MovesAsPressed', PressesBounded, Serve
    PROVE  (\E c \in 1..sent : Remote!MoveFor(c)) \/ Remote!Stop
<1> DEFINE token == waiting[1]
<1>1. /\ waiting \in Seq(Tokens) /\ moves \in Seq(Int) /\ moves' \in Seq(Int)
      /\ Head(waiting) = token /\ 1 \in 1..Len(waiting)
  BY DEF PathInv, RobotInv, Serve
<1>2. DriveQueue # <<>> /\ Head(DriveQueue) = FrameOf(token)
  <2>1. /\ DriveQueue = [n \in 1..Len(waiting) |-> FrameOf(waiting[n])]
        /\ Len(waiting) \in Nat
    BY <1>1 DEF DriveQueue
  <2>2. \A n \in 1..Len(waiting) : FrameOf(waiting[n]) \in Seq(FrameByte)
    BY WaitingArrived, FrameTyped
  <2>3. DriveQueue \in Seq(Seq(FrameByte)) /\ Len(DriveQueue) = Len(waiting)
    BY <2>1, <2>2
  <2>4. DriveQueue[1] = FrameOf(token)
    BY <1>1, <2>1
  <2> QED
    BY <1>1, <2>3, <2>4
<1>3. motion = fb_stop /\ motion' = Motion(FrameOf(token)) /\ UNCHANGED sent
  <2>1. D!Serve /\ UNCHANGED sent
    BY DEF Serve, pi
  <2> QED
    BY <1>2, <2>1, SameMoves DEF D!Serve, DriveQueue
<1>4. CASE token > 0
  <2> DEFINE c == CommandOf(token)
  <2>1. token \in 1..Len(heard)
    BY <1>1, <1>4, WaitingArrived
  <2>2. c \in 1..sent /\ Buttons[c] \in Key
    BY <2>1, ButtonOfHeard
  <2>3. moves' = Append(moves, c)
    BY <1>1, <1>4 DEF Serve
  <2>4. motion' = Mecanum(Heading(Buttons[c]))
    BY <1>3, <1>4, <2>2, MotionOfFrames DEF FrameOf
  <2> HIDE DEF c
  <2> DEFINE M == Len(moves)
  <2>5. /\ M \in Nat /\ DOMAIN moves = 1..M /\ DOMAIN moves' = 1..(M + 1)
        /\ moves'[M + 1] = c
        /\ \A n \in 1..M : moves'[n] = moves[n] /\ moves[n] \in Int
    BY <1>1, <2>2, <2>3
  <2> HIDE DEF M
  <2>6. \A n \in 1..M : n < M + 1 /\ n \in 1..(M + 1) /\ M + 1 \in 1..(M + 1)
    BY <2>5
  <2>7. \A n \in 1..M : moves[n] <= c
    BY <2>5, <2>6 DEF MovesAsPressed
  <2>8. \A m, n \in 1..M : m < n => moves[m] < c
    BY <2>5, <2>6 DEF MovesAsPressed
  <2>9. \A m, n \in 1..M : m < n => moves[m] # c \/ moves[n] # c
    BY <2>2, <2>5, <2>8
  <2> QED
    BY <1>3, <2>2, <2>3, <2>4, <2>5, <2>7, <2>9, SameMoves DEF Remote!MoveFor
<1>5. CASE ~ (token > 0)
  <2>1. moves' = moves
    BY <1>1, <1>5 DEF Serve
  <2>2. motion' = fb_stop
    BY <1>3, <1>5, MotionOfFrames DEF FrameOf
  <2> QED
    BY <1>3, <2>1, <2>2, SameMoves DEF Remote!Stop
<1> QED
  BY <1>4, <1>5

\* With the three attempts of the gateway, the whole path keeps the promise to
\* the person at the buttons: a move only for a press, in the direction of its
\* button, in the order of the presses, from standstill, at most twice.
THEOREM RemoteControlled ==
    ASSUME MaxTries <= 3
    PROVE  PathSpec => ImplementsRemoteControl
<1>1. PathInit => Remote!Init
  BY SameMoves DEF PathInit, P!Init, Remote!Init
<1>2. /\ PathInv /\ PressesBounded
      /\ (PathInv /\ PressesBounded)' /\ MovesAsPressed'
      /\ [PathNext]_pathVars
      => [Remote!Next]_(Remote!vars)
  <2> SUFFICES ASSUME PathInv, PathInv', MovesAsPressed', PressesBounded,
                      [PathNext]_pathVars
               PROVE  [Remote!Next]_(Remote!vars)
    OBVIOUS
  <2>1. CASE Serve
    BY <2>1, ServeMoves DEF Remote!Next
  <2>2. CASE Finish
    <3>1. /\ motion' = fb_stop
          /\ UNCHANGED <<sent, moves>>
      <4>1. motion' = D!fb_stop
        BY <2>2 DEF Finish, D!Finish
      <4> QED
        BY <2>2, <4>1, SameMoves DEF Finish, pi
    <3> QED
      BY <3>1, SameMoves DEF Remote!Next, Remote!Stop
  <2>3. CASE Pi
    <3>1. UNCHANGED <<moves, motion>>
      BY <2>3 DEF Pi, robot
    <3>2. CASE P!PublishCommand
      BY <3>1, <3>2 DEF P!PublishCommand, Remote!Next, Remote!Press
    <3>3. CASE ~ P!PublishCommand
      <4>1. UNCHANGED sent
        BY <2>3, <3>3 DEF Pi, P!Next, P!LoseBroker, P!mqtt_subscribe, P!Subscribe,
           P!Reconnect, P!OnMqttMessage, P!WriteUART, P!Wake, P!Raise
      <4> QED
        BY <3>1, <4>1 DEF Remote!vars
    <3> QED
      BY <3>2, <3>3
  <2>4. CASE \/ PathUartPut \/ PathUartLost \/ PathUartWork \/ Gateway \/ Answer \/ Link
             \/ Deliver \/ DeliverDropped \/ UNCHANGED pathVars
    <3>1. UNCHANGED <<sent, moves, motion>>
      BY <2>4 DEF PathUartPut, PathUartLost, Arrives, PathUartWork, Gateway, Answer, Link,
         Deliver, DeliverDropped, D!Accept, pathVars, pi, robot
    <3> QED
      BY <3>1 DEF Remote!vars
  <2> QED
    BY <2>1, <2>2, <2>3, <2>4 DEF PathNext
<1> QED
  BY <1>1, <1>2, PathInvs, MovesInOrder, PTL DEF PathSpec, ImplementsRemoteControl, Remote!Spec
=============================================================================
