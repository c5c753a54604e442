------------------------ MODULE PiTelemetry_proofs --------------------------
(***************************************************************************)
(* Theorems about PiTelemetry for every set of frames and any number of    *)
(* them: what is published was sent, and no drop of the charge goes        *)
(* without an alarm.                                                       *)
(***************************************************************************)
EXTENDS PiTelemetry, TLAPS

USE DEF MESSAGE_LENGTH, Comma

\* How many bytes the robot has put on the line.
Position == 14 * Len(sent) - Len(arriving)

\* The bytes of s are those of the frames, from the (b + 1)-th byte on.
OnStream(frames, s, b) ==
    \A q \in DOMAIN frames, j \in 1..14, i \in DOMAIN s :
        b + i = 14 * (q - 1) + j => s[i] = Bytes(frames[q])[j]

\* The line and the input buffer hold the bytes they should.
LineInv == /\ arriving # <<>> => sent # <<>>
           /\ OnStream(sent, arriving, Position)
           /\ Len(wire) <= Position
           /\ OnStream(sent, wire, Position - Len(wire))

\* The thread has taken b bytes or more; it has published the frames r, all
\* before them, and what it is about to publish is a later one of them.
Consumed(b, r) ==
    /\ b + Len(received_data) <= Position - Len(wire)
    /\ pc = "sleep" => b + Len(received_data) = Position - Len(wire)
    /\ OnStream(sent, received_data, b)
    /\ \A n, k \in DOMAIN published : n < k => r[n] < r[k]
    /\ \A n \in DOMAIN published :
         published[n].values = sent[r[n]] /\ 14 * r[n] <= b
    /\ pc = "publish" =>
         \E q \in DOMAIN sent :
            /\ sensing_data_msg.values = sent[q] /\ 14 * q <= b
            /\ \A n \in DOMAIN published : r[n] < q

ReadInv == \E b \in Nat, r \in [DOMAIN published -> DOMAIN sent] : Consumed(b, r)

\* The charge kept is the lowest so far; it got below the first m charges by
\* an alarm raised after them.
AlarmInv ==
    /\ setup = 0 <=> charges = <<>>
    /\ \A n \in DOMAIN charges : previous_charge <= charges[n]
    /\ setup = 1 => \E n \in DOMAIN charges : previous_charge = charges[n]
    /\ \A m \in DOMAIN charges :
         (\A j \in 1..m : previous_charge < charges[j]) => \E k \in alarms : m < k
    /\ DropIsAlarmed

IInv == TypeOK /\ LineInv /\ ReadInv /\ AlarmInv

-----------------------------------------------------------------------------
\* A sequence's elements are of its type.
LEMMA ElementOf ==
    ASSUME NEW S, NEW s \in Seq(S)  PROVE \A i \in 1..Len(s) : s[i] \in S
  OBVIOUS

LEMMA AppendType ==
    ASSUME NEW S, NEW s \in Seq(S), NEW e \in S  PROVE Append(s, e) \in Seq(S)
  OBVIOUS

\* Which field a byte belongs to, and which bytes a field has.
LEMMA FieldOf ==
    /\ \A n \in 1..14 : (n + 2) \div 3 \in 1..5
    /\ \A k \in 1..5 : /\ 3 * k - 2 \in 1..14 /\ (3 * k - 2 + 2) \div 3 = k
                      /\ 3 * k - 1 \in 1..14 /\ (3 * k - 1 + 2) \div 3 = k
  OBVIOUS

\* A field's bytes, low byte first, can be put together again.
LEMMA ByteForm ==
    /\ \A n \in 1..14, x \in Word : ByteAt(n, x) \in Byte
    /\ \A n \in {3, 6, 9, 12}, x \in Word : ByteAt(n, x) = 44
    /\ \A k \in 1..5, x \in Word :
         ByteAt(3 * k - 2, x) + 256 * ByteAt(3 * k - 1, x) = x
<1>1. \A x \in Word : /\ x % 256 \in Byte /\ x \div 256 \in Byte
                       /\ (x % 256) + 256 * (x \div 256) = x
  BY DEF Byte, Word
<1>2. \A k \in 1..5 : (3 * k - 2) % 3 = 1 /\ (3 * k - 1) % 3 = 2
  OBVIOUS
<1>3. \A n \in {3, 6, 9, 12} : n % 3 = 0
  OBVIOUS
<1>4. \A n \in 1..14, x \in Word : ByteAt(n, x) \in Byte
  BY <1>1 DEF ByteAt, Byte
<1>5. \A k \in 1..5, x \in Word : /\ ByteAt(3 * k - 2, x) = x % 256
                                      /\ ByteAt(3 * k - 1, x) = x \div 256
  BY <1>2 DEF ByteAt
<1>6. \A n \in {3, 6, 9, 12}, x \in Word : ByteAt(n, x) = 44
  BY <1>3 DEF ByteAt
<1> QED
  BY <1>1, <1>4, <1>5, <1>6

\* The bytes of a frame: commas between the fields.
LEMMA BytesForm ==
    ASSUME NEW f \in [1..5 -> Word]
    PROVE  /\ Bytes(f) \in Seq(Byte) /\ Len(Bytes(f)) = 14
           /\ Bytes(f)[3] = 44 /\ Bytes(f)[6] = 44
           /\ Bytes(f)[9] = 44 /\ Bytes(f)[12] = 44
           /\ \A k \in 1..5 : Bytes(f)[3 * k - 2] + 256 * Bytes(f)[3 * k - 1] = f[k]
<1>1. \A k \in 1..5 : f[k] \in Word
  OBVIOUS
<1>2. ASSUME NEW n \in 1..14
      PROVE  /\ Bytes(f)[n] = ByteAt(n, f[(n + 2) \div 3])
             /\ f[(n + 2) \div 3] \in Word
             /\ Bytes(f)[n] \in Byte
  <2>1. Bytes(f)[n] = ByteAt(n, f[(n + 2) \div 3])
    BY Zenon DEF Bytes
  <2>2. f[(n + 2) \div 3] \in Word
    BY <1>1, FieldOf, Zenon
  <2> QED
    BY <2>1, <2>2, ByteForm, Zenon
<1>3. Bytes(f) \in Seq(Byte) /\ Len(Bytes(f)) = 14
  <2>1. DOMAIN Bytes(f) = 1..14 /\ Bytes(f) = [n \in 1..14 |-> Bytes(f)[n]]
    BY Zenon DEF Bytes
  <2> DEFINE g(n) == Bytes(f)[n]
  <2>2. \A n \in 1..14 : g(n) \in Byte
    BY <1>2
  <2>3. Bytes(f) = [n \in 1..14 |-> g(n)]
    BY <2>1
  <2> HIDE DEF g
  <2> QED
    BY <2>2, <2>3
<1>4. \A n \in {3, 6, 9, 12} : Bytes(f)[n] = 44
  <2> TAKE n \in {3, 6, 9, 12}
  <2>1. n \in 1..14
    OBVIOUS
  <2> QED
    BY <1>2, <2>1, ByteForm, Zenon
<1>5. \A k \in 1..5 : Bytes(f)[3 * k - 2] + 256 * Bytes(f)[3 * k - 1] = f[k]
  <2> TAKE k \in 1..5
  <2>1. /\ 3 * k - 2 \in 1..14 /\ (3 * k - 2 + 2) \div 3 = k
        /\ 3 * k - 1 \in 1..14 /\ (3 * k - 1 + 2) \div 3 = k
    BY FieldOf, Zenon
  <2>2. /\ Bytes(f)[3 * k - 2] = ByteAt(3 * k - 2, f[k])
        /\ Bytes(f)[3 * k - 1] = ByteAt(3 * k - 1, f[k])
    BY <1>2, <2>1, Zenon
  <2>3. f[k] \in Word
    BY <1>1
  <2>4. ByteAt(3 * k - 2, f[k]) + 256 * ByteAt(3 * k - 1, f[k]) = f[k]
    BY <2>3, ByteForm
  <2> QED
    BY <2>2, <2>4
<1> QED
  BY <1>3, <1>4, <1>5

\* Fourteen bytes that the parser takes have commas where a frame has them,
\* and nowhere else.
LEMMA ParsableForm ==
    ASSUME NEW d \in Seq(Byte), Len(d) = 14, Parsable(d)
    PROVE  /\ d[3] = 44 /\ d[6] = 44 /\ d[9] = 44 /\ d[12] = 44
           /\ \A n \in {1, 2, 4, 5, 7, 8, 10, 11, 13, 14} : d[n] # 44
<1>1. \A n \in 0..15 : n \in Cuts(d) <=> n \in {0, 15} \/ d[n] = 44
  BY DEF Cuts
<1>2. \A n \in 0..14 : n \in Cuts(d) =>
         n + 1 \notin Cuts(d) /\ n + 2 \notin Cuts(d) /\ n + 3 \in Cuts(d)
  BY DEF Parsable
<1>3. 0 \in Cuts(d) /\ 1 \notin Cuts(d) /\ 2 \notin Cuts(d) /\ 3 \in Cuts(d)
  BY <1>1, <1>2
<1>4. 4 \notin Cuts(d) /\ 5 \notin Cuts(d) /\ 6 \in Cuts(d)
  BY <1>2, <1>3
<1>5. 7 \notin Cuts(d) /\ 8 \notin Cuts(d) /\ 9 \in Cuts(d)
  BY <1>2, <1>4
<1>6. 10 \notin Cuts(d) /\ 11 \notin Cuts(d) /\ 12 \in Cuts(d)
  BY <1>2, <1>5
<1>7. 13 \notin Cuts(d) /\ 14 \notin Cuts(d)
  BY <1>2, <1>6
<1> QED
  BY <1>1, <1>3, <1>4, <1>5, <1>6, <1>7

\* Fourteen bytes of the stream that the parser takes are one whole frame.
LEMMA ParsedWasSent ==
    ASSUME TypeOK, NEW d \in Seq(Byte), NEW b \in Nat,
           Len(d) = 14, OnStream(sent, d, b), b + 14 <= 14 * Len(sent), Parsable(d)
    PROVE  \E q \in DOMAIN sent : b = 14 * (q - 1) /\ sense_values(d) = sent[q]
<1> DEFINE q == b \div 14 + 1
           k == b % 14
<1>1. b = 14 * (q - 1) + k /\ k \in 0..13 /\ q \in Nat \ {0}
  OBVIOUS
<1> HIDE DEF q, k
<1>2. sent \in Seq([1..5 -> Word])
  BY PiTelemetryAssumption DEF TypeOK
<1>3. q \in DOMAIN sent /\ (k # 0 => q + 1 \in DOMAIN sent)
  BY <1>1, <1>2
<1>0. \A p \in DOMAIN sent, j \in 1..14, i \in 1..14 :
         b + i = 14 * (p - 1) + j => d[i] = Bytes(sent[p])[j]
  <2> SUFFICES ASSUME NEW p \in DOMAIN sent, NEW j \in 1..14, NEW i \in 1..14,
                      b + i = 14 * (p - 1) + j
               PROVE  d[i] = Bytes(sent[p])[j]
    BY Zenon
  <2>1. i \in DOMAIN d
    OBVIOUS
  <2> QED
    BY <2>1, Zenon DEF OnStream
<1>4. \A i \in 1..14 : k + i <= 14 => d[i] = Bytes(sent[q])[k + i]
  <2> SUFFICES ASSUME NEW i \in 1..14, k + i <= 14
               PROVE  d[i] = Bytes(sent[q])[k + i]
    OBVIOUS
  <2>1. b + i = 14 * (q - 1) + (k + i) /\ k + i \in 1..14
    BY <1>1
  <2> QED
    BY <1>3, <1>0, <2>1
<1>5. k # 0 => \A i \in 1..14 : k + i > 14 => d[i] = Bytes(sent[q + 1])[k + i - 14]
  <2> SUFFICES ASSUME k # 0, NEW i \in 1..14, k + i > 14
               PROVE  d[i] = Bytes(sent[q + 1])[k + i - 14]
    OBVIOUS
  <2>1. b + i = 14 * ((q + 1) - 1) + (k + i - 14) /\ k + i - 14 \in 1..14
    BY <1>1
  <2> QED
    BY <1>3, <1>0, <2>1
<1>6. \A p \in DOMAIN sent : sent[p] \in [1..5 -> Word]
  BY <1>2
<1>7. \A p \in DOMAIN sent : /\ Bytes(sent[p])[3] = 44 /\ Bytes(sent[p])[6] = 44
                             /\ Bytes(sent[p])[9] = 44 /\ Bytes(sent[p])[12] = 44
  BY <1>6, BytesForm
<1>8. /\ d[3] = 44 /\ d[6] = 44 /\ d[9] = 44 /\ d[12] = 44
      /\ \A n \in {1, 2, 4, 5, 7, 8, 10, 11, 13, 14} : d[n] # 44
  BY ParsableForm
<1>9. k = 0
  <2>1. k \notin {1, 4, 7, 10}
    <3>1. /\ k = 1 => d[2] = Bytes(sent[q])[3]
          /\ k = 4 => d[2] = Bytes(sent[q])[6]
          /\ k = 7 => d[2] = Bytes(sent[q])[9]
          /\ k = 10 => d[2] = Bytes(sent[q])[12]
      BY <1>4
    <3> QED
      BY <1>3, <1>7, <1>8, <3>1
  <2>2. k \notin {2, 5, 8, 11}
    <3>1. /\ k = 2 => d[1] = Bytes(sent[q])[3]
          /\ k = 5 => d[1] = Bytes(sent[q])[6]
          /\ k = 8 => d[1] = Bytes(sent[q])[9]
          /\ k = 11 => d[1] = Bytes(sent[q])[12]
      BY <1>4
    <3> QED
      BY <1>3, <1>7, <1>8, <3>1
  <2>3. k \notin {3, 6, 9}
    <3>1. k = 3 => d[14] = Bytes(sent[q + 1])[3]
      BY <1>5
    <3>2. k = 6 => d[11] = Bytes(sent[q + 1])[3]
      BY <1>5
    <3>3. k = 9 => d[8] = Bytes(sent[q + 1])[3]
      BY <1>5
    <3> QED
      BY <1>3, <1>7, <1>8, <3>1, <3>2, <3>3
  <2>4. k \notin {12, 13}
    <3>1. k = 12 => d[5] = Bytes(sent[q + 1])[3]
      BY <1>5
    <3>2. k = 13 => d[4] = Bytes(sent[q + 1])[3]
      BY <1>5
    <3> QED
      BY <1>3, <1>7, <1>8, <3>1, <3>2
  <2> QED
    BY <1>1, <2>1, <2>2, <2>3, <2>4
<1>10. \A i \in 1..14 : d[i] = Bytes(sent[q])[i]
  BY <1>4, <1>9, SMTT(30)
<1>11. sense_values(d) = [j \in 1..5 |-> d[3 * j - 2] + 256 * d[3 * j - 1]]
  BY DEF sense_values
<1>12. \A j \in 1..5 : d[3 * j - 2] + 256 * d[3 * j - 1] = sent[q][j]
  <2> TAKE j \in 1..5
  <2>1. 3 * j - 2 \in 1..14 /\ 3 * j - 1 \in 1..14
    OBVIOUS
  <2>2. /\ d[3 * j - 2] = Bytes(sent[q])[3 * j - 2]
        /\ d[3 * j - 1] = Bytes(sent[q])[3 * j - 1]
    BY <1>10, <2>1
  <2>3. Bytes(sent[q])[3 * j - 2] + 256 * Bytes(sent[q])[3 * j - 1] = sent[q][j]
    BY <1>3, <1>6, BytesForm, ZenonT(60)
  <2> QED
    BY <2>2, <2>3
<1>13. sense_values(d) = sent[q]
  BY <1>3, <1>6, <1>11, <1>12
<1> QED
  BY <1>1, <1>3, <1>9, <1>13

\* Two bytes make a 16 bit number.
LEMMA WordOf == ASSUME NEW x \in Byte, NEW y \in Byte PROVE x + 256 * y \in Word
  BY DEF Byte, Word

\* The values of a parsed message are 16 bit numbers.
LEMMA ValuesType ==
    ASSUME NEW d \in Seq(Byte), Len(d) = 14
    PROVE  sense_values(d) \in Seq(Word) /\ sense_values(d)[1] \in Word
<1>0. \A i \in 1..14 : d[i] \in Byte
  BY ElementOf
<1>1. (Len(d) + 1) \div 3 = 5
  OBVIOUS
<1>2. \A j \in 1..5 : d[3 * j - 2] + 256 * d[3 * j - 1] \in Word
  <2> TAKE j \in 1..5
  <2>1. 3 * j - 2 \in 1..14 /\ 3 * j - 1 \in 1..14
    OBVIOUS
  <2> DEFINE x == d[3 * j - 2]
             y == d[3 * j - 1]
  <2> HIDE DEF x, y
  <2>3. x \in Byte /\ y \in Byte
    BY <1>0, <2>1, ZenonT(60) DEF x, y
  <2>4. x + 256 * y \in Word
    BY <2>3, WordOf, Zenon
  <2> QED
    BY <2>4 DEF x, y
<1> DEFINE v(j) == d[3 * j - 2] + 256 * d[3 * j - 1]
<1>3. sense_values(d) = [j \in 1..5 |-> v(j)]
  BY <1>1 DEF sense_values
<1>4. \A j \in 1..5 : v(j) \in Word
  BY <1>2
<1> HIDE DEF v
<1> QED
  BY <1>3, <1>4

-----------------------------------------------------------------------------
LEMMA InitInv == Init => IInv
<1> SUFFICES ASSUME Init PROVE IInv
  OBVIOUS
<1>1. TypeOK
  BY DEF Init, Message, NoMessage, TypeOK, Byte, Word
<1>2. LineInv
  BY DEF Init, LineInv, OnStream, Position
<1>3. ReadInv
  <2> DEFINE r == [n \in DOMAIN published |-> 1]
  <2>1. r \in [DOMAIN published -> DOMAIN sent] /\ DOMAIN published = {}
    BY DEF Init
  <2>2. Consumed(0, r)
    BY <2>1 DEF Init, Consumed, OnStream, Position
  <2> QED
    BY <2>1, <2>2 DEF ReadInv
<1>4. AlarmInv
  BY DEF Init, AlarmInv, DropIsAlarmed
<1> QED
  BY <1>1, <1>2, <1>3, <1>4 DEF IInv

\* What the parser and the alarm compute has its type.
LEMMA TypeStep == TypeOK /\ [Next]_vars => TypeOK'
<1> SUFFICES ASSUME TypeOK, [Next]_vars PROVE TypeOK'
  OBVIOUS
<1> USE DEF TypeOK
<1>1. CASE UartSend
  <2>1. PICK f \in Frames : sent' = Append(sent, f) /\ arriving' = Bytes(f)
    BY <1>1 DEF UartSend
  <2>2. f \in [1..5 -> Word]
    BY PiTelemetryAssumption
  <2>3. arriving' \in Seq(Byte) /\ Len(arriving') = 14
    BY <2>1, <2>2, BytesForm
  <2> QED
    BY <1>1, <2>1, <2>3 DEF UartSend, alarm, message
<1>2. CASE UartByte
  BY <1>2 DEF UartByte, alarm, message
<1>3. CASE ReadFirst
  BY <1>3 DEF ReadFirst, uart, alarm, message
<1>4. CASE ReadRest
  BY <1>4 DEF ReadRest, uart, alarm, message
<1>5. CASE Check
  <2>1. CASE WrongLength
    BY <1>5, <2>1 DEF Check, uart, alarm, message
  <2>2. CASE ~ WrongLength
    <3>1. UNCHANGED <<uart, wire, received_data, alarm, message>> /\ pc' = "create"
      BY <1>5, <2>2 DEF Check
    <3>2. Len(received_data) = 14
      BY <2>2 DEF WrongLength
    <3> QED
      BY <3>1, <3>2 DEF uart, alarm, message
  <2> QED
    BY <2>1, <2>2
<1>6. CASE Discard
  BY <1>6 DEF Discard, uart, alarm, message
<1>7. CASE create_sense_message
  <2> DEFINE v == sense_values(received_data)
  <2>1. v \in Seq(Word) /\ v[1] \in Word
    BY <1>7, ValuesType DEF create_sense_message
  <2> HIDE DEF v
  <2>2. /\ setup' = 1 /\ alarm_state' \in {0, 1}
        /\ previous_charge' \in Word /\ charges' = Append(charges, v[1])
        /\ alarms' = alarms \/ alarms' = alarms \cup {Len(charges')}
    BY <1>7, <2>1
       DEF create_sense_message, get_alarm_state, ChargeKept, Previous, v
  <2>5. alarms' \subseteq DOMAIN charges'
    <3>1. DOMAIN charges' = 1..(Len(charges) + 1) /\ DOMAIN charges = 1..Len(charges)
          /\ Len(charges) \in Nat /\ Len(charges') = Len(charges) + 1
      BY <2>1, <2>2
    <3> QED
      BY <2>2, <3>1
  <2>3. sensing_data_msg' = [values |-> v, Alarm |-> alarm_state']
    BY <1>7 DEF create_sense_message, v
  <2>4. sensing_data_msg' \in Message
    BY <2>1, <2>2, <2>3 DEF Message
  <2> QED
    BY <1>7, <2>1, <2>2, <2>4, <2>5 DEF create_sense_message, uart
<1>8. CASE Publish
  <2>1. published' \in Seq(Message)
    <3>1. Append(published, sensing_data_msg) \in Seq(Message)
      BY AppendType DEF TypeOK
    <3> QED
      BY <1>8, <3>1 DEF Publish
  <2>2. sensing_data_msg' \in Message
    BY <1>8 DEF Publish, Message, NoMessage
  <2> QED
    BY <1>8, <2>1, <2>2 DEF Publish, uart, alarm
<1>9. CASE UNCHANGED vars
  BY <1>9 DEF vars, uart, alarm, message
<1> QED
  BY <1>1, <1>2, <1>3, <1>4, <1>5, <1>6, <1>7, <1>8, <1>9 DEF Next, mqtt_publish

\* The stream without its first byte, and with one more.
LEMMA StreamRest ==
    ASSUME NEW s \in Seq(Byte), s # <<>>, NEW b \in Int, OnStream(sent, s, b)
    PROVE  OnStream(sent, Tail(s), b + 1)
<1> SUFFICES ASSUME NEW q \in DOMAIN sent, NEW j \in 1..14, NEW i \in DOMAIN Tail(s),
                    b + 1 + i = 14 * (q - 1) + j
             PROVE  Tail(s)[i] = Bytes(sent[q])[j]
  BY DEF OnStream
<1>1. i + 1 \in DOMAIN s /\ Tail(s)[i] = s[i + 1] /\ i \in Nat
  OBVIOUS
<1>2. b + (i + 1) = b + 1 + i
  BY <1>1
<1> QED
  BY <1>1, <1>2, SMTT(30) DEF OnStream

LEMMA StreamJoin ==
    ASSUME NEW s \in Seq(Byte), NEW t \in Seq(Byte), NEW b \in Int,
           OnStream(sent, s, b), OnStream(sent, t, b + Len(s))
    PROVE  OnStream(sent, s \o t, b)
<1> SUFFICES ASSUME NEW q \in DOMAIN sent, NEW j \in 1..14, NEW i \in DOMAIN (s \o t),
                    b + i = 14 * (q - 1) + j
             PROVE  (s \o t)[i] = Bytes(sent[q])[j]
  BY DEF OnStream
<1>1. CASE i <= Len(s)
  <2>1. i \in DOMAIN s /\ (s \o t)[i] = s[i]
    BY <1>1
  <2> QED
    BY <2>1 DEF OnStream
<1>2. CASE i > Len(s)
  <2>1. i - Len(s) \in DOMAIN t /\ (s \o t)[i] = t[i - Len(s)] /\ i \in Int
    BY <1>2
  <2>2. b + Len(s) + (i - Len(s)) = b + i
    BY <2>1
  <2> QED
    BY <2>1, <2>2, ZenonT(60) DEF OnStream
<1> QED
  BY <1>1, <1>2

\* A new frame is behind everything sent before it.
LEMMA StreamGrown ==
    ASSUME NEW frames \in Seq(Frames), NEW f \in Frames,
           NEW s \in Seq(Byte), NEW b \in Int,
           b + Len(s) <= 14 * Len(frames), OnStream(frames, s, b)
    PROVE  OnStream(Append(frames, f), s, b)
<1> SUFFICES ASSUME NEW q \in DOMAIN Append(frames, f), NEW j \in 1..14,
                    NEW i \in DOMAIN s, b + i = 14 * (q - 1) + j
             PROVE  s[i] = Bytes(Append(frames, f)[q])[j]
  BY Zenon DEF OnStream
<1>1. /\ q \in 1..(Len(frames) + 1) /\ i \in 1..Len(s)
      /\ Len(frames) \in Nat /\ Len(s) \in Nat
  OBVIOUS
<1>2. q \in 1..Len(frames)
  BY <1>1
<1>3. q \in DOMAIN frames /\ Append(frames, f)[q] = frames[q]
  BY <1>2
<1> QED
  BY <1>3, Zenon DEF OnStream

\* Bytes leave and arrive in the order in which they were sent.
LEMMA LineStep == TypeOK /\ LineInv /\ [Next]_vars => LineInv'
<1> SUFFICES ASSUME TypeOK, LineInv, [Next]_vars PROVE LineInv'
  OBVIOUS
<1>0. /\ sent \in Seq(Frames) /\ arriving \in Seq(Byte) /\ wire \in Seq(Byte)
      /\ Len(arriving) \in 0..14 /\ Position \in Int
  <2>1. /\ sent \in Seq(Frames) /\ arriving \in Seq(Byte) /\ wire \in Seq(Byte)
        /\ Len(arriving) <= 14
    BY DEF TypeOK
  <2>2. Len(sent) \in Nat /\ Len(arriving) \in Nat
    BY <2>1
  <2>3. \A x, y \in Nat : y <= 14 => y \in 0..14 /\ 14 * x - y \in Int
    OBVIOUS
  <2> QED
    BY <2>1, <2>2, <2>3, Zenon DEF Position
<1> USE DEF LineInv
<1>1. CASE UartSend
  <2>1. PICK f \in Frames : sent' = Append(sent, f) /\ arriving' = Bytes(f)
    BY <1>1 DEF UartSend
  <2>2. Len(arriving') = 14 /\ DOMAIN arriving' = 1..14
    BY <2>1, PiTelemetryAssumption, BytesForm
  <2>3. /\ arriving = <<>> /\ wire' = wire /\ Position' = Position
        /\ Position = 14 * Len(sent)
    BY <1>0, <1>1, <2>1, <2>2 DEF UartSend, Position
  <2>4. /\ DOMAIN sent' = 1..(Len(sent) + 1) /\ sent'[Len(sent) + 1] = f
        /\ \A q \in DOMAIN sent : q \in DOMAIN sent' /\ sent'[q] = sent[q]
    BY <1>0, <2>1
  <2>5. ASSUME NEW q \in DOMAIN sent', NEW j \in 1..14, NEW i \in 1..14,
               Position + i = 14 * (q - 1) + j
        PROVE  arriving'[i] = Bytes(sent'[q])[j]
    <3>1. q = Len(sent) + 1 /\ i = j
      BY <1>0, <2>3, <2>4, <2>5
    <3> QED
      BY <2>1, <2>4, <3>1
  <2>6. OnStream(sent, arriving, Position)'
    <3> SUFFICES ASSUME NEW q \in DOMAIN sent', NEW j \in 1..14,
                        NEW i \in DOMAIN arriving',
                        Position' + i = 14 * (q - 1) + j
                 PROVE  arriving'[i] = Bytes(sent'[q])[j]
      BY Zenon DEF OnStream
    <3> QED
      BY <2>2, <2>3, <2>5, ZenonT(60)
  <2>7. OnStream(Append(sent, f), wire, Position - Len(wire))
    <3> DEFINE b == Position - Len(wire)
    <3>1. b \in Int /\ b + Len(wire) <= 14 * Len(sent) /\ OnStream(sent, wire, b)
      BY <1>0, <2>3
    <3> HIDE DEF b
    <3>2. OnStream(Append(sent, f), wire, b)
      BY <1>0, <3>1, StreamGrown
    <3> QED
      BY <3>2 DEF b
  <2>8. OnStream(sent, wire, Position - Len(wire))'
    BY <2>1, <2>3, <2>7
  <2> QED
    BY <1>0, <2>1, <2>3, <2>6, <2>8
<1>2. CASE UartByte
  <2>1. /\ arriving # <<>> /\ sent' = sent
        /\ wire' = Append(wire, Head(arriving)) /\ arriving' = Tail(arriving)
    BY <1>2 DEF UartByte
  <2>2. /\ Position' = Position + 1 /\ Len(wire') = Len(wire) + 1
        /\ Position' - Len(wire') = Position - Len(wire)
    BY <1>0, <2>1 DEF Position
  <2>3. OnStream(sent, Tail(arriving), Position + 1)
    BY <1>0, <2>1, StreamRest
  <2>4. OnStream(sent, arriving, Position)'
    BY <2>1, <2>2, <2>3
  <2>5. /\ <<Head(arriving)>> \in Seq(Byte)
        /\ Append(wire, Head(arriving)) = wire \o <<Head(arriving)>>
    BY <1>0, <2>1
  <2>6. OnStream(sent, <<Head(arriving)>>, Position)
    <3> SUFFICES ASSUME NEW q \in DOMAIN sent, NEW j \in 1..14,
                        NEW i \in DOMAIN <<Head(arriving)>>,
                        Position + i = 14 * (q - 1) + j
                 PROVE  <<Head(arriving)>>[i] = Bytes(sent[q])[j]
      BY Zenon DEF OnStream
    <3>1. i = 1 /\ <<Head(arriving)>>[i] = Head(arriving)
      OBVIOUS
    <3>2. i \in DOMAIN arriving /\ arriving[i] = Head(arriving)
      BY <1>0, <2>1, <3>1
    <3> QED
      BY <3>1, <3>2, Zenon DEF OnStream
  <2>7. OnStream(sent, wire \o <<Head(arriving)>>, Position - Len(wire))
    <3> DEFINE b == Position - Len(wire)
    <3>1. b \in Int /\ b + Len(wire) = Position /\ OnStream(sent, wire, b)
      BY <1>0
    <3> HIDE DEF b
    <3>2. OnStream(sent, <<Head(arriving)>>, b + Len(wire))
      BY <2>6, <3>1
    <3>3. OnStream(sent, wire \o <<Head(arriving)>>, b)
      BY <1>0, <2>5, <3>1, <3>2, StreamJoin
    <3> QED
      BY <3>3 DEF b
  <2>8. OnStream(sent, wire, Position - Len(wire))'
    BY <2>1, <2>2, <2>5, <2>7
  <2> QED
    BY <1>0, <2>1, <2>2, <2>4, <2>8
<1>3. ASSUME UNCHANGED uart, \/ wire' = wire \/ wire' = <<>>
                             \/ wire # <<>> /\ wire' = Tail(wire)
      PROVE  LineInv'
  <2>1. UNCHANGED <<sent, arriving, Position>>
    BY <1>3 DEF uart, Position
  <2>2. OnStream(sent, arriving, Position)'
    BY <1>3, <2>1 DEF uart
  <2>3. OnStream(sent, wire, Position - Len(wire))' /\ Len(wire') <= Len(wire)
    <3>1. CASE wire' = wire
      BY <1>0, <2>1, <3>1
    <3>2. CASE wire' = <<>>
      BY <1>0, <2>1, <3>2 DEF OnStream
    <3>3. CASE wire # <<>> /\ wire' = Tail(wire)
      <4>1. OnStream(sent, Tail(wire), Position - Len(wire) + 1)
        BY <1>0, <3>3, StreamRest
      <4>2. /\ Position' - Len(wire') = Position - Len(wire) + 1
            /\ Len(wire') <= Len(wire)
        BY <1>0, <2>1, <3>3
      <4> QED
        BY <2>1, <3>3, <4>1, <4>2
    <3> QED
      BY <1>3, <3>1, <3>2, <3>3
  <2> QED
    BY <1>0, <2>1, <2>2, <2>3
<1>4. CASE mqtt_publish
  <2>1. UNCHANGED uart /\ \/ wire' = wire \/ wire' = <<>>
                          \/ wire # <<>> /\ wire' = Tail(wire)
    BY <1>4 DEF mqtt_publish, ReadFirst, ReadRest, Check, Discard,
                create_sense_message, Publish
  <2> QED
    BY <1>3, <2>1
<1>5. CASE UNCHANGED vars
  BY <1>3, <1>5 DEF vars
<1> QED
  BY <1>1, <1>2, <1>4, <1>5 DEF Next

\* The alarm compares with the lowest charge so far, and at a charge below
\* that it is raised.
LEMMA AlarmStep == TypeOK /\ AlarmInv /\ [Next]_vars => AlarmInv'
<1> SUFFICES ASSUME TypeOK, AlarmInv, [Next]_vars PROVE AlarmInv'
  OBVIOUS
<1>1. CASE create_sense_message
  <2> DEFINE c == sense_values(received_data)[1]
  <2>1. c \in Word /\ charges \in Seq(Word) /\ previous_charge \in Word /\ setup \in {0, 1}
    BY <1>1, ValuesType DEF create_sense_message, TypeOK
  <2>2. get_alarm_state(c)
    BY <1>1 DEF create_sense_message
  <2> HIDE DEF c
  <2> DEFINE L == Len(charges)
  <2>3. /\ charges' = Append(charges, c) /\ L \in Nat /\ Len(charges') = L + 1
        /\ charges'[L + 1] = c /\ DOMAIN charges' = 1..(L + 1) /\ DOMAIN charges = 1..L
        /\ \A n \in 1..L : charges'[n] = charges[n] /\ charges[n] \in Word
    BY <2>1, <2>2 DEF get_alarm_state
  <2>4. \A x \in Word : x \in Int
    BY DEF Word
  <2>5. L = 0 <=> setup = 0
    BY <2>1, <2>3 DEF AlarmInv
  <2>8. alarms \subseteq 1..L
    BY <2>3 DEF TypeOK
  <2>9. /\ \A n \in 1..L : previous_charge <= charges[n]
        /\ setup = 1 => \E n \in 1..L : previous_charge = charges[n]
        /\ \A m \in 1..L :
             (\A j \in 1..m : previous_charge < charges[j]) => \E k \in alarms : m < k
    BY <2>3 DEF AlarmInv
  <2>10. \A m, n \in 1..L :
            m < n /\ (\A j \in 1..m : charges[n] < charges[j] /\ 10 * charges[n] <= 9 * charges[j])
                => \E k \in alarms : m < k /\ k <= n
    BY <2>3, Zenon DEF AlarmInv, DropIsAlarmed
  <2> HIDE DEF L
  <2>11. /\ setup' = 1
         /\ alarms' = IF Drop(c) THEN alarms \cup {L + 1} ELSE alarms
         /\ Drop(c) => previous_charge' = c
         /\ ~ Drop(c) => previous_charge' = Previous(c)
    BY <2>2, <2>3 DEF get_alarm_state, ChargeKept
  <2>12. /\ \A n \in 1..(L + 1) : n = L + 1 \/ n \in 1..L
         /\ \A n \in 1..L : n < L + 1 /\ n \in 1..(L + 1)
         /\ L + 1 \in 1..(L + 1)
         /\ \A n \in 1..L : \A j \in 1..n : j \in 1..L
    BY <2>3
  <2>13. /\ \A n \in 1..(L + 1) : previous_charge' <= charges'[n]
         /\ \E n \in 1..(L + 1) : previous_charge' = charges'[n]
         /\ previous_charge' \in Word
    <3>1. CASE setup = 0
      <4>1. L = 0 /\ previous_charge' = c
        BY <2>5, <2>11, <3>1 DEF Previous
      <4> QED
        BY <2>1, <2>3, <2>4, <2>12, <4>1
    <3>2. CASE setup = 1 /\ Drop(c)
      <4>1. previous_charge' = c /\ c < previous_charge
        BY <2>1, <2>4, <2>11, <3>2 DEF Drop, Previous
      <4>2. \A n \in 1..L : c <= charges[n]
        BY <2>1, <2>3, <2>4, <2>9, <4>1
      <4>3. c <= c
        BY <2>1, <2>4
      <4> QED
        BY <2>1, <2>3, <2>12, <4>1, <4>2, <4>3
    <3>3. CASE setup = 1 /\ ~ Drop(c)
      <4>1. previous_charge' = previous_charge /\ previous_charge <= c
        BY <2>1, <2>4, <2>11, <3>3 DEF Drop, Previous
      <4> QED
        BY <2>1, <2>3, <2>9, <2>12, <3>3, <4>1
    <3> QED
      BY <2>1, <3>1, <3>2, <3>3
  <2>14. ASSUME NEW m \in 1..(L + 1), \A j \in 1..m : previous_charge' < charges'[j]
         PROVE  \E k \in alarms' : m < k
    <3>1. m \in 1..L
      <4>1. PICK n \in 1..(L + 1) : previous_charge' = charges'[n]
        BY <2>13
      <4>2. ~ (n \in 1..m)
        BY <2>4, <2>13, <2>14, <4>1
      <4> QED
        BY <2>3, <2>12, <4>2
    <3>2. CASE Drop(c)
      BY <2>11, <2>12, <3>1, <3>2
    <3>3. CASE ~ Drop(c)
      <4>1. setup = 1
        <5>1. L # 0
          BY <2>3, <3>1
        <5> QED
          BY <2>1, <2>5, <5>1
      <4>2. previous_charge' = previous_charge /\ alarms' = alarms
        BY <2>11, <3>3, <4>1 DEF Previous
      <4>3. \A j \in 1..m : previous_charge < charges[j]
        BY <2>3, <2>12, <2>14, <3>1, <4>2
      <4> QED
        BY <2>9, <3>1, <4>2, <4>3
    <3> QED
      BY <3>2, <3>3
  <2>15. ASSUME NEW m \in 1..(L + 1), NEW n \in 1..(L + 1), m < n,
                \A j \in 1..m : /\ charges'[n] < charges'[j]
                               /\ 10 * charges'[n] <= 9 * charges'[j]
         PROVE  \E k \in alarms' : m < k /\ k <= n
    <3>1. CASE n = L + 1
      <4>1. /\ \A j \in 1..m : charges'[j] \in Word /\ previous_charge' < charges'[j]
        <5>1. \A j \in 1..m : charges'[j] \in Word /\ charges'[n] \in Word
          <6>1. \A j \in 1..(L + 1) : charges'[j] \in Word
            BY <2>1, <2>3, <2>12
          <6>2. \A j \in 1..m : j \in 1..(L + 1)
            BY <2>3
          <6> QED
            BY <6>1, <6>2
        <5> QED
          BY <2>4, <2>13, <2>15, <5>1
      <4>2. PICK k \in alarms' : m < k
        BY <2>14, <4>1
      <4>3. k \in 1..(L + 1)
        BY <2>8, <2>11, <2>12
      <4> QED
        BY <3>1, <4>2, <4>3
    <3>2. CASE n \in 1..L
      <4>1. m \in 1..L
        BY <2>3, <2>15, <3>2
      <4>2. \A j \in 1..m : charges[n] < charges[j] /\ 10 * charges[n] <= 9 * charges[j]
        BY <2>3, <2>12, <2>15, <3>2, <4>1
      <4>3. \E k \in alarms : m < k /\ k <= n
        BY <2>10, <2>15, <3>2, <4>1, <4>2
      <4> QED
        BY <2>11, <4>3
    <3> QED
      BY <2>12, <3>1, <3>2
  <2>16. charges' # <<>>
    BY <2>3
  <2>17. DropIsAlarmed'
    BY <2>3, <2>15, Zenon DEF DropIsAlarmed
  <2> QED
    BY <2>3, <2>11, <2>13, <2>14, <2>16, <2>17 DEF AlarmInv
<1>2. CASE UNCHANGED alarm
  BY <1>2 DEF alarm, AlarmInv, DropIsAlarmed
<1> QED
  BY <1>1, <1>2 DEF Next, UartSend, UartByte, mqtt_publish, ReadFirst, ReadRest,
                    Check, Discard, Publish, vars

\* Reading, discarding and publishing move on along the stream.
LEMMA ReadStep ==
    TypeOK /\ LineInv /\ ReadInv /\ [Next]_vars /\ TypeOK' => ReadInv'
<1> SUFFICES ASSUME TypeOK, LineInv, ReadInv, [Next]_vars, TypeOK' PROVE ReadInv'
  OBVIOUS
<1>1. PICK b \in Nat, r \in [DOMAIN published -> DOMAIN sent] : Consumed(b, r)
  BY DEF ReadInv
<1>2. /\ sent \in Seq(Frames) /\ arriving \in Seq(Byte) /\ wire \in Seq(Byte)
      /\ received_data \in Seq(Byte) /\ published \in Seq(Message)
      /\ sensing_data_msg \in Message
  BY DEF TypeOK
<1>3. Len(wire) \in Nat /\ Len(received_data) \in Nat /\ Len(sent) \in Nat
      /\ Len(arriving) \in Nat
  BY <1>2
<1> DEFINE W == Position - Len(wire)
<1>4. W \in Nat /\ W <= 14 * Len(sent) /\ OnStream(sent, wire, W)
  BY <1>3 DEF LineInv, Position
<1>5. /\ b + Len(received_data) <= W
      /\ pc = "sleep" => b + Len(received_data) = W
      /\ OnStream(sent, received_data, b)
      /\ \A n, k \in DOMAIN published : n < k => r[n] < r[k]
      /\ \A n \in DOMAIN published :
           published[n].values = sent[r[n]] /\ 14 * r[n] <= b
      /\ pc = "publish" =>
           \E q \in DOMAIN sent :
              /\ sensing_data_msg.values = sent[q] /\ 14 * q <= b
              /\ \A n \in DOMAIN published : r[n] < q
  BY <1>1 DEF Consumed
<1>6. \A n \in DOMAIN published : r[n] \in Nat
  BY <1>2
<1> HIDE DEF W
\* Nothing is published and the bytes taken are those from c on.
<1>7. ASSUME NEW c \in Nat, b <= c, UNCHANGED <<sent, published>>,
             c + Len(received_data') <= W', OnStream(sent, received_data', c),
             pc' = "sleep" => c + Len(received_data') = W',
             pc' = "publish" =>
                \E q \in DOMAIN sent :
                   /\ sensing_data_msg'.values = sent[q] /\ 14 * q <= c
                   /\ \A n \in DOMAIN published : r[n] < q
      PROVE  ReadInv'
  <2>1. Consumed(c, r)'
    BY <1>5, <1>6, <1>7 DEF Consumed, W
  <2> QED
    BY <1>7, <2>1 DEF ReadInv
<1>8. CASE UartSend
  <2>1. PICK f \in Frames : sent' = Append(sent, f) /\ arriving' = Bytes(f)
    BY <1>8 DEF UartSend
  <2>2. UNCHANGED <<wire, pc, received_data, published, sensing_data_msg>> /\ arriving = <<>>
    BY <1>8 DEF UartSend, message
  <2>3. Len(arriving') = 14
    BY <2>1, PiTelemetryAssumption, BytesForm
  <2>4. W' = W
    BY <1>2, <1>3, <2>1, <2>2, <2>3 DEF W, Position
  <2>5. OnStream(sent', received_data, b)
    BY <1>2, <1>3, <1>4, <1>5, <2>1, StreamGrown
  <2>6. /\ \A q \in DOMAIN sent : q \in DOMAIN sent' /\ sent'[q] = sent[q]
        /\ r \in [DOMAIN published -> DOMAIN sent']
    BY <1>2, <2>1
  <2>7. Consumed(b, r)'
    BY <1>5, <2>2, <2>4, <2>5, <2>6 DEF Consumed, W
  <2> QED
    BY <2>2, <2>6, <2>7 DEF ReadInv
<1>9. CASE UartByte
  <2>1. /\ UNCHANGED <<sent, pc, received_data, published, sensing_data_msg>>
        /\ arriving # <<>> /\ arriving' = Tail(arriving) /\ Len(wire') = Len(wire) + 1
    BY <1>2, <1>9 DEF UartByte, message
  <2>2. W' = W
    BY <1>2, <1>3, <2>1 DEF W, Position
  <2> QED
    BY <1>5, <1>7, <2>1, <2>2
<1>10. CASE ReadFirst
  <2>1. /\ UNCHANGED <<sent, arriving, published, sensing_data_msg>> /\ wire # <<>>
        /\ received_data' = <<Head(wire)>> /\ wire' = Tail(wire) /\ pc' = "sleep"
    BY <1>10 DEF ReadFirst, uart, message
  <2>2. W' = W + 1 /\ Len(received_data') = 1
    BY <1>2, <1>3, <2>1 DEF W, Position
  <2>3. OnStream(sent, <<Head(wire)>>, W)
    <3> SUFFICES ASSUME NEW q \in DOMAIN sent, NEW j \in 1..14,
                        NEW i \in DOMAIN <<Head(wire)>>, W + i = 14 * (q - 1) + j
                 PROVE  <<Head(wire)>>[i] = Bytes(sent[q])[j]
      BY Zenon DEF OnStream
    <3>1. i = 1 /\ <<Head(wire)>>[i] = Head(wire)
      OBVIOUS
    <3>2. i \in DOMAIN wire /\ wire[i] = Head(wire)
      BY <1>2, <2>1, <3>1
    <3> QED
      BY <1>4, <3>1, <3>2, Zenon DEF OnStream
  <2>4. b <= W
    BY <1>3, <1>4, <1>5
  <2> QED
    BY <1>4, <1>7, <2>1, <2>2, <2>3, <2>4
<1>11. CASE ReadRest
  <2>1. /\ UNCHANGED <<sent, arriving, published, sensing_data_msg>> /\ pc = "sleep"
        /\ received_data' = received_data \o wire /\ wire' = <<>> /\ pc' = "check"
    BY <1>11 DEF ReadRest, uart, message
  <2>2. W' = W + Len(wire) /\ Len(received_data') = Len(received_data) + Len(wire)
    BY <1>2, <1>3, <2>1 DEF W, Position
  <2>3. OnStream(sent, received_data \o wire, b)
    BY <1>2, <1>4, <1>5, <2>1, StreamJoin
  <2> QED
    BY <1>3, <1>4, <1>5, <1>7, <2>1, <2>2, <2>3
\* The bytes taken are dropped, and the input buffer may be, too.
<1>12. ASSUME UNCHANGED <<sent, arriving, published>>, received_data' = <<>>,
              wire' \in {wire, <<>>}, pc' = "read"
       PROVE  ReadInv'
  <2>1. W' >= W
    BY <1>3, <1>4, <1>12 DEF W, Position
  <2>2. OnStream(sent, <<>>, b)
    BY DEF OnStream
  <2>3. W' \in Int
    BY <1>2, <1>3, <1>12 DEF W, Position
  <2> QED
    BY <1>3, <1>4, <1>5, <1>7, <1>12, <2>1, <2>2, <2>3
<1>13. CASE Check
  <2>1. CASE WrongLength
    BY <1>12, <1>13, <2>1 DEF Check, uart, message
  <2>2. CASE ~ WrongLength
    <3>1. /\ UNCHANGED <<sent, arriving, wire, received_data, published>>
          /\ pc' = "create"
      BY <1>13, <2>2 DEF Check, uart, message
    <3>2. W' = W
      BY <3>1 DEF W, Position
    <3> QED
      BY <1>5, <1>7, <3>1, <3>2
  <2> QED
    BY <2>1, <2>2
<1>14. CASE Discard
  BY <1>12, <1>14 DEF Discard, uart, message
<1>15. CASE create_sense_message
  <2>1. /\ UNCHANGED <<sent, arriving, wire, published>> /\ pc' = "publish"
        /\ received_data' = <<>> /\ Parsable(received_data)
        /\ sensing_data_msg' = [values |-> sense_values(received_data),
                                Alarm |-> alarm_state']
    BY <1>15 DEF create_sense_message, uart
  <2>2. Len(received_data) = 14
    BY <1>15 DEF create_sense_message, TypeOK
  <2>3. b + 14 <= W /\ b + 14 <= 14 * Len(sent)
    BY <1>3, <1>4, <1>5, <2>2
  <2>4. PICK q \in DOMAIN sent :
           b = 14 * (q - 1) /\ sense_values(received_data) = sent[q]
    BY <1>2, <1>5, <2>1, <2>2, <2>3, ParsedWasSent
  <2>5. q \in Nat
    BY <1>2
  <2>6. \A n \in DOMAIN published : r[n] < q
    BY <1>5, <1>6, <2>4, <2>5
  <2>7. W' = W
    BY <2>1 DEF W, Position
  <2>8. OnStream(sent, <<>>, b + 14) /\ Len(<<>>) = 0
    BY DEF OnStream
  <2>9. sensing_data_msg'.values = sent[q] /\ 14 * q <= b + 14
    BY <2>1, <2>4, <2>5
  <2> QED
    BY <1>4, <1>7, <2>1, <2>3, <2>6, <2>7, <2>8, <2>9
<1>16. CASE Publish
  <2>1. /\ UNCHANGED <<sent, arriving, wire, received_data>> /\ pc' = "read" /\ pc = "publish"
        /\ published' \in {published, Append(published, sensing_data_msg)}
    BY <1>16 DEF Publish, uart
  <2>2. W' = W
    BY <2>1 DEF W, Position
  <2>3. CASE published' = published
    BY <1>5, <1>7, <2>1, <2>2, <2>3
  <2>4. CASE published' = Append(published, sensing_data_msg)
    <3>1. PICK q \in DOMAIN sent :
             /\ sensing_data_msg.values = sent[q] /\ 14 * q <= b
             /\ \A n \in DOMAIN published : r[n] < q
      BY <1>5, <2>1
    <3> DEFINE last == Len(published) + 1
    <3>2. /\ DOMAIN published' = 1..last /\ DOMAIN published = 1..(last - 1)
          /\ last \in Nat /\ published'[last] = sensing_data_msg
          /\ \A n \in 1..(last - 1) : published'[n] = published[n]
      BY <1>2, <2>4
    <3>3. PICK s \in [DOMAIN published' -> DOMAIN sent] :
             s[last] = q /\ \A n \in 1..(last - 1) : s[n] = r[n]
      <4> DEFINE s == [n \in DOMAIN published' |-> IF n = last THEN q ELSE r[n]]
      <4>1. /\ s \in [DOMAIN published' -> DOMAIN sent] /\ s[last] = q
            /\ \A n \in 1..(last - 1) : s[n] = r[n]
        BY <3>2
      <4> QED
        BY <4>1
    <3> HIDE DEF last
    <3>4. ASSUME NEW n \in 1..last, NEW k \in 1..last, n < k
          PROVE  s[n] < s[k]
      <4>1. n \in 1..(last - 1) /\ (k = last \/ k \in 1..(last - 1))
        BY <3>2, <3>4
      <4> QED
        BY <1>5, <3>1, <3>2, <3>3, <3>4, <4>1
    <3>5. ASSUME NEW n \in 1..last
          PROVE  published'[n].values = sent[s[n]] /\ 14 * s[n] <= b
      <4>1. n = last \/ n \in 1..(last - 1)
        BY <3>2
      <4> QED
        BY <1>5, <3>1, <3>2, <3>3, <4>1
    <3>6. Consumed(b, s)'
      BY <1>5, <2>1, <2>2, <3>2, <3>4, <3>5 DEF Consumed, W
    <3> QED
      BY <2>1, <3>3, <3>6 DEF ReadInv
  <2> QED
    BY <2>1, <2>3, <2>4
<1>17. CASE UNCHANGED vars
  <2>1. UNCHANGED <<sent, arriving, wire, pc, received_data, published, sensing_data_msg>>
    BY <1>17 DEF vars, uart, message
  <2>2. W' = W
    BY <2>1 DEF W, Position
  <2> QED
    BY <1>5, <1>7, <2>1, <2>2
<1> QED
  BY <1>8, <1>9, <1>10, <1>11, <1>13, <1>14, <1>15, <1>16, <1>17 DEF Next, mqtt_publish

-----------------------------------------------------------------------------
THEOREM Invariant == Spec => []IInv
<1>1. IInv /\ [Next]_vars => IInv'
  BY TypeStep, LineStep, ReadStep, AlarmStep DEF IInv
<1> QED
  BY InitInv, <1>1, PTL DEF Spec

\* Every message published holds a frame's values as the robot sent them, in
\* order and at most once, wherever read_UART's reads begin and end.
THEOREM PublishedSent == Spec => []PublishedWereSent
<1>1. IInv => PublishedWereSent
  BY DEF IInv, ReadInv, Consumed, PublishedWereSent
<1> QED
  BY Invariant, <1>1, PTL

\* No fall of the charge by a tenth below all it was before goes without an
\* alarm, however long the fall takes and whatever the charge does in between.
THEOREM DropsAlarmed == Spec => []DropIsAlarmed
<1>1. IInv => DropIsAlarmed
  BY DEF IInv, AlarmInv
<1> QED
  BY Invariant, <1>1, PTL
=============================================================================
