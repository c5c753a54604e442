----------------------------- MODULE PiTelemetry ----------------------------
(***************************************************************************)
(* The telemetry thread of internet_gateway/pi_controller.py.  A frame of  *)
(* the robot arrives over the UART as five 16 bit fields in little endian  *)
(* with commas between them; mqtt_publish reads it, decodes it, adds the   *)
(* alarm and publishes it.  Bytes arrive at any moment, and read_UART's    *)
(* sleep of 0.2 s is no guarantee that it finds one whole frame.           *)
(***************************************************************************)
EXTENDS Integers, Sequences

CONSTANTS Frames,      \* the field values of the frames the robot may send
          MaxFrames    \* bound: how many frames it sends

Byte == 0..255
Word == 0..65535

ASSUME PiTelemetryAssumption ==
    /\ Frames \subseteq [1..5 -> Word]
    /\ MaxFrames \in Nat

MESSAGE_LENGTH == 14
Comma == 44

VARIABLES sent,             \* the frames the robot has begun to send
          arriving,         \* the bytes of the last one still on the way
          wire,             \* the serial port's input buffer
          pc,               \* where mqtt_publish is
          received_data,
          sensing_data_msg, \* the message to publish
          setup, previous_charge, alarm_state,
          charges,          \* the charges get_alarm_state has seen
          alarms,           \* those of them, by number, it has raised the alarm at
          published

uart == <<sent, arriving>>
alarm == <<setup, previous_charge, alarm_state, charges, alarms>>
message == <<sensing_data_msg, published>>
vars == <<uart, wire, pc, received_data, alarm, message>>

Message == [values : Seq(Word), Alarm : {0, 1}]
NoMessage == [values |-> <<>>, Alarm |-> 0]

Init == /\ sent = <<>> /\ arriving = <<>> /\ wire = <<>>
        /\ pc = "read" /\ received_data = <<>>
        /\ sensing_data_msg = NoMessage
        /\ setup = 0 /\ previous_charge = 0 /\ alarm_state = 0
        /\ charges = <<>> /\ alarms = {}
        /\ published = <<>>

-----------------------------------------------------------------------------
(***************************************************************************)
(* The gateway's end of the UART: a notification without its "13" header.  *)
(***************************************************************************)
ByteAt(n, field) == IF n % 3 = 0 THEN Comma
                    ELSE IF n % 3 = 1 THEN field % 256 ELSE field \div 256

Bytes(f) == [n \in 1..MESSAGE_LENGTH |-> ByteAt(n, f[(n + 2) \div 3])]

UartSend ==
    /\ arriving = <<>>
    /\ Len(sent) < MaxFrames
    /\ \E f \in Frames : sent' = Append(sent, f) /\ arriving' = Bytes(f)
    /\ UNCHANGED <<wire, pc, received_data, alarm, message>>

UartByte ==
    /\ arriving # <<>>
    /\ wire' = Append(wire, Head(arriving))
    /\ arriving' = Tail(arriving)
    /\ UNCHANGED <<sent, pc, received_data, alarm, message>>

-----------------------------------------------------------------------------
(***************************************************************************)
(* parse_decoded_uart_data.  The text is cut at its commas and every part  *)
(* must be the two bytes of a field; the values found are named in the     *)
(* order of the keys, the first one "charge".                              *)
(***************************************************************************)
Cuts(d) == {0, Len(d) + 1} \cup {n \in DOMAIN d : d[n] = Comma}

\* A byte from 128 on makes decode raise, or, as half of a character, leaves
\* a part of the wrong length: nothing is published either way.
Decodable(d) == \A n \in DOMAIN d : d[n] < 128

\* struct.unpack takes two bytes: after a cut, the next one is the third.
Parsable(d) == \A n \in Cuts(d) \ {Len(d) + 1} :
                  n + 1 \notin Cuts(d) /\ n + 2 \notin Cuts(d) /\ n + 3 \in Cuts(d)

sense_values(d) ==
    [j \in 1..((Len(d) + 1) \div 3) |-> d[3 * j - 2] + 256 * d[3 * j - 1]]

-----------------------------------------------------------------------------
\* ser.read(): blocks for the first byte; then the sleep.
ReadFirst ==
    /\ pc = "read"
    /\ wire # <<>>
    /\ received_data' = <<Head(wire)>>
    /\ wire' = Tail(wire)
    /\ pc' = "sleep"
    /\ UNCHANGED <<uart, alarm, message>>

\* ser.read(ser.inWaiting()): what is there by now.
ReadRest ==
    /\ pc = "sleep"
    /\ received_data' = received_data \o wire
    /\ wire' = <<>>
    /\ pc' = "check"
    /\ UNCHANGED <<uart, alarm, message>>

\* Mutant: the input is only flushed when it is too long.
TooLong == Len(received_data) > MESSAGE_LENGTH

\* The lengths that make read_UART flush its input.
WrongLength == Len(received_data) # MESSAGE_LENGTH

Check ==
    /\ pc = "check"
    /\ \/ WrongLength /\ wire' = <<>> /\ received_data' = <<>> /\ pc' = "read"
       \/ ~ WrongLength /\ pc' = "create" /\ UNCHANGED <<wire, received_data>>
    /\ UNCHANGED <<uart, alarm, message>>

\* decode or the parser raises: mqtt_publish reads on, the alarm is not asked.
Discard ==
    /\ pc = "create"
    /\ ~ (Decodable(received_data) /\ Parsable(received_data))
    /\ received_data' = <<>>
    /\ pc' = "read"
    /\ UNCHANGED <<uart, wire, alarm, message>>

\* Mutant: the first charge is not taken over.
PreviousNotSetUp(charge) == previous_charge

\* The charge to compare with, and whether this one is lower.
Previous(charge) == IF setup = 0 THEN charge ELSE previous_charge
Drop(charge) == Previous(charge) - charge >= 1

\* Only an alarm renews the charge to compare with.
ChargeKept(charge) == IF Drop(charge) THEN charge ELSE Previous(charge)

get_alarm_state(charge) ==
    /\ setup' = 1
    /\ alarm_state' = IF Drop(charge) THEN 1 ELSE 0
    /\ previous_charge' = ChargeKept(charge)
    /\ charges' = Append(charges, charge)
    /\ alarms' = IF Drop(charge) THEN alarms \cup {Len(charges')} ELSE alarms

create_sense_message ==
    /\ pc = "create"
    /\ Decodable(received_data) /\ Parsable(received_data)
    /\ get_alarm_state(sense_values(received_data)[1])
    /\ sensing_data_msg' = [values |-> sense_values(received_data),
                            Alarm |-> alarm_state']
    /\ received_data' = <<>>
    /\ pc' = "publish"
    /\ UNCHANGED <<uart, wire, published>>

\* mqtt_client.publish, which may raise: the message, and its alarm, is lost.
Publish ==
    /\ pc = "publish"
    /\ published' \in {published, Append(published, sensing_data_msg)}
    /\ sensing_data_msg' = NoMessage
    /\ pc' = "read"
    /\ UNCHANGED <<uart, wire, received_data, alarm>>

mqtt_publish == \/ ReadFirst \/ ReadRest \/ Check \/ Discard
                \/ create_sense_message \/ Publish

Next == UartSend \/ UartByte \/ mqtt_publish

Spec == Init /\ [][Next]_vars

-----------------------------------------------------------------------------
TypeOK ==
    /\ sent \in Seq(Frames)
    /\ arriving \in Seq(Byte) /\ Len(arriving) <= MESSAGE_LENGTH
    /\ wire \in Seq(Byte)
    /\ pc \in {"read", "sleep", "check", "create", "publish"}
    /\ received_data \in Seq(Byte)
    /\ pc = "create" => Len(received_data) = MESSAGE_LENGTH
    /\ setup \in {0, 1} /\ alarm_state \in {0, 1}
    /\ previous_charge \in Word
    /\ charges \in Seq(Word) /\ alarms \subseteq DOMAIN charges
    /\ sensing_data_msg \in Message
    /\ published \in Seq(Message)

\* PublishedWereSent: what is published are readings the robot has sent, each
\* at most once and in their order, although read_UART may start anywhere in
\* a frame and finds fourteen bytes that belong to two of them: no shifted,
\* merged or comma-carrying bytes are ever taken for a reading.
PublishedWereSent ==
    \E from \in [DOMAIN published -> DOMAIN sent] :
        /\ \A n, k \in DOMAIN published : n < k => from[n] < from[k]
        /\ \A n \in DOMAIN published : published[n].values = sent[from[n]]

\* DropIsAlarmed: when the charge has dropped by a tenth below all it was up to
\* some reading, the alarm was raised after that reading: neither the many
\* readings of a slow fall nor a charge that rises and falls in between hide
\* it.  (The alarm says no more than that: it is raised at smaller drops, too.)
DropIsAlarmed ==
    \A m, n \in DOMAIN charges :
        m < n /\ (\A j \in 1..m : /\ charges[n] < charges[j]
                                  /\ 10 * charges[n] <= 9 * charges[j])
            => \E k \in alarms : m < k /\ k <= n

\* WholeFramesReadable: a frame that is read whole can be decoded.
WholeFramesReadable ==
    pc = "create" /\ (\E n \in DOMAIN sent : received_data = Bytes(sent[n]))
        => Decodable(received_data) /\ Parsable(received_data)
=============================================================================
