----------------------------- MODULE PiCommands -----------------------------
(***************************************************************************)
(* The command thread of internet_gateway/pi_controller.py: it subscribes  *)
(* to CONTROL_TOPIC once, then stays in paho's loop_forever, which calls   *)
(* on_mqtt_message for each message and reconnects when the broker is      *)
(* lost.  Broker and paho are external: messages of quality 0 go, in       *)
(* order, to a client that is connected and subscribed, and a clean        *)
(* session is forgotten with its connection.                               *)
(***************************************************************************)
EXTENDS Integers, Sequences

CONSTANTS MaxCommands,   \* bound: commands the control interface publishes
          MaxLosses      \* bound: times the broker is lost

VARIABLES sent,          \* commands published so far; they are numbered
          losses,        \* times the connection has been lost
          connected,
          subscribed,    \* what the broker knows of this client
          inbox,         \* messages for it, on their way or in its socket
          pc,            \* where the thread is
          message,       \* the message on_mqtt_message was called with
          written        \* the commands written to the UART

broker == <<losses, connected, subscribed>>
thread == <<pc, message, written>>
vars == <<sent, broker, inbox, thread>>

NoMessage == 0

Init == /\ sent = 0
        /\ losses = 0
        /\ connected = TRUE      \* connect, before the threads are started
        /\ subscribed = FALSE
        /\ inbox = <<>>
        /\ pc = "subscribe" /\ message = NoMessage
        /\ written = <<>>

-----------------------------------------------------------------------------
\* A button of the control interface: client.publish.
PublishCommand ==
    /\ sent < MaxCommands
    /\ sent' = sent + 1
    /\ inbox' = IF connected /\ subscribed THEN Append(inbox, sent') ELSE inbox
    /\ UNCHANGED <<broker, thread>>

\* The connection breaks; the client may still read what its socket holds.
LoseBroker ==
    /\ connected
    /\ losses < MaxLosses
    /\ losses' = losses + 1
    /\ connected' = FALSE
    /\ subscribed' = FALSE
    /\ inbox' \in {SubSeq(inbox, 1, n) : n \in 0..Len(inbox)}
    /\ UNCHANGED <<sent, thread>>

\* mqtt_subscribe: without a connection, subscribe only returns an error code.
Subscribe ==
    /\ pc = "subscribe"
    /\ subscribed' = connected
    /\ pc' = "loop"
    /\ UNCHANGED <<sent, losses, connected, inbox, message, written>>

\* loop_forever reconnects and calls on_connect, which only prints.
Reconnect ==
    /\ pc = "loop"
    /\ ~ connected /\ inbox = <<>>
    /\ connected' = TRUE
    /\ UNCHANGED <<sent, losses, subscribed, inbox, thread>>

\* Mutant: messages that wait are overtaken by the last one.
Newest == inbox[Len(inbox)]

\* paho hands the messages over as they came.
Oldest == Head(inbox)

OnMqttMessage ==
    /\ pc = "loop"
    /\ inbox # <<>>
    /\ message' = Oldest
    /\ inbox' = Tail(inbox)
    /\ pc' = "write"
    /\ UNCHANGED <<sent, broker, written>>

\* write_UART: ser.write, then a sleep of a second.
WriteUART ==
    /\ pc = "write"
    /\ written' = Append(written, message)
    /\ message' = NoMessage
    /\ pc' = "sleep"
    /\ UNCHANGED <<sent, broker, inbox>>

\* The payload is no text, or ser.write fails: the exception leaves
\* loop_forever and ends the thread.  The main thread, which waits for the
\* telemetry thread first, never learns of it.
Raise ==
    /\ pc = "write"
    /\ message' = NoMessage
    /\ pc' = "ended"
    /\ UNCHANGED <<sent, broker, inbox, written>>

\* Mutant: what came during the sleep is dropped.
WaitingDropped == <<>>

\* What came during the sleep waits in the socket.
Waiting == inbox

Wake ==
    /\ pc = "sleep"
    /\ pc' = "loop"
    /\ inbox' = Waiting
    /\ UNCHANGED <<sent, broker, message, written>>

mqtt_subscribe == Subscribe \/ Reconnect \/ OnMqttMessage \/ WriteUART \/ Wake

Next == PublishCommand \/ LoseBroker \/ mqtt_subscribe \/ Raise

\* The thread runs; nothing makes a button be pressed.
Fairness == WF_vars(mqtt_subscribe)

Spec == Init /\ [][Next]_vars
FairSpec == Spec /\ Fairness

-----------------------------------------------------------------------------
TypeOK ==
    /\ sent \in 0..MaxCommands
    /\ losses \in 0..MaxLosses
    /\ connected \in BOOLEAN /\ subscribed \in BOOLEAN
    /\ inbox \in Seq(1..sent)
    /\ pc \in {"subscribe", "loop", "write", "sleep", "ended"}
    /\ message \in {NoMessage} \cup 1..sent
    /\ written \in Seq(1..sent)

\* WrittenInOrder: the UART gets every command at most once and in the order
\* of the buttons, and nothing that still waits is older than what was
\* written, whatever connection is lost with whatever on the way.
WrittenInOrder ==
    LET line == written \o (IF message = NoMessage THEN <<>> ELSE <<message>>) \o inbox
    IN  \A m, n \in DOMAIN line : m < n => line[m] < line[n]

\* SubscribedWhenConnected: in its loop, a connected client is subscribed.
SubscribedWhenConnected == pc = "loop" /\ connected => subscribed
=============================================================================
