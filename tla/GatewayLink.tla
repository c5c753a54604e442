----------------------------- MODULE GatewayLink ----------------------------
(***************************************************************************)
(* How the gateway finds and keeps its robot (ble_gateway/src/main.c):     *)
(* main starts to scan, the callbacks of scanning, connection, security    *)
(* and service discovery do the rest.  Every callback may find that the    *)
(* call it makes fails, and most of them only log that.  External are the  *)
(* scan library, which stops scanning and connects to what matches its     *)
(* filter, the discovery manager, and the stack with one connection.       *)
(***************************************************************************)
EXTENDS Integers

CONSTANTS Robots     \* the devices with the service that may come into reach

None == "none"
ASSUME LinkAssumption == None \notin Robots

VARIABLES main,          \* where main is
          scanning,
          peer,          \* the robot of the stack's connection, or None
          connection,    \* that connection: none, connecting or connected
          default_conn,  \* is NULL (None) or refers to a connection to ...
          refs,          \* the references main.c holds to the connection
          security,      \* of this connection: none, asked, secured, refused
          dm,            \* the discovery manager is running
          handles,       \* nus_client's handles are those of ..., or None
          subscribed,    \* the notifications of this connection are enabled
          idle_for,      \* the call whose failure has left the gateway idle
          deaf_for       \* the failure that has left this connection unused

scan == <<scanning, idle_for>>
ours == <<default_conn, refs>>
service == <<handles, subscribed>>
link == <<peer, connection, security, dm, service, deaf_for>>
vars == <<main, scan, ours, link>>

Init == /\ main = "init"
        /\ scanning = FALSE
        /\ peer = None /\ connection = "none"
        /\ default_conn = None /\ refs = 0
        /\ security = "none" /\ dm = FALSE
        /\ handles = None /\ subscribed = FALSE
        /\ idle_for = "none" /\ deaf_for = "none"

-----------------------------------------------------------------------------
\* Mutant: the scan is not started again.
ScanForgotten == UNCHANGED scan

\* bt_scan_start, which may fail; that is logged.
ScanStart ==
    \/ scanning' = TRUE /\ UNCHANGED idle_for
    \/ idle_for' = "scan_start" /\ UNCHANGED scanning

\* Bluetooth, UART, scanning and NUS client are initialised; the first
\* failure ends main.
MainInit ==
    /\ main = "init"
    /\ main' \in {"scan", "returned"}
    /\ UNCHANGED <<scan, ours, link>>

MainScan ==
    /\ main = "scan"
    /\ \/ scanning' = TRUE /\ main' = "loop"
       \/ main' = "returned" /\ UNCHANGED scanning
    /\ UNCHANGED <<ours, idle_for, link>>

-----------------------------------------------------------------------------
(***************************************************************************)
(* The scan library stops scanning before it connects.                     *)
(***************************************************************************)
ScanConnecting ==
    /\ scanning /\ connection = "none"
    /\ scanning' = FALSE
    /\ \E r \in Robots : peer' = r /\ default_conn' = r
    /\ connection' = "connecting"
    /\ refs' = refs + 1
    /\ UNCHANGED <<main, security, dm, service, idle_for, deaf_for>>

\* scan_connecting_error only logs: nothing starts the scan again.
ScanConnectingError ==
    /\ scanning /\ connection = "none"
    /\ scanning' = FALSE
    /\ idle_for' = "connecting_error"
    /\ UNCHANGED <<main, ours, link>>

\* Mutants: bt_conn_unref is called twice, or not at all.
UnrefTwice == refs - 2
UnrefForgotten == refs

Unref == refs - 1

\* default_conn is given up if it is this connection.
ReleaseConn ==
    IF default_conn = peer
    THEN default_conn' = None /\ refs' = Unref /\ ScanStart
    ELSE UNCHANGED <<ours, scan>>

ConnectionOver ==
    /\ peer' = None /\ connection' = "none" /\ security' = "none"
    /\ dm' = FALSE /\ subscribed' = FALSE /\ deaf_for' = "none"

\* gatt_discover: only for default_conn; a failure is logged.
gatt_discover ==
    IF default_conn # peer
    THEN UNCHANGED <<dm, deaf_for>>
    ELSE \/ ~ dm /\ dm' = TRUE /\ UNCHANGED deaf_for
         \/ deaf_for' = "discovery_start" /\ UNCHANGED dm

\* connected, with an error.
ConnectFailed ==
    /\ connection = "connecting"
    /\ ReleaseConn
    /\ ConnectionOver
    /\ UNCHANGED <<main, handles>>

\* Mutant: without bt_conn_set_security there is no discovery either.
Unsecured == UNCHANGED <<dm, deaf_for>>

\* What connected does when bt_conn_set_security fails.
SecurityRefused == gatt_discover

\* connected: bt_conn_set_security, and discovery at once if that fails; then
\* bt_scan_stop, which finds the scan stopped.
Connected ==
    /\ connection = "connecting"
    /\ connection' = "connected"
    /\ \/ security' = "asked" /\ UNCHANGED <<dm, deaf_for>>
       \/ security' = "refused" /\ SecurityRefused
    /\ scanning' = FALSE
    /\ UNCHANGED <<main, peer, ours, service, idle_for>>

\* security_changed: discovery, whether the link is secured or not.
SecurityChanged ==
    /\ connection = "connected" /\ security = "asked"
    /\ security' \in {"secured", "refused"}
    /\ gatt_discover
    /\ UNCHANGED <<main, scan, peer, connection, ours, service>>

\* Mutant: handles that are there are kept.
AssignedOnce == IF handles = None THEN peer ELSE handles

\* bt_nus_handles_assign.
Assigned == peer

\* discovery_complete: the handles are assigned, bt_nus_subscribe_receive is
\* called and its result ignored.
DiscoveryComplete ==
    /\ connection = "connected" /\ dm
    /\ dm' = FALSE
    /\ handles' = Assigned
    /\ \/ subscribed' = TRUE /\ UNCHANGED deaf_for
       \/ deaf_for' = "subscribe" /\ UNCHANGED subscribed
    /\ UNCHANGED <<main, scan, peer, connection, ours, security>>

\* discovery_service_not_found and discovery_error only log.
DiscoveryFailed ==
    /\ connection = "connected" /\ dm
    /\ dm' = FALSE
    /\ deaf_for' = "discovery"
    /\ UNCHANGED <<main, scan, peer, connection, ours, security, service>>

\* disconnected; the stack has ended a discovery and the notifications.
Disconnected ==
    /\ connection = "connected"
    /\ ReleaseConn
    /\ ConnectionOver
    /\ UNCHANGED <<main, handles>>

Main == MainInit \/ MainScan
Stack == Connected \/ ConnectFailed
Discovery == DiscoveryComplete \/ DiscoveryFailed

Next == \/ Main \/ ScanConnecting \/ ScanConnectingError \/ Stack
        \/ SecurityChanged \/ Discovery \/ Disconnected

(***************************************************************************)
(* main runs; the stack ends what was begun: a connection attempt, a       *)
(* request for security and a discovery, each in one way or another.       *)
(***************************************************************************)
Fairness == /\ WF_vars(Main) /\ WF_vars(Stack)
            /\ WF_vars(SecurityChanged) /\ WF_vars(Discovery)

Spec == Init /\ [][Next]_vars
FairSpec == Spec /\ Fairness

-----------------------------------------------------------------------------
TypeOK ==
    /\ main \in {"init", "scan", "loop", "returned"}
    /\ scanning \in BOOLEAN
    /\ peer \in Robots \cup {None}
    /\ connection \in {"none", "connecting", "connected"}
    /\ default_conn \in Robots \cup {None}
    /\ refs \in {0, 1}
    /\ security \in {"none", "asked", "secured", "refused"}
    /\ dm \in BOOLEAN
    /\ handles \in Robots \cup {None}
    /\ subscribed \in BOOLEAN
    /\ idle_for \in {"none", "scan_start", "connecting_error"}
    /\ deaf_for \in {"none", "discovery_start", "discovery", "subscribe"}

\* OneReference: main.c refers to the stack's connection as long as there is
\* one, with one reference, and never to one that is over: with a reference
\* left, or taken twice, the stack's only connection could not be used again.
OneReference == default_conn = peer /\ refs = (IF connection = "none" THEN 0 ELSE 1)

\* IdleOnlyAfterFailure: once it runs, the gateway scans or has a connection,
\* never both, unless bt_scan_start or the connection request has failed:
\* no order of connections, failures and losses leaves it idle.
IdleOnlyAfterFailure ==
    /\ ~ (scanning /\ connection # "none")
    /\ main = "loop" /\ ~ scanning /\ connection = "none" => idle_for # "none"

\* TelemetryNeedsHandles: notifications come through handles that were
\* discovered at the robot they come from.
TelemetryNeedsHandles == subscribed => handles = peer /\ peer # None

\* LinkIsUsed: every connection is subscribed to, with or without security,
\* unless it is lost or its discovery fails.
LinkIsUsed == connection = "connected" ~> \/ subscribed
                                          \/ connection = "none"
                                          \/ deaf_for # "none"
=============================================================================
