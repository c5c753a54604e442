------------------------- MODULE GatewayLink_proofs -------------------------
(***************************************************************************)
(* Proofs about the gateway's link, for any set of robots in reach.        *)
(***************************************************************************)
EXTENDS GatewayLink, TLAPS

USE DEF scan, ours, service, Unref, SecurityRefused, Assigned

\* The stack's connection has a peer as long as there is one, only a
\* connection that is up is discovered or subscribed to, and nothing has
\* begun before main has started the scan.
LinkShape ==
    /\ peer = None <=> connection = "none"
    /\ connection # "connected" => ~ dm /\ ~ subscribed
    /\ main \in {"init", "scan"} => ~ scanning /\ connection = "none"

\* The inductive invariant.
IInv == /\ TypeOK /\ LinkShape
        /\ OneReference /\ IdleOnlyAfterFailure /\ TelemetryNeedsHandles

\* The invariant holds after the start.
LEMMA InitIInv == Init => IInv
  BY LinkAssumption
  DEF Init, IInv, TypeOK, LinkShape, OneReference, IdleOnlyAfterFailure,
      TelemetryNeedsHandles

\* A callback that releases the connection leaves the gateway scanning, or
\* notes that the scan could not be started.
LEMMA ReleaseEndsLink ==
    ASSUME IInv, connection # "none", ReleaseConn, ConnectionOver,
           UNCHANGED <<main, handles>>
    PROVE  IInv'
  <1> USE DEF IInv
  <1>1. default_conn = peer /\ refs = 1
    BY DEF OneReference
  <1>2. /\ default_conn' = None /\ refs' = 0
        /\ scanning' = TRUE \/ idle_for' = "scan_start"
        /\ scanning' \in BOOLEAN
        /\ idle_for' \in {"none", "scan_start", "connecting_error"}
    <2>1. default_conn' = None /\ refs' = refs - 1 /\ ScanStart
      BY <1>1 DEF ReleaseConn
    <2>2. refs' = 0
      BY <1>1, <2>1
    <2>3. /\ scanning' = TRUE \/ idle_for' = "scan_start"
          /\ scanning' \in BOOLEAN
          /\ idle_for' \in {"none", "scan_start", "connecting_error"}
      <3>1. /\ scanning \in BOOLEAN
            /\ idle_for \in {"none", "scan_start", "connecting_error"}
        BY DEF TypeOK
      <3> QED
        BY <2>1, <3>1 DEF ScanStart
    <2> QED
      BY <2>1, <2>2, <2>3
  <1>3. TypeOK'
    BY <1>2 DEF ConnectionOver, TypeOK
  <1>4. LinkShape'
    <2>1. main \notin {"init", "scan"}
      BY DEF LinkShape
    <2> QED
      BY <2>1 DEF LinkShape, ConnectionOver
  <1>5. OneReference'
    BY <1>2 DEF OneReference, ConnectionOver
  <1>6. IdleOnlyAfterFailure'
    BY <1>2 DEF IdleOnlyAfterFailure, ConnectionOver
  <1>7. TelemetryNeedsHandles'
    BY DEF TelemetryNeedsHandles, ConnectionOver
  <1> QED
    BY <1>3, <1>4, <1>5, <1>6, <1>7

\* Discovery changes nothing but its own variables.
LEMMA DiscoverTyped ==
    ASSUME TypeOK, gatt_discover
    PROVE  /\ dm' \in BOOLEAN
           /\ deaf_for' \in {"none", "discovery_start", "discovery", "subscribe"}
  BY DEF TypeOK, gatt_discover

\* Every step keeps the invariant.
LEMMA NextIInv == IInv /\ [Next]_vars => IInv'
  <1> SUFFICES ASSUME IInv, [Next]_vars
               PROVE  IInv'
    OBVIOUS
  <1> USE DEF IInv
  <1>1. CASE MainInit
    BY <1>1 DEF MainInit, link, TypeOK, LinkShape, OneReference,
                IdleOnlyAfterFailure, TelemetryNeedsHandles
  <1>2. CASE MainScan
    BY <1>2 DEF MainScan, link, TypeOK, LinkShape, OneReference,
                IdleOnlyAfterFailure, TelemetryNeedsHandles
  <1>3. CASE ScanConnecting
    <2>1. PICK r \in Robots : peer' = r /\ default_conn' = r
      BY <1>3 DEF ScanConnecting
    <2>2. r # None
      BY LinkAssumption
    <2>3. /\ ~ subscribed /\ ~ dm /\ refs = 0
          /\ main \notin {"init", "scan"}
      BY <1>3 DEF ScanConnecting, LinkShape, OneReference
    <2>4. TypeOK'
      <3>1. UNCHANGED <<main, security, dm, handles, subscribed, idle_for, deaf_for>>
        BY <1>3 DEF ScanConnecting
      <3>2. scanning' = FALSE /\ connection' = "connecting" /\ refs' = 1
        BY <1>3, <2>3 DEF ScanConnecting
      <3> QED
        BY <2>1, <3>1, <3>2 DEF TypeOK
    <2>5. LinkShape'
      BY <1>3, <2>1, <2>2, <2>3 DEF ScanConnecting, LinkShape
    <2>6. OneReference'
      BY <1>3, <2>1, <2>3 DEF ScanConnecting, OneReference
    <2>7. IdleOnlyAfterFailure'
      BY <1>3 DEF ScanConnecting, IdleOnlyAfterFailure
    <2>8. TelemetryNeedsHandles'
      BY <1>3, <2>3 DEF ScanConnecting, TelemetryNeedsHandles
    <2> QED
      BY <2>4, <2>5, <2>6, <2>7, <2>8
  <1>4. CASE ScanConnectingError
    BY <1>4 DEF ScanConnectingError, link, TypeOK, LinkShape, OneReference,
                IdleOnlyAfterFailure, TelemetryNeedsHandles
  <1>5. CASE ConnectFailed
    BY <1>5, ReleaseEndsLink DEF ConnectFailed
  <1>6. CASE Disconnected
    BY <1>6, ReleaseEndsLink DEF Disconnected
  <1>7. CASE Connected
    <2>1. /\ dm' \in BOOLEAN
          /\ deaf_for' \in {"none", "discovery_start", "discovery", "subscribe"}
      BY <1>7, DiscoverTyped DEF Connected, TypeOK
    <2> QED
      BY <1>7, <2>1 DEF Connected, TypeOK, LinkShape, OneReference,
                        IdleOnlyAfterFailure, TelemetryNeedsHandles
  <1>8. CASE SecurityChanged
    <2>1. /\ dm' \in BOOLEAN
          /\ deaf_for' \in {"none", "discovery_start", "discovery", "subscribe"}
      BY <1>8, DiscoverTyped DEF SecurityChanged
    <2> QED
      BY <1>8, <2>1 DEF SecurityChanged, TypeOK, LinkShape, OneReference,
                        IdleOnlyAfterFailure, TelemetryNeedsHandles
  <1>9. CASE DiscoveryComplete
    BY <1>9 DEF DiscoveryComplete, TypeOK, LinkShape, OneReference,
                IdleOnlyAfterFailure, TelemetryNeedsHandles
  <1>10. CASE DiscoveryFailed
    BY <1>10 DEF DiscoveryFailed, TypeOK, LinkShape, OneReference,
                 IdleOnlyAfterFailure, TelemetryNeedsHandles
  <1>11. CASE UNCHANGED vars
    BY <1>11 DEF vars, link, TypeOK, LinkShape, OneReference, IdleOnlyAfterFailure,
                 TelemetryNeedsHandles
  <1> QED
    BY <1>1, <1>2, <1>3, <1>4, <1>5, <1>6, <1>7, <1>8, <1>9, <1>10, <1>11
    DEF Next, Main, Stack, Discovery

\* The invariant holds throughout every behaviour.
LEMMA Invariance == Spec => []IInv
  BY InitIInv, NextIInv, PTL DEF Spec

\* TypeCorrect: every variable keeps its type; one reference at most is held.
THEOREM TypeCorrect == Spec => []TypeOK
  <1>1. IInv => TypeOK
    BY DEF IInv
  <1> QED
    BY <1>1, Invariance, PTL

\* LinkReferences: for any robots, main.c holds one reference while there is a
\* connection and none otherwise, whichever callbacks fail.
THEOREM LinkReferences == Spec => []OneReference
  <1>1. IInv => OneReference
    BY DEF IInv
  <1> QED
    BY <1>1, Invariance, PTL

\* NeverIdleUnnoticed: the gateway is only idle after a call that starts a
\* scan or a connection has failed.
THEOREM NeverIdleUnnoticed == Spec => []IdleOnlyAfterFailure
  <1>1. IInv => IdleOnlyAfterFailure
    BY DEF IInv
  <1> QED
    BY <1>1, Invariance, PTL

\* HandlesOfPeer: telemetry is only enabled through handles discovered at the
\* connected robot.
THEOREM HandlesOfPeer == Spec => []TelemetryNeedsHandles
  <1>1. IInv => TelemetryNeedsHandles
    BY DEF IInv
  <1> QED
    BY <1>1, Invariance, PTL
=============================================================================
