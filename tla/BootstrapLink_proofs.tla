------------------------ MODULE BootstrapLink_proofs ------------------------
(***************************************************************************)
(* What holds of BootstrapLink for every back-off, number of connections   *)
(* and number of restarts: the types, and that `connected` is exactly the  *)
(* set of peers with an open connection.  Liveness stays with TLC.         *)
(***************************************************************************)
EXTENDS BootstrapLink, TLAPS

\* The versions are numbers, so NoRecord is none of them, and the back-off
\* starts and stays within its two constants.
LEMMA InitType == Init => TypeOK
  <1> SUFFICES ASSUME Init PROVE TypeOK
    OBVIOUS
  <1> USE LinkAssumption DEF Init
  <1>1. record \in 0..MaxVersion \union {NoRecord}
    BY Zenon
  <1>2. backoff \in MinBackoff..MaxBackoff
    OBVIOUS
  <1>3. restarts \in 0..MaxRestarts /\ links \in 0..MaxLinks
    OBVIOUS
  <1>4. beacon \in 0..MaxVersion /\ seen \in 0..MaxVersion
    OBVIOUS
  <1> QED
    BY <1>1, <1>2, <1>3, <1>4 DEF TypeOK, Peers, LoopSteps, DhtSteps

\* Opening and closing a connection keeps the count and the set in range.
LEMMA EstablishedType ==
    ASSUME TypeOK, Established
    PROVE  links' \in 0..MaxLinks /\ connected' \subseteq Peers
  BY LinkAssumption DEF TypeOK, Established, Peers

LEMMA ClosedType ==
    ASSUME TypeOK, Closed
    PROVE  links' \in 0..MaxLinks /\ connected' \subseteq Peers
  BY LinkAssumption DEF TypeOK, Closed, Peers

\* The doubled back-off is capped, so it stays within the two constants.
LEMMA BackoffInRange ==
    ASSUME NEW b \in MinBackoff..MaxBackoff
    PROVE  (IF 2 * b > MaxBackoff THEN MaxBackoff ELSE 2 * b) \in MinBackoff..MaxBackoff
  BY LinkAssumption

LEMMA NextType == TypeOK /\ [Next]_vars => TypeOK'
  <1> SUFFICES ASSUME TypeOK, [Next]_vars PROVE TypeOK'
    OBVIOUS
  <1> USE LinkAssumption DEF TypeOK, LoopSteps, DhtSteps
  <1>1. CASE Check
    BY <1>1 DEF Check, Step, remote, network, publisher
  <1>2. CASE DialSucceeds
    BY <1>2, EstablishedType DEF DialSucceeds, Step, remote, publisher
  <1>3. CASE Dialed
    BY <1>3 DEF Dialed, Step, remote, network, publisher
  <1>4. CASE DialFails
    BY <1>4 DEF DialFails, Step, remote, network, publisher
  <1>5. CASE Retry
    BY <1>5, BackoffInRange DEF Retry, Step, remote, network, publisher
  <1>6. CASE NoticeLoss
    BY <1>6 DEF NoticeLoss, Step, remote, network, publisher
  <1>7. CASE AwaitConnection
    BY <1>7 DEF AwaitConnection, remote, network, dialer
  <1>8. CASE Publish
    BY <1>8 DEF Publish, network, dialer
  <1>9. CASE Republish
    BY <1>9 DEF Republish, remote, network, dialer
  <1>10. CASE BootstrapRecovered
    BY <1>10 DEF BootstrapRecovered, remote, network, dialer
  <1>11. CASE BeaconChanged
    BY <1>11 DEF BeaconChanged, remote, network, dialer
  <1>12. CASE ChangeBeacon
    BY <1>12 DEF ChangeBeacon, remote, network, dialer, publisher
  <1>13. CASE EstablishedElsewhere
    BY <1>13, EstablishedType DEF EstablishedElsewhere, remote, dialer, publisher
  <1>14. CASE LinkLost
    BY <1>14, ClosedType DEF LinkLost, remote, dialer, publisher
  <1>15. CASE OtherComesOrGoes
    BY <1>15 DEF OtherComesOrGoes, Peers, remote, dialer, publisher
  <1>16. CASE BootstrapStops
    <2>1. record' \in 0..MaxVersion \union {NoRecord}
      BY <1>16, Zenon DEF BootstrapStops
    <2>2. restarts' \in 0..MaxRestarts /\ links' \in 0..MaxLinks
      BY <1>16 DEF BootstrapStops
    <2> QED
      BY <1>16, <2>1, <2>2 DEF BootstrapStops, dialer, publisher
  <1>17. CASE BootstrapStarts
    BY <1>17 DEF BootstrapStarts, network, dialer, publisher
  <1>18. CASE UNCHANGED vars
    BY <1>18 DEF vars, remote, network, dialer, publisher
  <1> QED
    BY <1>1, <1>2, <1>3, <1>4, <1>5, <1>6, <1>7, <1>8, <1>9, <1>10, <1>11,
       <1>12, <1>13, <1>14, <1>15, <1>16, <1>17, <1>18 DEF Next, Loop, Dht

(* Every variable keeps its type; the back-off never leaves the interval    *)
(* from BOOTSTRAP_INITIAL_BACKOFF to BOOTSTRAP_MAX_BACKOFF.                 *)
THEOREM TypeCorrect == Spec => []TypeOK
  BY InitType, NextType, PTL DEF Spec

-----------------------------------------------------------------------------

\* Only the actor's two handlers change the set and the count, together; the
\* coming and going of any other peer leaves the bootstrap's membership alone.
LEMMA NextExact == TypeOK /\ ConnectedExact /\ [Next]_vars => ConnectedExact'
  <1> SUFFICES ASSUME TypeOK, ConnectedExact, [Next]_vars PROVE ConnectedExact'
    OBVIOUS
  <1> USE DEF ConnectedExact
  <1>0. links \in Nat
    BY LinkAssumption DEF TypeOK
  <1>1. ASSUME Established PROVE ConnectedExact'
    BY <1>0, <1>1 DEF Established
  <1>2. ASSUME Closed PROVE ConnectedExact'
    BY <1>0, <1>2 DEF Closed
  <1>3. CASE OtherComesOrGoes
    BY <1>3 DEF OtherComesOrGoes
  <1>4. CASE BootstrapStops
    BY <1>4 DEF BootstrapStops
  <1>5. ASSUME UNCHANGED network PROVE ConnectedExact'
    BY <1>5 DEF network
  <1>6. CASE Loop
    BY <1>1, <1>5, <1>6 DEF Loop, Check, DialSucceeds, Dialed, DialFails, Retry, NoticeLoss
  <1>7. CASE Dht
    BY <1>5, <1>7
       DEF Dht, AwaitConnection, Publish, Republish, BootstrapRecovered, BeaconChanged
  <1> QED
    BY <1>1, <1>2, <1>3, <1>4, <1>5, <1>6, <1>7
       DEF Next, ChangeBeacon, EstablishedElsewhere, LinkLost, BootstrapStarts, vars

(* `connected`, which is_connected and the loops read, never disagrees with *)
(* the connections that are open, however many a peer has and however they  *)
(* open and close.                                                          *)
THEOREM ConnectedIsExact == Spec => []ConnectedExact
  <1>1. Init => ConnectedExact
    BY DEF Init, ConnectedExact
  <1> QED
    BY <1>1, TypeCorrect, NextExact, PTL DEF Spec
=============================================================================
