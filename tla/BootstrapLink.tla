---------------------------- MODULE BootstrapLink ----------------------------
(***************************************************************************)
(* A node and its bootstrap (rust/fhs/src/p2p/node.rs): `bootstrap_loop`   *)
(* dials it and dials again when the connection is lost, `dht_beacon_loop` *)
(* keeps the node's signed beacon in the bootstrap's DHT, and the actor's  *)
(* `handle_event` tells both, through a watch channel, who is connected.   *)
(*                                                                         *)
(* Each loop is a task that reads the watch channel when it runs, so what  *)
(* happens between two reads it does not see.  A bootstrap that restarts   *)
(* has lost its records.  Connections also come without bootstrap_loop:    *)
(* Kademlia dials, and a dial that the loop gave up on may still succeed.  *)
(***************************************************************************)
EXTENDS Integers, FiniteSets

CONSTANTS
    MinBackoff,   \* BOOTSTRAP_INITIAL_BACKOFF
    MaxBackoff,   \* BOOTSTRAP_MAX_BACKOFF
    MaxLinks,     \* bound: connections to the bootstrap at once
    MaxRestarts,  \* bound: restarts of the bootstrap
    MaxVersion,   \* bound: changes of the beacon
    NoRecord

ASSUME LinkAssumption ==
    /\ MinBackoff \in Nat \ {0} /\ MaxBackoff \in Nat /\ MinBackoff <= MaxBackoff
    /\ MaxLinks \in Nat \ {0} /\ MaxRestarts \in Nat /\ MaxVersion \in Nat
    /\ NoRecord \notin Nat

VARIABLES
    up,           \* the bootstrap runs
    restarts,
    record,       \* the version of the beacon in the bootstrap's DHT
    links,        \* Actor::connections to the bootstrap
    connected,    \* NodeHandle::connected, a watch channel
    loop,         \* where bootstrap_loop is
    backoff,
    once,         \* connected_once
    reconnected,  \* the permit of the Notify bootstrap_reconnected
    dht,          \* where dht_beacon_loop is
    beacon,       \* dht_beacon, a watch channel
    seen          \* its version that borrow_and_update took last

remote == <<up, restarts, record>>
network == <<links, connected>>
dialer == <<loop, backoff, once>>
publisher == <<dht, seen>>
vars == <<remote, network, dialer, reconnected, publisher, beacon>>

Peers == {"bootstrap", "other"}
LoopSteps == {"check", "dialing", "dialed", "backoff", "watching"}
DhtSteps == {"connect", "settle", "idle"}

Init ==
    /\ up \in BOOLEAN /\ restarts = 0 /\ record = NoRecord
    /\ links = 0 /\ connected = {}
    /\ loop = "check" /\ backoff = MinBackoff /\ once = FALSE
    /\ reconnected = FALSE
    /\ dht = "connect" /\ beacon = 0 /\ seen = 0

-----------------------------------------------------------------------------
\* Connections: ConnectionEstablished and ConnectionClosed in handle_event.

Established ==
    /\ up /\ links < MaxLinks
    /\ links' = links + 1
    /\ connected' = connected \union {"bootstrap"}

ClosedForgetting ==
    /\ links > 0
    /\ links' = links - 1
    /\ connected' = connected \ {"bootstrap"}

\* num_established = 0: only the last one to close disconnects the peer.
Closed ==
    /\ links > 0
    /\ links' = links - 1
    /\ connected' = IF links' = 0 THEN connected \ {"bootstrap"} ELSE connected

\* A Kademlia query dials, or a dial that timed out gets through.
EstablishedElsewhere ==
    /\ Established
    /\ UNCHANGED <<remote, dialer, reconnected, publisher, beacon>>

LinkLost ==
    /\ Closed
    /\ UNCHANGED <<remote, dialer, reconnected, publisher, beacon>>

\* Any other peer: a Navigator that opens a session with this provider, say.
OtherComesOrGoes ==
    /\ connected' = IF "other" \in connected THEN connected \ {"other"}
                    ELSE connected \union {"other"}
    /\ UNCHANGED <<remote, links, dialer, reconnected, publisher, beacon>>

\* The bootstrap stops, its connections with it, and its records are gone.
BootstrapStops ==
    /\ up /\ restarts < MaxRestarts
    /\ up' = FALSE /\ restarts' = restarts + 1
    /\ record' = NoRecord
    /\ links' = 0 /\ connected' = connected \ {"bootstrap"}
    /\ UNCHANGED <<dialer, reconnected, publisher, beacon>>

BootstrapStarts ==
    /\ ~up
    /\ up' = TRUE
    /\ UNCHANGED <<restarts, record, network, dialer, reconnected, publisher, beacon>>

-----------------------------------------------------------------------------
\* bootstrap_loop.

Step(from, to) == loop = from /\ loop' = to

\* is_connected, and if not the dial.
Check ==
    /\ Step("check", IF "bootstrap" \in connected THEN "watching" ELSE "dialing")
    /\ UNCHANGED <<remote, network, backoff, once, reconnected, publisher, beacon>>

DialSucceeds ==
    /\ Step("dialing", "dialed")
    /\ Established
    /\ UNCHANGED <<remote, backoff, once, reconnected, publisher, beacon>>

\* The task goes on with Ok, whatever became of the connection meanwhile.
Dialed ==
    /\ Step("dialed", "watching")
    /\ reconnected' = (reconnected \/ once)
    /\ once' = TRUE
    /\ backoff' = MinBackoff
    /\ UNCHANGED <<remote, network, publisher, beacon>>

DialFailsForGood ==
    /\ Step("dialing", "stopped")
    /\ UNCHANGED <<remote, network, backoff, once, reconnected, publisher, beacon>>

\* OutgoingConnectionError, or DIAL_TIMEOUT.
DialFails ==
    /\ Step("dialing", "backoff")
    /\ UNCHANGED <<remote, network, backoff, once, reconnected, publisher, beacon>>

RetryUncapped ==
    /\ Step("backoff", "check")
    /\ backoff' = IF backoff > MaxBackoff THEN MaxBackoff ELSE 2 * backoff
    /\ UNCHANGED <<remote, network, once, reconnected, publisher, beacon>>

Retry ==
    /\ Step("backoff", "check")
    /\ backoff' = IF 2 * backoff > MaxBackoff THEN MaxBackoff ELSE 2 * backoff
    /\ UNCHANGED <<remote, network, once, reconnected, publisher, beacon>>

\* wait_for: true of the value the channel has when the task reads it.
NoticeLoss ==
    /\ "bootstrap" \notin connected
    /\ Step("watching", "check")
    /\ UNCHANGED <<remote, network, backoff, once, reconnected, publisher, beacon>>

-----------------------------------------------------------------------------
\* dht_beacon_loop.

AwaitConnection ==
    /\ dht = "connect" /\ connected # {}
    /\ dht' = "settle"
    /\ UNCHANGED <<remote, network, dialer, reconnected, seen, beacon>>

\* Two seconds later: put_record reaches the bootstrap if it is connected, and
\* a failure is only logged.
Publish ==
    /\ dht = "settle"
    /\ dht' = "idle"
    /\ seen' = beacon
    /\ record' = IF links > 0 THEN beacon ELSE record
    /\ UNCHANGED <<up, restarts, network, dialer, reconnected, beacon>>

NoRepublishing ==
    /\ FALSE
    /\ UNCHANGED vars

\* DHT_REPUBLISH_INTERVAL.
Republish ==
    /\ dht = "idle"
    /\ dht' = "connect"
    /\ UNCHANGED <<remote, network, dialer, reconnected, seen, beacon>>

BootstrapRecovered ==
    /\ dht = "idle" /\ reconnected
    /\ dht' = "connect"
    /\ reconnected' = FALSE
    /\ UNCHANGED <<remote, network, dialer, seen, beacon>>

BeaconChanged ==
    /\ dht = "idle" /\ beacon # seen
    /\ dht' = "connect"
    /\ seen' = beacon
    /\ UNCHANGED <<remote, network, dialer, reconnected, beacon>>

\* set_advertise_beacon.
ChangeBeacon ==
    /\ beacon < MaxVersion
    /\ beacon' = beacon + 1
    /\ UNCHANGED <<remote, network, dialer, reconnected, publisher>>

Loop == Check \/ DialSucceeds \/ Dialed \/ DialFails \/ Retry \/ NoticeLoss
Dht == AwaitConnection \/ Publish \/ Republish \/ BootstrapRecovered \/ BeaconChanged

Next ==
    \/ Loop \/ Dht \/ ChangeBeacon
    \/ EstablishedElsewhere \/ LinkLost \/ OtherComesOrGoes
    \/ BootstrapStops \/ BootstrapStarts

\* Both loops are tasks of the runtime.  Of the network: not every dial to a
\* bootstrap that runs fails.
Fairness == WF_vars(Loop) /\ WF_vars(Dht) /\ SF_vars(DialSucceeds)

Spec == Init /\ [][Next]_vars
FairSpec == Spec /\ Fairness

-----------------------------------------------------------------------------

TypeOK ==
    /\ up \in BOOLEAN /\ restarts \in 0..MaxRestarts
    /\ record \in 0..MaxVersion \union {NoRecord}
    /\ links \in 0..MaxLinks /\ connected \subseteq Peers
    /\ loop \in LoopSteps /\ backoff \in MinBackoff..MaxBackoff /\ once \in BOOLEAN
    /\ reconnected \in BOOLEAN
    /\ dht \in DhtSteps /\ beacon \in 0..MaxVersion /\ seen \in 0..MaxVersion

(* The set that is_connected reads, with which a Navigator skips the dial   *)
(* of a provider and a loop decides to wait, is that of the peers with an   *)
(* open connection, although a peer may have several.                       *)
ConnectedExact == "bootstrap" \in connected <=> links > 0

(* A bootstrap that stays up is connected again and again, whatever was     *)
(* lost, when, and between which two reads of the watch channel.            *)
LinkRecovers == <>[]up => []<>("bootstrap" \in connected)

(* If the connection lasts, the bootstrap ends with the current beacon: the *)
(* republication every 30 min repairs every publication that went nowhere.  *)
BeaconReaches == <>[]("bootstrap" \in connected) => <>[](record = beacon)

(* node.rs:871-873: the record is published "al conectar con un bootstrap", *)
(* "al recuperar la conexion con un bootstrap" and "al cambiar el beacon":  *)
(* when both loops are at rest, the bootstrap they are connected to has it. *)
RestsPublished ==
    loop = "watching" /\ links > 0 /\ dht = "idle" /\ ~reconnected /\ seen = beacon
        => record = beacon
=============================================================================
