----------------------------- MODULE MobileNode -----------------------------
(***************************************************************************)
(* The provider that runs in a browser (apps/satellite-web/src/node):      *)
(* AssignmentBook of provider-core.ts and, of satellite-node.ts, the       *)
(* handlers onAdvertise, onOffer, onAssign and serve.                      *)
(*                                                                         *)
(* JavaScript runs one handler at a time up to its next `await`, so a step *)
(* here is the code between two awaits.  Signatures are verified across an *)
(* await, as are the signing and publishing of a bid, the wait for an      *)
(* assignment and the run of a mission: meanwhile the other handlers go on.*)
(* Gossip may deliver a message late, never, or more than once.            *)
(***************************************************************************)
EXTENDS Naturals, Sequences, FiniteSets

CONSTANTS
    Missions,
    Navigators,
    Gossip,       \* the messages that may arrive over GossipSub
    Signed,       \* those whose signature verifies
    Streams,      \* stream slots
    Grace,        \* ASSIGNMENT_GRACE_MS
    Remembered,   \* MAX_REMEMBERED
    MaxActive,    \* MAX_ACTIVE
    MaxVerifying, \* bound: messages being verified at once
    MaxTime,      \* bound: last instant
    NoNavigator,
    NoMission

\* A Navigator's beacon, with the instants between which onAdvertise takes it.
Advert == [kind : {"advert"}, nav : Navigators, since : Nat, until : Nat]
\* `ours`: a tool_call that requires this node's capability and no other.
Offer == [kind : {"offer"}, nav : Navigators, mission : Missions,
          deadline : Nat, ours : BOOLEAN]
\* `mine`: the assigned provider is this node.
Assign == [kind : {"assign"}, nav : Navigators, mission : Missions, mine : BOOLEAN]

ASSUME GossipAssumption ==
    /\ Gossip \subseteq Advert \union Offer \union Assign
    /\ Signed \subseteq Gossip
ASSUME NodeAssumption ==
    /\ IsFiniteSet(Streams)
    /\ Grace \in Nat /\ MaxTime \in Nat /\ MaxVerifying \in Nat
    /\ Remembered \in Nat \ {0} /\ MaxActive \in Nat \ {0}
    /\ NoNavigator \notin Navigators /\ NoMission \notin Missions

VARIABLES
    now,
    navigator,  \* the DID of the last advert verified
    verifying,  \* messages of which a handler, or several, await verifyPayload
    offers,     \* AssignmentBook.offers, oldest insertion first
    assigns,    \* AssignmentBook.assigns, likewise
    used,       \* AssignmentBook.used
    bidded,     \* missions this node decided to bid on
    signing,    \* bids being signed and published, by mission
    bids,       \* history: bids published, by mission
    streams,    \* one serve call per slot
    active,     \* missions running
    served      \* history: missions run, with the Navigator of the stream

book == <<offers, assigns, used>>
auction == <<bidded, signing, bids>>
vars == <<now, navigator, verifying, book, auction, streams, active, served>>

Free == [step |-> "free", nav |-> NoNavigator, mission |-> NoMission]
Steps == {"free", "ready", "waiting", "called", "running"}

Init ==
    /\ now = 0
    /\ navigator = NoNavigator
    /\ verifying = {}
    /\ offers = <<>> /\ assigns = <<>> /\ used = {}
    /\ bidded = {}
    /\ signing = [m \in Missions |-> 0]
    /\ bids = [m \in Missions |-> 0]
    /\ streams = [s \in Streams |-> Free]
    /\ active = 0
    /\ served = <<>>

-----------------------------------------------------------------------------
\* AssignmentBook.

Holds(map, m) == \E i \in DOMAIN map : map[i].mission = m

RememberAll(map, x) ==
    IF Holds(map, x.mission)
    THEN [i \in DOMAIN map |-> IF map[i].mission = x.mission THEN x ELSE map[i]]
    ELSE Append(map, x)

\* Map.set keeps the place of a key it has; the oldest key goes past the limit.
Remember(map, x) ==
    IF Holds(map, x.mission)
    THEN [i \in DOMAIN map |-> IF map[i].mission = x.mission THEN x ELSE map[i]]
    ELSE IF Len(map) < Remembered THEN Append(map, x) ELSE Append(Tail(map), x)

\* consume, its early returns negated.
Authorised(m, n) ==
    /\ m \notin used
    /\ \E i \in DOMAIN offers, j \in DOMAIN assigns :
          /\ offers[i].mission = m /\ assigns[j].mission = m
          /\ offers[i].nav = n
          /\ assigns[j].nav = offers[i].nav
          /\ now <= offers[i].deadline + Grace

WakeNobody(m) == UNCHANGED streams

\* recordAssign resolves every wait for the mission.
Wake(m) ==
    streams' = [s \in Streams |->
                  IF streams[s].step = "waiting" /\ streams[s].mission = m
                  THEN [streams[s] EXCEPT !.step = "called"] ELSE streams[s]]

-----------------------------------------------------------------------------
\* Gossip: each handler up to verifyPayload, and from there on.  Any number of
\* copies of a message may be verified at once: when the handler of one goes
\* on, others may still wait.

Arrive(msg) ==
    /\ msg \in Gossip \ verifying
    /\ Cardinality(verifying) < MaxVerifying
    /\ verifying' = verifying \union {msg}
    /\ UNCHANGED <<now, navigator, book, auction, streams, active, served>>

AdvertArrives(msg) ==
    /\ msg \in Advert
    /\ msg.since <= now /\ now <= msg.until
    /\ Arrive(msg)

OfferArrives(msg) ==
    /\ msg \in Offer
    /\ msg.nav = navigator
    /\ Arrive(msg)

AssignArrives(msg) ==
    /\ msg \in Assign
    /\ msg.mine
    /\ msg.nav = navigator
    /\ Arrive(msg)

\* The signature does not verify.
Discard(msg) ==
    /\ msg \in verifying \ Signed
    /\ verifying' = verifying \ {msg}
    /\ UNCHANGED <<now, navigator, book, auction, streams, active, served>>

VerifiedUnchecked(msg) ==
    /\ msg \in verifying
    /\ verifying' \in {verifying, verifying \ {msg}}

Verified(msg) ==
    /\ msg \in verifying \intersect Signed
    /\ verifying' \in {verifying, verifying \ {msg}}

AdvertVerified(msg) ==
    /\ msg \in Advert
    /\ Verified(msg)
    /\ navigator' = msg.nav
    /\ UNCHANGED <<now, book, auction, streams, active, served>>

MayBidAgain(msg) == msg.ours /\ active < MaxActive

\* The node bids once for a mission it can serve, unless too much is running.
MayBid(msg) == msg.ours /\ msg.mission \notin bidded /\ active < MaxActive

\* The offer is recorded whether or not the node bids, which also takes the
\* switch on, the page visible and the Navigator of this moment connected:
\* `open`.
OfferVerified(msg) ==
    /\ msg \in Offer
    /\ Verified(msg)
    /\ offers' = Remember(offers, msg)
    /\ \E open \in BOOLEAN :
          \/ /\ open /\ MayBid(msg)
             /\ bidded' = bidded \union {msg.mission}
             /\ signing' = [signing EXCEPT ![msg.mission] = @ + 1]
          \/ /\ ~(open /\ MayBid(msg))
             /\ UNCHANGED <<bidded, signing>>
    /\ UNCHANGED <<now, navigator, assigns, used, bids, streams, active, served>>

AssignVerified(msg) ==
    /\ msg \in Assign
    /\ Verified(msg)
    /\ assigns' = Remember(assigns, msg)
    /\ Wake(msg.mission)
    /\ UNCHANGED <<now, navigator, offers, used, auction, active, served>>

\* signPayload and pubsub.publish end; a failure to publish is not retried.
PublishBid(m) ==
    /\ signing[m] > 0
    /\ signing' = [signing EXCEPT ![m] = @ - 1]
    /\ \/ bids' = [bids EXCEPT ![m] = @ + 1]
       \/ UNCHANGED bids
    /\ UNCHANGED <<now, navigator, verifying, book, bidded, streams, active, served>>

-----------------------------------------------------------------------------
\* serve, one call for each stream.

Move(s, from, to) ==
    /\ streams[s].step = from
    /\ streams' = [streams EXCEPT ![s].step = to]

Leave(s, from) ==
    /\ streams[s].step = from
    /\ streams' = [streams EXCEPT ![s] = Free]

\* A stream of the verified Navigator; no other peer is served.  The DID is
\* taken here, before the handshake is awaited, which touches nothing shared.
StreamOpens(s, n) ==
    /\ streams[s].step = "free"
    /\ n = navigator
    /\ streams' = [streams EXCEPT ![s] = [step |-> "ready", nav |-> n, mission |-> NoMission]]
    /\ UNCHANGED <<now, navigator, verifying, book, auction, active, served>>

\* A bad handshake, the end of the stream, or a malformed call.
StreamEnds(s) ==
    /\ Leave(s, "ready")
    /\ UNCHANGED <<now, navigator, verifying, book, auction, active, served>>

\* A well-formed tool call; waitForAssign returns at once if it is there.
CallArrives(s, m) ==
    /\ streams[s].step = "ready"
    /\ streams' = [streams EXCEPT
                     ![s].step = IF Holds(assigns, m) THEN "called" ELSE "waiting",
                     ![s].mission = m]
    /\ UNCHANGED <<now, navigator, verifying, book, auction, active, served>>

\* ASSIGNMENT_WAIT_MS pass.
WaitTimesOut(s) ==
    /\ Move(s, "waiting", "called")
    /\ UNCHANGED <<now, navigator, verifying, book, auction, active, served>>

RunUnmarked(s) ==
    LET m == streams[s].mission IN
    /\ Move(s, "called", "running")
    /\ Authorised(m, streams[s].nav)
    /\ active' = active + 1
    /\ served' = Append(served, [mission |-> m, nav |-> streams[s].nav])
    /\ UNCHANGED <<now, navigator, verifying, offers, assigns, used, auction>>

\* consume succeeds and the mission starts to run.
Run(s) ==
    LET m == streams[s].mission IN
    /\ Move(s, "called", "running")
    /\ Authorised(m, streams[s].nav)
    /\ used' = used \union {m}
    /\ active' = active + 1
    /\ served' = Append(served, [mission |-> m, nav |-> streams[s].nav])
    /\ UNCHANGED <<now, navigator, verifying, offers, assigns, auction>>

\* consume fails: ASSIGNMENT_REQUIRED.
Refuse(s) ==
    /\ Leave(s, "called")
    /\ ~Authorised(streams[s].mission, streams[s].nav)
    /\ UNCHANGED <<now, navigator, verifying, book, auction, active, served>>

CompleteUnlessThrown(s) ==
    /\ Leave(s, "running")
    /\ active' = active - 1 \/ UNCHANGED active
    /\ UNCHANGED <<now, navigator, verifying, book, auction, served>>

\* The result or an error is sent, or a send throws: `finally` either way.
Complete(s) ==
    /\ Leave(s, "running")
    /\ active' = active - 1
    /\ UNCHANGED <<now, navigator, verifying, book, auction, served>>

Tick ==
    /\ now < MaxTime
    /\ now' = now + 1
    /\ UNCHANGED <<navigator, verifying, book, auction, streams, active, served>>

Handler(msg) ==
    \/ AdvertArrives(msg) \/ OfferArrives(msg) \/ AssignArrives(msg) \/ Discard(msg)
    \/ AdvertVerified(msg) \/ OfferVerified(msg) \/ AssignVerified(msg)

Serve(s) ==
    \/ StreamEnds(s) \/ WaitTimesOut(s)
    \/ Run(s) \/ Refuse(s) \/ Complete(s)
    \/ \E n \in Navigators : StreamOpens(s, n)
    \/ \E m \in Missions : CallArrives(s, m)

Next ==
    \/ \E msg \in Gossip : Handler(msg)
    \/ \E m \in Missions : PublishBid(m)
    \/ \E s \in Streams : Serve(s)
    \/ Tick

Spec == Init /\ [][Next]_vars

-----------------------------------------------------------------------------

ServeCall ==
    [step : Steps, nav : Navigators \union {NoNavigator}, mission : Missions \union {NoMission}]

TypeOK ==
    /\ now \in 0..MaxTime
    /\ navigator \in Navigators \union {NoNavigator}
    /\ verifying \subseteq Gossip
    /\ offers \in Seq(Offer) /\ Len(offers) <= Remembered
    /\ assigns \in Seq(Assign) /\ Len(assigns) <= Remembered
    /\ used \subseteq Missions
    /\ bidded \subseteq Missions
    /\ signing \in [Missions -> Nat]
    /\ bids \in [Missions -> Nat]
    /\ streams \in [Streams -> ServeCall]
    /\ active \in Nat
    /\ served \in Seq([mission : Missions, nav : Navigators])

(* The node keeps the dispatch rule DEC-0096: whatever the order of         *)
(* messages, repeated deliveries, evictions from the book, a change of      *)
(* Navigator or two streams that ask for one mission at once, a mission is  *)
(* run once at most, on an offer and an assignment its Navigator signed.    *)
Rule == INSTANCE DispatchRule WITH
    Offered <- Offer \intersect Signed,
    Assigned <- {a \in Assign \intersect Signed : a.mine}
KeepsDispatchRule == Rule!Spec

(* The book never holds anything but signed messages, and assignments of    *)
(* other providers stay out, although verification is an await away from    *)
(* the checks that precede it and the Navigator may change meanwhile.       *)
BookIsSigned ==
    /\ \A i \in DOMAIN offers : offers[i] \in Signed
    /\ \A i \in DOMAIN assigns : assigns[i] \in Signed /\ assigns[i].mine

(* No wake-up is lost: a call never waits for an assignment that is in the  *)
(* book, so it does not cost the caller the whole ASSIGNMENT_WAIT_MS.       *)
NoLostWakeup ==
    \A s \in Streams : streams[s].step = "waiting" => ~Holds(assigns, streams[s].mission)

(* The load the node checks before bidding is the number of missions that   *)
(* run: every way a run ends gives its place back.                          *)
ActiveCounted == active = Cardinality({s \in Streams : streams[s].step = "running"})

(* One bid at most for a mission, though its offer may be delivered again   *)
(* while the first bid is being signed.                                     *)
BidsOnce == \A m \in Missions : bids[m] + signing[m] <= 1

(* satellite-node.ts:3: "solo ejecuta con oferta, puja y asignacion         *)
(* validas": a mission that ran is one this node had bid on.                *)
RunsOnlyAfterBid ==
    \A i \in DOMAIN served : bids[served[i].mission] > 0
=============================================================================
