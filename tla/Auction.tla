------------------------------- MODULE Auction -------------------------------
(***************************************************************************)
(* The Navigator's mission cycle: offer, bids, selection, assign           *)
(* (rust/fhs/src/p2p/mission.rs `run_mission_cycle`, and `BidCollector` in *)
(* node.rs).  Each cycle runs in two tasks: the caller, which publishes    *)
(* the offer and later selects, and the collector spawned to keep the bid  *)
(* window.  Bids come over gossip: late, lost or for a window that is      *)
(* closed, from providers that may connect and disconnect meanwhile.  A    *)
(* caller may pass the mission id, so two cycles can share one.            *)
(***************************************************************************)
EXTENDS Integers, FiniteSets, Sequences, SequencesExt

CONSTANTS
    Cycles,     \* calls of run_mission_cycle
    Missions,
    MissionOf,  \* mission id of each cycle
    Providers,
    BidsOn,     \* the providers whose Provider::bid answers each offer
    Terms,      \* what each provider bids: capabilities, rank, addresses
    Required,   \* required_capabilities of each cycle
    Preferred,  \* preferred_provider of each cycle, or NoProvider
    Allowed,    \* allowed_provider_dids of each cycle, or Anyone for None
    Anyone,
    NoProvider,
    NoWindow

ASSUME CyclesAssumption ==
    /\ MissionOf \in [Cycles -> Missions]
    /\ Preferred \in [Cycles -> Providers \union {NoProvider}]
    /\ Allowed \in [Cycles -> (SUBSET Providers) \union {Anyone}]
    /\ BidsOn \in [Cycles -> SUBSET Providers]
    /\ NoProvider \notin Providers

\* What ranks a bid, as numbers in the order the code compares them by; some
\* provider has the highest trust and some the highest reputation.
ASSUME TermsAssumption ==
    /\ \A p \in Providers :
          {Terms[p].trust, Terms[p].reputation, Terms[p].latency} \subseteq Nat
    /\ Providers # {} =>
          \E q, r \in Providers : \A p \in Providers :
              Terms[p].trust <= Terms[q].trust /\ Terms[p].reputation <= Terms[r].reputation

VARIABLES
    caller,     \* the task that runs run_mission_cycle
    collector,  \* the spawned task that runs BidCollector::collect
    windows,    \* BidCollector::open, by mission id
    collected,  \* what collect returned
    looked,     \* how many of those filter_allowed has looked at
    kept,       \* the places of the ones it kept
    winner,     \* the provider assigned
    bids,       \* bids on the network
    connected,  \* live connections, of the providers that have no addresses
    answered,   \* history: <<p, c>> when p bid on the offer of cycle c
    early,      \* history: cycles whose window closed before the deadline
    met,        \* history: connected at some moment of the filter of a cycle
    steady      \* history: connected at every moment of it

filterVars == <<looked, kept, met, steady>>
vars == <<caller, collector, windows, collected, filterVars, winner, bids, connected,
          answered, early>>

CallerSteps == {"idle", "started", "published", "assigned", "nobids"}
CollectorSteps == {"none", "spawned", "collecting", "stopped", "closed"}

\* Browsers, say: the Navigator reaches them only while they are connected.
Undialable == {p \in Providers : ~Terms[p].addrs}

Init ==
    /\ caller = [c \in Cycles |-> "idle"]
    /\ collector = [c \in Cycles |-> "none"]
    /\ windows = [m \in Missions |-> NoWindow]
    /\ collected = [c \in Cycles |-> <<>>]
    /\ looked = [c \in Cycles |-> 0]
    /\ kept = [c \in Cycles |-> {}]
    /\ winner = [c \in Cycles |-> NoProvider]
    /\ bids = {}
    /\ connected \in SUBSET Undialable
    /\ answered = {}
    /\ early = {}
    /\ met = [c \in Cycles |-> {}]
    /\ steady = [c \in Cycles |-> {}]

-----------------------------------------------------------------------------
\* Selection.  A bid is represented by its provider, whose Terms are fixed.

\* covers: every required capability is offered.
Covers(c, p) == Required[c] \subseteq Terms[p].offered

\* The closure of filter_allowed, of one bid: an allowed DID among those that
\* are connected, or with addresses to dial; no list, no filter.
Admissible(c, p, reached) ==
    Allowed[c] = Anyone \/ (p \in Allowed[c] /\ (p \in reached \/ Terms[p].addrs))

\* trust_rank, then reputation, then the lower latency.
Beats(p, q) ==
    LET a == Terms[p]  b == Terms[q] IN
    \/ a.trust > b.trust
    \/ a.trust = b.trust /\ a.reputation > b.reputation
    \/ a.trust = b.trust /\ a.reputation = b.reputation /\ a.latency < b.latency

\* The bids, by their place in the order of arrival, that can win.
Eligible(c) == {i \in kept[c] : Covers(c, collected[c][i])}

\* min_by: the first of those at places that no other of them beats.
First(places, seq) ==
    LET best == {i \in places : \A j \in places : ~Beats(seq[j], seq[i])} IN
    IF best = {} THEN NoProvider ELSE seq[CHOOSE i \in best : \A j \in best : i <= j]

SelectUncovered(c) ==
    IF \E i \in kept[c] : collected[c][i] = Preferred[c] THEN Preferred[c]
    ELSE First(Eligible(c), collected[c])

SelectPreferredUnheard(c) ==
    IF Preferred[c] # NoProvider THEN Preferred[c] ELSE First(Eligible(c), collected[c])

\* select_winning_bid: the preferred provider if it bid, else the best.
Select(c) ==
    IF \E i \in Eligible(c) : collected[c][i] = Preferred[c] THEN Preferred[c]
    ELSE First(Eligible(c), collected[c])

-----------------------------------------------------------------------------

\* run_mission_cycle up to tokio::spawn(collect).
Start(c) ==
    /\ caller[c] = "idle"
    /\ caller' = [caller EXCEPT ![c] = "started"]
    /\ collector' = [collector EXCEPT ![c] = "spawned"]
    /\ UNCHANGED <<windows, collected, filterVars, winner, bids, connected, answered, early>>

\* collect inserts the window: whatever the mission id held is replaced.
\* yield_now does not order this before the publication of the offer when
\* the runtime has several threads.
OpenWindow(c) ==
    /\ collector[c] = "spawned"
    /\ collector' = [collector EXCEPT ![c] = "collecting"]
    /\ windows' = [windows EXCEPT ![MissionOf[c]] =
                     [bids |-> <<>>, preferred |-> Preferred[c]]]
    /\ UNCHANGED <<caller, collected, filterVars, winner, bids, connected, answered, early>>

PublishOffer(c) ==
    /\ caller[c] = "started"
    /\ caller' = [caller EXCEPT ![c] = "published"]
    /\ UNCHANGED <<collector, windows, collected, filterVars, winner, bids, connected, answered, early>>

\* bid_loop of a provider that got the offer; the bid names the mission only.
Bid(p, c) ==
    /\ caller[c] \notin {"idle", "started"}
    /\ <<p, c>> \notin answered
    /\ answered' = answered \union {<<p, c>>}
    /\ bids' = bids \union {[provider |-> p, offer |-> c, mission |-> MissionOf[c]]}
    /\ UNCHANGED <<caller, collector, windows, collected, filterVars, winner, connected, early>>

\* BidCollector::deliver, which drops a bid without a window.  A lost bid is
\* one that is never delivered.
Deliver(b) ==
    /\ bids' = bids \ {b}
    /\ windows' = IF windows[b.mission] = NoWindow THEN windows
                  ELSE [windows EXCEPT ![b.mission].bids = Append(@, b.provider)]
    /\ UNCHANGED <<caller, collector, collected, filterVars, winner, connected, answered, early>>

\* Mutant: the early way out returns what is there, without removing it.
CloseEarlyLeavingWindow(c) ==
    LET w == windows[MissionOf[c]] IN
    /\ collector[c] = "collecting"
    /\ w # NoWindow /\ w.preferred \in ToSet(w.bids)
    /\ collector' = [collector EXCEPT ![c] = "closed"]
    /\ collected' = [collected EXCEPT ![c] = w.bids]
    /\ early' = early \union {c}
    /\ UNCHANGED <<caller, windows, filterVars, winner, bids, connected, answered>>

\* The loop of collect finds a bid of the preferred provider in the window:
\* it ends at once.
CloseEarly(c) ==
    LET w == windows[MissionOf[c]] IN
    /\ collector[c] = "collecting"
    /\ w # NoWindow /\ w.preferred \in ToSet(w.bids)
    /\ collector' = [collector EXCEPT ![c] = "stopped"]
    /\ early' = early \union {c}
    /\ UNCHANGED <<caller, windows, collected, filterVars, winner, bids, connected, answered>>

CutoffOnlyWithBids(c) ==
    /\ collector[c] = "collecting"
    /\ windows[MissionOf[c]] # NoWindow
    /\ windows[MissionOf[c]].bids # <<>>
    /\ collector' = [collector EXCEPT ![c] = "stopped"]
    /\ UNCHANGED <<caller, windows, collected, filterVars, winner, bids, connected, answered, early>>

\* timeout_at(cutoff): the deadline passes.  (Or the loop wakes to find the
\* window taken by another cycle.)
Cutoff(c) ==
    /\ collector[c] = "collecting"
    /\ collector' = [collector EXCEPT ![c] = "stopped"]
    /\ UNCHANGED <<caller, windows, collected, filterVars, winner, bids, connected, answered, early>>

TakeWindowUndefaulted(c) ==
    LET w == windows[MissionOf[c]] IN
    /\ collector[c] = "stopped"
    /\ collector' = [collector EXCEPT ![c] = "closed"]
    /\ collected' = [collected EXCEPT ![c] = IF w = NoWindow THEN NoWindow ELSE w.bids]
    /\ windows' = [windows EXCEPT ![MissionOf[c]] = NoWindow]
    /\ UNCHANGED <<caller, filterVars, winner, bids, connected, answered, early>>

\* The end of collect, under the lock once more: the window that is there by
\* then is removed, whoever opened it, and its bids are the result.
TakeWindow(c) ==
    LET w == windows[MissionOf[c]] IN
    /\ collector[c] = "stopped"
    /\ collector' = [collector EXCEPT ![c] = "closed"]
    /\ collected' = [collected EXCEPT ![c] = IF w = NoWindow THEN <<>> ELSE w.bids]
    /\ windows' = [windows EXCEPT ![MissionOf[c]] = NoWindow]
    /\ UNCHANGED <<caller, filterVars, winner, bids, connected, answered, early>>

\* collecting.await has returned, and filter_allowed looks at the next bid.
\* Each is_connected is a reading of its own.
Look(c) ==
    LET i == looked[c] + 1 IN
    /\ caller[c] = "published" /\ collector[c] = "closed"
    /\ i <= Len(collected[c])
    /\ looked' = [looked EXCEPT ![c] = i]
    /\ kept' = [kept EXCEPT ![c] =
                  IF Admissible(c, collected[c][i], connected) THEN @ \union {i} ELSE @]
    /\ met' = [met EXCEPT ![c] = IF i = 1 THEN connected ELSE @]
    /\ steady' = [steady EXCEPT ![c] = IF i = 1 THEN connected ELSE @]
    /\ UNCHANGED <<caller, collector, windows, collected, winner, bids, connected, answered, early>>

\* select_winning_bid of what was kept, and the assign.  The call returns: what
\* it held of the bids is gone.
Choose(c) ==
    /\ caller[c] = "published" /\ collector[c] = "closed"
    /\ looked[c] = Len(collected[c])
    /\ winner' = [winner EXCEPT ![c] = Select(c)]
    /\ caller' = [caller EXCEPT ![c] = IF Select(c) = NoProvider THEN "nobids" ELSE "assigned"]
    /\ collected' = [collected EXCEPT ![c] = <<>>]
    /\ looked' = [looked EXCEPT ![c] = 0]
    /\ kept' = [kept EXCEPT ![c] = {}]
    /\ met' = [met EXCEPT ![c] = {}]
    /\ steady' = [steady EXCEPT ![c] = {}]
    /\ UNCHANGED <<collector, windows, bids, connected, answered, early>>

Filtering(c) == looked[c] > 0

\* Connections come and go while the cycle runs.
Connectivity(p) ==
    /\ connected' = IF p \in connected THEN connected \ {p} ELSE connected \union {p}
    /\ met' = [c \in Cycles |-> IF Filtering(c) THEN met[c] \union connected' ELSE met[c]]
    /\ steady' = [c \in Cycles |-> IF Filtering(c) THEN steady[c] \intersect connected'
                                                  ELSE steady[c]]
    /\ UNCHANGED <<caller, collector, windows, collected, looked, kept, winner, bids,
                   answered, early>>

\* Steps of the Navigator's runtime and its timer.
Cycle(c) ==
    \/ OpenWindow(c) \/ PublishOffer(c)
    \/ CloseEarly(c) \/ Cutoff(c) \/ TakeWindow(c)
    \/ Look(c) \/ Choose(c)

Next ==
    \/ \E c \in Cycles : Start(c) \/ Cycle(c)
    \/ \E c \in Cycles : \E p \in BidsOn[c] : Bid(p, c)
    \/ \E b \in bids : Deliver(b)
    \/ \E p \in Undialable : Connectivity(p)

Fairness == \A c \in Cycles : WF_vars(Cycle(c))

Spec == Init /\ [][Next]_vars
FairSpec == Spec /\ Fairness

-----------------------------------------------------------------------------

Window == [bids : Seq(Providers), preferred : Providers \union {NoProvider}]

TypeOK ==
    /\ caller \in [Cycles -> CallerSteps]
    /\ collector \in [Cycles -> CollectorSteps]
    /\ windows \in [Missions -> Window \union {NoWindow}]
    /\ collected \in [Cycles -> Seq(Providers)]
    /\ looked \in [Cycles -> Nat]
    /\ kept \in [Cycles -> SUBSET Nat]
    /\ winner \in [Cycles -> Providers \union {NoProvider}]
    /\ bids \subseteq [provider : Providers, offer : Cycles, mission : Missions]
    /\ connected \subseteq Undialable
    /\ answered \subseteq Providers \X Cycles
    /\ early \subseteq Cycles
    /\ met \in [Cycles -> SUBSET Undialable]
    /\ steady \in [Cycles -> SUBSET Undialable]

\* The providers whose bids came in time that may win, and those that must
\* not lose to worse, given who could be reached in the filter.
Candidates(c, reached) ==
    {p \in ToSet(collected[c]) : Covers(c, p) /\ Admissible(c, p, reached)}

(* Who wins (mission.rs:54-57), though connections change between the      *)
(* readings of the filter: one that bid in time, is allowed, covers every  *)
(* required capability and could be reached at some moment of the filter.  *)
(* Of the bids that could be reached all along, the preferred one wins,    *)
(* none beats another winner, and none is left when nobody is assigned.    *)
SelectionSound ==
    [][\A c \in Cycles : caller[c] = "published" /\ caller'[c] # "published" =>
         LET may == Candidates(c, met[c])
             must == Candidates(c, steady[c])
         IN IF caller'[c] = "nobids" THEN must = {}
            ELSE /\ winner'[c] \in may
                 /\ Preferred[c] \in must => winner'[c] = Preferred[c]
                 /\ winner'[c] # Preferred[c] => \A p \in must : ~Beats(p, winner'[c])]_vars

(* Only a provider that bid on the mission is ever assigned to it, even    *)
(* when two cycles share the mission id and take each other's window.      *)
AssignedDidBid ==
    \A c \in Cycles : winner[c] # NoProvider =>
        \E d \in Cycles : MissionOf[d] = MissionOf[c] /\ <<winner[c], d>> \in answered

(* A window lives only while some collector of its mission runs: whatever  *)
(* the order in which overlapping cycles open, close and replace it, none  *)
(* is left behind in BidCollector::open.                                   *)
NoWindowLeftBehind ==
    \A m \in Missions : windows[m] # NoWindow =>
        \E c \in Cycles : MissionOf[c] = m /\ collector[c] \in {"collecting", "stopped"}

(* A cycle that starts ends, with an assignment or without bids: at any    *)
(* time it is over, or will be.                                            *)
CyclesEnd == \A c \in Cycles : []<>(caller[c] \notin {"started", "published"})

(* node.rs:168-169: a window "puede cerrar antes si llega el provider      *)
(* preferido, que por regla de seleccion ya es el ganador".                *)
EarlyCloseHasWinner ==
    \A c \in Cycles :
        c \in early /\ caller[c] \in {"assigned", "nobids"} => winner[c] = Preferred[c]
=============================================================================
