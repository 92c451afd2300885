----------------------------- MODULE AdvertCache -----------------------------
(***************************************************************************)
(* Signed adverts of one provider and a PeerCache that hears them:         *)
(* rust/fhs/src/p2p/peer_cache.rs (upsert_at, live, get_at), with          *)
(* advertise_loop and handle_gossip of node.rs.                            *)
(*                                                                         *)
(* Gossip may lose an advert, and may deliver one late or again: the       *)
(* bootstrap sends the adverts it keeps once more to each new subscriber.  *)
(* The provider's clock may be off by `offset` from that of the cache.     *)
(***************************************************************************)
EXTENDS Integers

CONSTANTS
    Ttls,        \* ttl_seconds of the adverts
    TtlGrace,    \* TTL_GRACE
    MaxSkew,     \* MAX_ADVERT_SKEW
    MaxTtl,      \* MAX_ADVERT_TTL_SECONDS
    Interval,    \* ADVERTISE_INTERVAL
    Offsets,     \* clock of the provider minus clock of the cache
    MaxLost,     \* bound: periodic adverts lost in a row
    MaxVersion,  \* bound: changes of the beacon and restarts
    MaxTime,     \* bound: last instant
    Nothing

ASSUME TimesAssumption ==
    /\ Ttls \subseteq Int /\ Offsets \subseteq Int
    /\ TtlGrace \in Nat /\ MaxSkew \in Nat /\ MaxTtl \in Nat
    /\ Interval \in Nat \ {0} /\ MaxLost \in Nat
    /\ MaxVersion \in Nat /\ MaxTime \in Nat

VARIABLES
    now,
    offset,
    due,       \* the next tick of advertise_loop's interval; Nothing when stopped
    beacon,    \* version of the beacon, kept in a watch channel
    since,     \* history: when the beacon last changed
    wanted,    \* an advert is due for a changed beacon or a new connection
    sent,      \* adverts published so far, which gossip may deliver
    lost,      \* periodic adverts lost in a row
    owed,      \* the last periodic advert, if it is not lost and not yet here
    checked,   \* an advert upsert_at let through and has not inserted yet
    entry,     \* the PeerEntry of the provider, or Nothing
    newest     \* history: the greatest timestamp upsert_at accepted

provider == <<offset, due, beacon, since, wanted>>
network == <<sent, lost, owed>>
cache == <<checked, entry, newest>>
vars == <<now, provider, network, cache>>

Advert == [ts : Int, ttl : Ttls, version : Nat]
Entry == [ts : Int, version : Nat, expires : Int]

ASSUME NothingAssumption == Nothing \notin Advert \union Entry \union Int

Init ==
    /\ now = 0
    /\ offset \in Offsets
    /\ due = 0
    /\ beacon = 0 /\ since = 0 /\ wanted = FALSE
    /\ sent = {} /\ lost = 0 /\ owed = Nothing
    /\ checked = Nothing /\ entry = Nothing /\ newest = Nothing

-----------------------------------------------------------------------------
\* The provider: set_advertise_beacon and advertise_loop.

ChangeBeacon ==
    /\ due # Nothing
    /\ beacon < MaxVersion
    /\ beacon' = beacon + 1
    /\ since' = now
    /\ wanted' = TRUE
    /\ UNCHANGED <<now, offset, due, network, cache>>

\* A new connection, and ADVERTISE_ON_CONNECT_DELAY, less than an instant.
PeerConnects ==
    /\ due # Nothing /\ ~wanted
    /\ wanted' = TRUE
    /\ UNCHANGED <<now, offset, due, beacon, since, network, cache>>

\* The provider's process ends, and starts again with the identity it keeps
\* in a file and a new beacon: the first tick of the interval is immediate.
Stops ==
    /\ due # Nothing
    /\ due' = Nothing /\ wanted' = FALSE
    /\ UNCHANGED <<now, offset, beacon, since, network, cache>>

Starts ==
    /\ due = Nothing
    /\ beacon < MaxVersion
    /\ beacon' = beacon + 1
    /\ due' = now /\ since' = now
    /\ UNCHANGED <<now, offset, wanted, network, cache>>

FreshWithGrace(ttl) == [ts |-> now + offset, ttl |-> ttl + TtlGrace, version |-> beacon]

\* signed_node_advertise of the current beacon.
Fresh(ttl) == [ts |-> now + offset, ttl |-> ttl, version |-> beacon]

\* The tick of the interval; publish may find nobody, or gossip lose it.
AdvertisePeriodically(ttl) ==
    /\ now = due
    /\ due' = due + Interval
    /\ wanted' = FALSE
    /\ sent' = sent \union {Fresh(ttl)}
    /\ \/ lost' = 0 /\ owed' = Fresh(ttl)
       \/ lost < MaxLost /\ lost' = lost + 1 /\ owed' = Nothing
    /\ UNCHANGED <<now, offset, beacon, since, cache>>

AdvertiseNow(ttl) ==
    /\ wanted
    /\ wanted' = FALSE
    /\ sent' = sent \union {Fresh(ttl)}
    /\ UNCHANGED <<now, offset, due, beacon, since, lost, owed, cache>>

-----------------------------------------------------------------------------
\* The cache.

\* Accepted by its clock, its TTL and the anti-replay rule.
InTime(a) ==
    /\ 1 <= a.ttl /\ a.ttl <= MaxTtl
    /\ a.ts - now <= MaxSkew /\ now - a.ts <= MaxSkew
NewerThanEntry(a) == entry # Nothing => a.ts > entry.ts
AcceptableInAnyOrder(a) == InTime(a)
Acceptable(a) == InTime(a) /\ NewerThanEntry(a)

ExpiresWithoutGrace(a) == a.ts + a.ttl
\* expires_at_ms: the advert sets it, not its reception.
Expires(a) == a.ts + a.ttl + TtlGrace

Arrived(a) == owed' = IF a = owed THEN Nothing ELSE owed

\* upsert_at up to the end of the read lock; the advert is refused, or will
\* be inserted.  Adverts come one at a time, from the node's event loop.
Refuse(a) ==
    /\ checked = Nothing
    /\ ~Acceptable(a)
    /\ Arrived(a)
    /\ UNCHANGED <<now, provider, sent, lost, cache>>

Accept(a) ==
    /\ checked = Nothing
    /\ Acceptable(a)
    /\ checked' = a
    /\ Arrived(a)
    /\ UNCHANGED <<now, provider, sent, lost, entry, newest>>

\* The write lock.
Insert ==
    /\ checked # Nothing
    /\ entry' = [ts |-> checked.ts, version |-> checked.version,
                 expires |-> Expires(checked)]
    /\ newest' = IF newest # Nothing /\ newest > checked.ts THEN newest ELSE checked.ts
    /\ checked' = Nothing
    /\ UNCHANGED <<now, provider, network>>

\* What live() and get_at show of the provider.
Live == entry # Nothing /\ entry.expires > now

\* Any reader: live() forgets the entries that have expired.
Forget ==
    /\ entry # Nothing
    /\ entry.expires <= now
    /\ entry' = Nothing
    /\ UNCHANGED <<now, provider, network, checked, newest>>

\* What is due at an instant happens in it.
Tick ==
    /\ now < MaxTime
    /\ due # Nothing => now < due
    /\ ~wanted /\ owed = Nothing /\ checked = Nothing
    /\ now' = now + 1
    /\ UNCHANGED <<provider, network, cache>>

Next ==
    \/ ChangeBeacon \/ PeerConnects \/ Stops \/ Starts
    \/ \E ttl \in Ttls : AdvertisePeriodically(ttl) \/ AdvertiseNow(ttl)
    \/ \E a \in sent : Refuse(a) \/ Accept(a)
    \/ Insert \/ Forget \/ Tick

Spec == Init /\ [][Next]_vars

-----------------------------------------------------------------------------

TypeOK ==
    /\ now \in Nat /\ offset \in Offsets /\ due \in Nat \union {Nothing}
    /\ beacon \in 0..MaxVersion /\ since \in 0..now /\ wanted \in BOOLEAN
    /\ sent \subseteq Advert
    /\ lost \in 0..MaxLost
    /\ owed \in sent \union {Nothing}
    /\ checked \in sent \union {Nothing}
    /\ entry \in Entry \union {Nothing}
    /\ newest \in Int \union {Nothing}

(* Late and repeated adverts never roll a provider back: what a reader of   *)
(* the cache sees is the newest advert ever accepted from it, although the  *)
(* anti-replay timestamp is forgotten with the entry when it expires.  It   *)
(* holds while the provider keeps one TTL, as ADVERTISE_TTL_SECONDS does.   *)
ShowsNewest == Live => entry.ts = newest

(* peer_cache.rs:100-101 and node.rs:332-334: with at most MaxLost periodic *)
(* adverts lost in a row a provider that runs stays in the cache, and a     *)
(* changed beacon is what it shows at most (MaxLost + 1) intervals later,   *)
(* even if the immediate advert carries the timestamp of the periodic one.  *)
KeepsUp ==
    due # Nothing /\ now > since + (MaxLost + 1) * Interval => Live /\ entry.version = beacon

(* peer_cache.rs:145-147: an advert is refused "si su `timestamp` no es     *)
(* estrictamente mayor al ultimo aceptado de ese DID (anti-replay)".        *)
AcceptsOnlyNewer ==
    [][Insert /\ newest # Nothing => checked.ts > newest]_vars
=============================================================================
