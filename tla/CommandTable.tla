----------------------------- MODULE CommandTable -----------------------------
(***************************************************************************)
(* The table of commands a Navigator offers, built from the adverts its    *)
(* peer cache holds: CommandTable, Policy and Resolution of                *)
(* rust/fhs/src/commands.rs, over PeerCache::live.                         *)
(*                                                                         *)
(* Nodes announce beacons, change them and fall silent.  The Navigator     *)
(* builds its table when it likes, so a name may gain and lose offers, and *)
(* an advert may expire, between one table and the next.                   *)
(***************************************************************************)
EXTENDS CommandContract

CONSTANTS
    Dids,        \* the nodes, numbered in the order of the bytes of their DIDs
    Beacons,     \* what a node may announce: [version, capabilities, commands]
    Policies,    \* FHS_COMMAND_NODES and FHS_TRUSTED_NODES: [open, trusted]
    Ttl,         \* validity of an advert by its own ttl
    Grace,       \* TTL_GRACE: how much longer the cache shows it
    MaxTime,     \* bound: last instant
    NoAdvert

\* DIDs are finite texts: some are ordered, and the lowest of any exists.
ASSUME DidsAssumption ==
    /\ Dids \subseteq Int
    /\ \A D \in SUBSET Dids : D # {} => \E d \in D : \A e \in D : d <= e
ASSUME TimesAssumption == Ttl \in Nat /\ Grace \in Nat /\ MaxTime \in Nat
ASSUME PoliciesAssumption == Policies \subseteq [open : SUBSET Dids, trusted : SUBSET Dids]
ASSUME BeaconsAssumption == \A b \in Beacons : b.commands \in Seq(CommandDescriptor)
ASSUME NoAdvertAssumption == NoAdvert \notin [beacon : Beacons, expires : Int]

VARIABLES
    now,
    policy,     \* read from the environment when the Navigator starts
    cache,      \* the adverts of the peer cache
    table,      \* name -> Entry of the CommandTable in use
    rejected,   \* nodes whose commands that table discarded
    seen        \* history: the adverts the table was built from, and when

vars == <<now, policy, cache, table, rejected, seen>>

Advert == [beacon : Beacons, expires : Int]

-----------------------------------------------------------------------------
(* CommandTable::from_peers(peers, t).                                     *)

\* Policy::admits; the value of FHS_COMMAND_NODES is the set it stands for.
Admits(pol, admission, did) ==
    did \in IF admission = "open" THEN pol.open ELSE pol.trusted

\* From version 0.2 on; <<>> is a version that does not parse.
VersionAtLeast(version) == version # <<>> /\ (version[1] > 0 \/ version[2] >= 2)

\* Mutant: an advert counts at the very instant it expires.
DeclaringToTheEnd(peers, t) ==
    {d \in DOMAIN peers : peers[d].beacon.commands # <<>> /\ peers[d].expires >= t}

Declaring(peers, t) ==
    {d \in DOMAIN peers : peers[d].beacon.commands # <<>> /\ peers[d].expires > t}

Sound(beacon) ==
    /\ VersionAtLeast(beacon.version)
    /\ ValidDescriptors(beacon.commands, beacon.capabilities)

Commands(peers, d) == ToSet(peers[d].beacon.commands)

\* Mutant: the policy is not asked.
OffersOfAll(peers, pol, t) ==
    UNION {{<<d, c>> : c \in Commands(peers, d)} :
           d \in {x \in Declaring(peers, t) : Sound(peers[x].beacon)}}

\* The pairs <<did, descriptor>> that enter the groups.
Offers(peers, pol, t) ==
    UNION {{<<d, c>> : c \in {x \in Commands(peers, d) :
                                  Admits(pol, Registry[x.capability].admission, d)}} :
           d \in {x \in Declaring(peers, t) : Sound(peers[x].beacon)}}

\* Mutant: the offer with the lowest DID wins over other contracts.
EntryOfLowest(offers) ==
    LET first == CHOOSE o \in offers : \A p \in offers : o[1] <= p[1]
    IN [kind |-> "active", descriptor |-> first[2], nodes |-> {o[1] : o \in offers}]

\* Two contracts under one name disable it; else the offer with the lowest
\* DID gives the texts.
Entry(offers) ==
    IF \E o, p \in offers : Contract(o[2]) # Contract(p[2])
    THEN [kind |-> "conflict", nodes |-> Cardinality(offers)]
    ELSE LET first == CHOOSE o \in offers : \A p \in offers : o[1] <= p[1]
         IN [kind |-> "active", descriptor |-> first[2], nodes |-> {o[1] : o \in offers}]

FromPeers(peers, pol, t) ==
    LET offers == Offers(peers, pol, t)
    IN [n \in {o[2].name : o \in offers} |-> Entry({o \in offers : o[2].name = n})]

\* Mutant: whoever contributes nothing counts as rejected.
RejectedSilent(peers, t) == Dids \ {d \in Declaring(peers, t) : Sound(peers[d].beacon)}

Rejected(peers, t) == {d \in Declaring(peers, t) : ~Sound(peers[d].beacon)}

\* CommandTable::resolve, for a name that is active.
Active(tab, n) == n \in DOMAIN tab /\ tab[n].kind = "active"

-----------------------------------------------------------------------------
Init ==
    /\ now = 0
    /\ policy \in Policies
    /\ cache = [d \in Dids |-> NoAdvert]
    /\ table = [n \in {} |-> NoAdvert] /\ rejected = {}
    /\ seen = [peers |-> [d \in {} |-> NoAdvert], at |-> 0]

\* The cache accepts a newer advert of the node: upsert_at.
Announce(d) ==
    /\ \E b \in Beacons : cache' = [cache EXCEPT ![d] = [beacon |-> b, expires |-> now + Ttl]]
    /\ UNCHANGED <<now, policy, table, rejected, seen>>

Tick ==
    /\ now < MaxTime
    /\ now' = now + 1
    /\ UNCHANGED <<policy, cache, table, rejected, seen>>

\* The Navigator builds its table from PeerCache::live, which purges first.
Live == {d \in Dids : cache[d] # NoAdvert /\ cache[d].expires + Grace > now}

Rebuild ==
    LET peers == [d \in Live |-> cache[d]]
    IN /\ cache' = [d \in Dids |-> IF d \in Live THEN cache[d] ELSE NoAdvert]
       /\ table' = FromPeers(peers, policy, now)
       /\ rejected' = Rejected(peers, now)
       /\ seen' = [peers |-> peers, at |-> now]
       /\ UNCHANGED <<now, policy>>

Next == (\E d \in Dids : Announce(d)) \/ Tick \/ Rebuild

Spec == Init /\ [][Next]_vars

-----------------------------------------------------------------------------
TypeOK ==
    /\ now \in 0..MaxTime
    /\ policy \in Policies
    /\ cache \in [Dids -> Advert \union {NoAdvert}]
    /\ rejected \subseteq DOMAIN seen.peers
    /\ DOMAIN seen.peers \subseteq Dids
    /\ \A d \in DOMAIN seen.peers : seen.peers[d] \in Advert

\* A node that no list of the policy names changes nothing: not the commands,
\* not their conflicts, not the texts shown (from_peers skips its offers
\* before it groups them).
StrangersDoNotMatter ==
    LET admitted == {d \in DOMAIN seen.peers : d \in policy.open \union policy.trusted}
    IN table = FromPeers([d \in admitted |-> seen.peers[d]], policy, seen.at)

\* Whoever the table sends a call to announced that very contract, in an
\* advert that had not expired by its own ttl, and every other command of the
\* same node was valid too.
Serves(d, contract) ==
    /\ seen.peers[d].expires > seen.at
    /\ Sound(seen.peers[d].beacon)
    /\ \E c \in Commands(seen.peers, d) : Contract(c) = contract

ActiveServes ==
    \A n \in DOMAIN table : Active(table, n) =>
        \A d \in table[n].nodes :
            /\ d \in DOMAIN seen.peers \ rejected
            /\ Serves(d, Contract(table[n].descriptor))

\* A name never passes from one contract to another while a node that offered
\* the first still offers it: the two are a conflict, and the name is
\* disabled.
KeepsOffering(n) ==
    \E d \in table[n].nodes \intersect DOMAIN seen'.peers :
        /\ seen'.peers[d].expires > seen'.at
        /\ Sound(seen'.peers[d].beacon)
        /\ \E c \in Commands(seen'.peers, d) :
               Contract(c) = Contract(table[n].descriptor)

NoSilentSwap ==
    [][\A n \in DOMAIN table \intersect DOMAIN table' :
           Active(table, n) /\ Active(table', n) /\ KeepsOffering(n)
               => Contract(table'[n].descriptor) = Contract(table[n].descriptor)]_vars
=============================================================================
