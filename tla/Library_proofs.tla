---------------------------- MODULE Library_proofs ----------------------------
(***************************************************************************)
(* Proofs about the parts that are called and return: CommandTable, for    *)
(* any nodes, beacons, policies and registry; Identity, for any keys and   *)
(* any file the node first finds; Kubo, for any clients and contents;      *)
(* Engine, for any calls, durations and time-out; Wire, for an envelope    *)
(* with any head, signer and payload and for a message of any topic;       *)
(* Texts, for any list that is sorted; Digests and Values, for any texts,  *)
(* values of any depth and any batches; Curp, for any names, dates and     *)
(* catalogue; CommandLine, for any line and valid descriptor; DynamicJson, *)
(* for JSON of any width, as deep as a value may be.                       *)
(*                                                                         *)
(* The first four have an inductive invariant: TableBuilt, FileSettled,    *)
(* KuboInv and EngineInv.  The rest is without state; the last section     *)
(* brings it to what Cases says of every case that is drawn.               *)
(***************************************************************************)
EXTENDS CommandTable, Identity, Kubo, Engine, Cases, Basics,
        FiniteSetTheorems, SequenceTheorems, TLAPS

-----------------------------------------------------------------------------
(* CommandTable: the table is always from_peers of the adverts it was      *)
(* built from (TableBuilt); what it says of a name is read off Offers and  *)
(* Entry.                                                                  *)

Peers == UNION {[D -> Advert] : D \in SUBSET Dids}

TableBuilt ==
    /\ policy \in Policies
    /\ cache \in [Dids -> Advert \union {NoAdvert}]
    /\ seen.peers \in Peers
    /\ table = FromPeers(seen.peers, policy, seen.at)
    /\ rejected = Rejected(seen.peers, seen.at)

-----------------------------------------------------------------------------
(* What the operators of the table return.                                 *)

\* The pairs of Offers are the commands of sound, unexpired adverts that the
\* policy admits.
LEMMA OffersMembers ==
    ASSUME NEW peers, NEW pol, NEW t, NEW o
    PROVE  (o \in Offers(peers, pol, t)) <=>
             (\E d \in DOMAIN peers : \E c \in Commands(peers, d) :
                 /\ o = <<d, c>>
                 /\ d \in Declaring(peers, t)
                 /\ Sound(peers[d].beacon)
                 /\ Admits(pol, Registry[c.capability].admission, d))
BY DEF Offers, Declaring

\* A non-empty set of offers has one with the lowest DID.
LEMMA LowestOffer ==
    ASSUME NEW offers, offers # {}, \A o \in offers : o[1] \in Dids
    PROVE  (CHOOSE o \in offers : \A p \in offers : o[1] <= p[1]) \in offers
<1>1. {o[1] : o \in offers} \in SUBSET Dids /\ {o[1] : o \in offers} # {}
  OBVIOUS
<1>2. PICK n \in {o[1] : o \in offers} : \A m \in {o[1] : o \in offers} : n <= m
  BY <1>1, DidsAssumption
<1>3. PICK o \in offers : o[1] = n
  OBVIOUS
<1>4. \A p \in offers : o[1] <= p[1]
  BY <1>2, <1>3
<1> QED BY <1>4

\* An active entry speaks for the one contract all its offers share.
LEMMA ActiveEntry ==
    ASSUME NEW offers, offers # {}, \A o \in offers : o[1] \in Dids,
           Entry(offers).kind = "active"
    PROVE  /\ Entry(offers).nodes = {o[1] : o \in offers}
           /\ \A o \in offers : Contract(o[2]) = Contract(Entry(offers).descriptor)
<1> DEFINE first == CHOOSE o \in offers : \A p \in offers : o[1] <= p[1]
<1>1. first \in offers
  BY LowestOffer
<1>2. \A o, p \in offers : Contract(o[2]) = Contract(p[2])
  BY DEF Entry
<1>3. Entry(offers) = [kind |-> "active", descriptor |-> first[2],
                       nodes |-> {o[1] : o \in offers}]
  BY <1>2 DEF Entry
<1> HIDE DEF first
<1> QED BY <1>1, <1>2, <1>3

\* The texts for people stay out of a contract, the rest stays in.
LEMMA ContractFields ==
    ASSUME NEW c \in CommandDescriptor
    PROVE  Contract(c).name = c.name /\ Contract(c).capability = c.capability
BY DEF Contract, CommandDescriptor

\* What the adverts of the cache declare is made of descriptors, and their
\* DIDs are numbers.
LEMMA OffersTyped ==
    ASSUME NEW peers \in Peers, NEW pol, NEW t, NEW o \in Offers(peers, pol, t)
    PROVE  o[1] \in Dids /\ o[2] \in CommandDescriptor
<1>1. PICK d \in DOMAIN peers : \E c \in Commands(peers, d) : o = <<d, c>>
  BY OffersMembers
<1>2. PICK c \in Commands(peers, d) : o = <<d, c>>
  BY <1>1
<1>3. PICK D \in SUBSET Dids : peers \in [D -> Advert]
  BY DEF Peers
<1>4. d \in Dids /\ peers[d] \in Advert
  BY <1>3
<1>5. peers[d].beacon.commands \in Seq(CommandDescriptor)
  BY <1>4, BeaconsAssumption DEF Advert
<1>6. c \in CommandDescriptor
  BY <1>5 DEF Commands, ToSet
<1> QED BY <1>2, <1>4, <1>6

\* The table of some adverts has a name exactly when an offer bears it, and
\* its entry is that of the offers of the name.
Group(peers, pol, t, n) == {o \in Offers(peers, pol, t) : o[2].name = n}

LEMMA TableEntry ==
    ASSUME NEW peers \in Peers, NEW pol, NEW t,
           NEW n \in DOMAIN FromPeers(peers, pol, t)
    PROVE  /\ Group(peers, pol, t, n) # {}
           /\ \A o \in Group(peers, pol, t, n) : o[1] \in Dids
           /\ FromPeers(peers, pol, t)[n] = Entry(Group(peers, pol, t, n))
BY OffersTyped DEF FromPeers, Group

-----------------------------------------------------------------------------
LEMMA InitBuilt == Init => TypeOK /\ TableBuilt
<1> SUFFICES ASSUME Init PROVE TypeOK /\ TableBuilt
  OBVIOUS
<1>1. seen.peers = [d \in {} |-> NoAdvert] /\ seen.at = 0
  BY DEF Init
<1>2. Offers(seen.peers, policy, seen.at) = {}
  BY <1>1, OffersMembers
<1>3. FromPeers(seen.peers, policy, seen.at) = [n \in {} |-> NoAdvert]
  BY <1>2 DEF FromPeers
<1>4. seen.peers \in [{} -> Advert] /\ Rejected(seen.peers, seen.at) = {}
  BY <1>1 DEF Rejected, Declaring
<1>5. seen.peers \in Peers
  BY <1>4 DEF Peers
<1> QED BY <1>1, <1>3, <1>4, <1>5, TimesAssumption DEF Init, TypeOK, TableBuilt

LEMMA BuiltStep == TypeOK /\ TableBuilt /\ [Next]_vars => TypeOK' /\ TableBuilt'
<1> SUFFICES ASSUME TypeOK, TableBuilt, [Next]_vars PROVE TypeOK' /\ TableBuilt'
  OBVIOUS
<1>1. ASSUME NEW d \in Dids, Announce(d) PROVE TypeOK' /\ TableBuilt'
  <2>1. PICK b \in Beacons :
            cache' = [cache EXCEPT ![d] = [beacon |-> b, expires |-> now + Ttl]]
    BY <1>1 DEF Announce
  <2>2. [beacon |-> b, expires |-> now + Ttl] \in Advert
    BY TimesAssumption DEF Advert, TypeOK
  <2>3. cache' \in [Dids -> Advert \union {NoAdvert}]
    BY <2>1, <2>2 DEF TypeOK
  <2> QED BY <1>1, <2>3 DEF Announce, TypeOK, TableBuilt
<1>2. ASSUME Tick PROVE TypeOK' /\ TableBuilt'
  BY <1>2, TimesAssumption DEF Tick, TypeOK, TableBuilt
<1>3. ASSUME Rebuild PROVE TypeOK' /\ TableBuilt'
  <2> DEFINE peers == [d \in Live |-> cache[d]]
  <2>1. peers \in [Live -> Advert] /\ Live \subseteq Dids
    BY DEF Live, TypeOK
  <2>2. seen' = [peers |-> peers, at |-> now] /\ seen'.peers = peers /\ seen'.at = now
    BY <1>3 DEF Rebuild
  <2>3. seen'.peers \in Peers /\ \A d \in DOMAIN seen'.peers : seen'.peers[d] \in Advert
    BY <2>1, <2>2 DEF Peers
  <2>4. DOMAIN seen'.peers \subseteq Dids
    BY <2>1, <2>2
  <2>5. cache' \in [Dids -> Advert \union {NoAdvert}]
    BY <1>3 DEF Rebuild, Live, TypeOK
  <2>6. /\ rejected' = Rejected(seen'.peers, now)
        /\ table' = FromPeers(seen'.peers, policy', seen'.at)
        /\ seen'.at = now
    BY <1>3, <2>2 DEF Rebuild
  <2>7. rejected' \subseteq DOMAIN seen'.peers
    BY <2>6 DEF Rejected, Declaring
  <2> QED BY <1>3, <2>3, <2>4, <2>5, <2>6, <2>7 DEF Rebuild, TypeOK, TableBuilt
<1>4. CASE UNCHANGED vars
  BY <1>4 DEF vars, TypeOK, TableBuilt
<1> QED BY <1>1, <1>2, <1>3, <1>4 DEF Next

\* Type correctness.
THEOREM TypeCorrect == Spec => []TypeOK
<1>1. TypeOK /\ TableBuilt /\ [Next]_vars => (TypeOK /\ TableBuilt)'
  BY BuiltStep
<1> QED BY <1>1, InitBuilt, PTL DEF Spec

\* The table is always from_peers of the adverts it was built from.
LEMMA AlwaysBuilt == Spec => []TableBuilt
<1>1. TypeOK /\ TableBuilt /\ [Next]_vars => (TypeOK /\ TableBuilt)'
  BY BuiltStep
<1> QED BY <1>1, InitBuilt, PTL DEF Spec

-----------------------------------------------------------------------------
\* Nodes that no list of the policy names do not enter the groups.
LEMMA StrangersOfferNothing ==
    ASSUME TableBuilt, policy \in Policies
    PROVE  StrangersDoNotMatter
<1> DEFINE admitted == {d \in DOMAIN seen.peers : d \in policy.open \union policy.trusted}
           known == [d \in admitted |-> seen.peers[d]]
<1>1. \A o : (o \in Offers(seen.peers, policy, seen.at)) <=> (o \in Offers(known, policy, seen.at))
  <2> SUFFICES ASSUME NEW o
               PROVE  (o \in Offers(seen.peers, policy, seen.at))
                        <=> (o \in Offers(known, policy, seen.at))
    OBVIOUS
  <2>1. \A d, c : Admits(policy, Registry[c.capability].admission, d)
                     => d \in policy.open \union policy.trusted
    BY DEF Admits
  <2>2. \A d \in admitted :
            /\ Commands(known, d) = Commands(seen.peers, d)
            /\ known[d] = seen.peers[d]
            /\ (d \in Declaring(known, seen.at)) <=> (d \in Declaring(seen.peers, seen.at))
    BY DEF Commands, Declaring
  <2> HIDE DEF known
  <2>3. DOMAIN known = admitted
    BY DEF known
  <2>4. admitted \subseteq DOMAIN seen.peers
    OBVIOUS
  <2>5. ASSUME o \in Offers(seen.peers, policy, seen.at)
        PROVE  o \in Offers(known, policy, seen.at)
    <3>1. PICK d \in DOMAIN seen.peers : \E c \in Commands(seen.peers, d) :
              /\ o = <<d, c>> /\ d \in Declaring(seen.peers, seen.at)
              /\ Sound(seen.peers[d].beacon)
              /\ Admits(policy, Registry[c.capability].admission, d)
      BY <2>5, OffersMembers
    <3>2. d \in admitted
      BY <3>1, <2>1
    <3> HIDE DEF admitted
    <3> QED BY <3>1, <3>2, <2>2, <2>3, OffersMembers
  <2>6. ASSUME o \in Offers(known, policy, seen.at)
        PROVE  o \in Offers(seen.peers, policy, seen.at)
    <3>1. PICK d \in DOMAIN known : \E c \in Commands(known, d) :
              /\ o = <<d, c>> /\ d \in Declaring(known, seen.at)
              /\ Sound(known[d].beacon)
              /\ Admits(policy, Registry[c.capability].admission, d)
      BY <2>6, OffersMembers
    <3> HIDE DEF admitted
    <3> QED BY <3>1, <2>2, <2>3, <2>4, OffersMembers
  <2> QED BY <2>5, <2>6
<1>2. Offers(seen.peers, policy, seen.at) = Offers(known, policy, seen.at)
  BY <1>1
<1>3. FromPeers(seen.peers, policy, seen.at) = FromPeers(known, policy, seen.at)
  BY <1>2 DEF FromPeers
<1> QED BY <1>3 DEF TableBuilt, StrangersDoNotMatter

\* A node that no list of the policy names changes nothing of the table,
\* whatever it announces.
THEOREM StrangersHarmless == Spec => []StrangersDoNotMatter
<1>1. TableBuilt => StrangersDoNotMatter
  BY StrangersOfferNothing DEF TableBuilt
<1> QED BY <1>1, AlwaysBuilt, PTL

-----------------------------------------------------------------------------
\* An active name: who offers it, and what each offer says.
LEMMA ActiveName ==
    ASSUME NEW peers \in Peers, NEW pol, NEW t,
           NEW n \in DOMAIN FromPeers(peers, pol, t),
           Active(FromPeers(peers, pol, t), n)
    PROVE  /\ \A d \in FromPeers(peers, pol, t)[n].nodes :
                  \E c \in CommandDescriptor :
                      <<d, c>> \in Offers(peers, pol, t) /\ c.name = n
           /\ \A o \in Offers(peers, pol, t) : o[2].name = n
                  => Contract(o[2]) = Contract(FromPeers(peers, pol, t)[n].descriptor)
<1> DEFINE group == Group(peers, pol, t, n)
<1>1. group # {} /\ (\A o \in group : o[1] \in Dids) /\ FromPeers(peers, pol, t)[n] = Entry(group)
  BY TableEntry
<1>2. Entry(group).kind = "active"
  BY <1>1 DEF Active
<1>3. /\ Entry(group).nodes = {o[1] : o \in group}
      /\ \A o \in group : Contract(o[2]) = Contract(Entry(group).descriptor)
  BY <1>1, <1>2, ActiveEntry
<1>4. ASSUME NEW d \in FromPeers(peers, pol, t)[n].nodes
      PROVE  \E c \in CommandDescriptor : <<d, c>> \in Offers(peers, pol, t) /\ c.name = n
  <2>1. PICK o \in Offers(peers, pol, t) : o[1] = d /\ o[2].name = n
    BY <1>1, <1>3 DEF Group
  <2>2. o[2] \in CommandDescriptor
    BY OffersTyped
  <2>3. \E x \in DOMAIN peers : \E c \in Commands(peers, x) : o = <<x, c>>
    BY OffersMembers
  <2>4. o = <<d, o[2]>>
    BY <2>1, <2>3
  <2> QED BY <2>1, <2>2, <2>4
<1> QED BY <1>1, <1>3, <1>4 DEF Group

\* A call goes only to nodes that announced the command, in a sound advert
\* that had not expired.
THEOREM CallsAreServed == Spec => []ActiveServes
<1>1. TableBuilt => ActiveServes
  <2> SUFFICES ASSUME TableBuilt, NEW n \in DOMAIN table, Active(table, n),
                      NEW d \in table[n].nodes
               PROVE  d \in DOMAIN seen.peers \ rejected
                        /\ Serves(d, Contract(table[n].descriptor))
    BY DEF ActiveServes
  <2>1. /\ seen.peers \in Peers
        /\ table = FromPeers(seen.peers, policy, seen.at)
        /\ rejected = Rejected(seen.peers, seen.at)
    BY DEF TableBuilt
  <2>2. PICK c \in CommandDescriptor :
            <<d, c>> \in Offers(seen.peers, policy, seen.at) /\ c.name = n
    BY <2>1, ActiveName
  <2>3. Contract(c) = Contract(table[n].descriptor)
    BY <2>1, <2>2, ActiveName
  <2>4. /\ d \in DOMAIN seen.peers /\ c \in Commands(seen.peers, d)
        /\ d \in Declaring(seen.peers, seen.at) /\ Sound(seen.peers[d].beacon)
    BY <2>2, OffersMembers
  <2>5. d \notin rejected
    BY <2>1, <2>4 DEF Rejected
  <2>6. seen.peers[d].expires > seen.at
    BY <2>4 DEF Declaring
  <2> QED BY <2>3, <2>4, <2>5, <2>6 DEF Serves
<1> QED BY <1>1, AlwaysBuilt, PTL

\* No name passes from one contract to another while a node that offered the
\* first still does.
THEOREM NamesKeepTheirContract == Spec => NoSilentSwap
<1>1. TableBuilt /\ TableBuilt' /\ [Next]_vars =>
        [\A n \in DOMAIN table \intersect DOMAIN table' :
           Active(table, n) /\ Active(table', n) /\ KeepsOffering(n)
               => Contract(table'[n].descriptor) = Contract(table[n].descriptor)]_vars
  <2> SUFFICES ASSUME TableBuilt, TableBuilt', [Next]_vars,
                      NEW n \in DOMAIN table \intersect DOMAIN table',
                      Active(table, n), Active(table', n), KeepsOffering(n)
               PROVE  Contract(table'[n].descriptor) = Contract(table[n].descriptor)
    OBVIOUS
  <2>1. policy' = policy
    BY DEF Next, Announce, Tick, Rebuild, vars
  <2>2. /\ seen.peers \in Peers /\ table = FromPeers(seen.peers, policy, seen.at)
        /\ seen'.peers \in Peers /\ table' = FromPeers(seen'.peers, policy, seen'.at)
    BY <2>1 DEF TableBuilt
  <2>3. PICK d \in table[n].nodes \intersect DOMAIN seen'.peers :
            /\ seen'.peers[d].expires > seen'.at
            /\ Sound(seen'.peers[d].beacon)
            /\ \E c \in Commands(seen'.peers, d) :
                   Contract(c) = Contract(table[n].descriptor)
    BY DEF KeepsOffering
  <2>4. PICK c \in Commands(seen'.peers, d) : Contract(c) = Contract(table[n].descriptor)
    BY <2>3
  <2>5. PICK b \in CommandDescriptor :
            <<d, b>> \in Offers(seen.peers, policy, seen.at) /\ b.name = n
    BY <2>2, <2>3, ActiveName
  <2>6. Contract(b) = Contract(c)
    BY <2>2, <2>4, <2>5, ActiveName
  <2>7. c \in CommandDescriptor /\ seen'.peers[d].beacon.commands # <<>>
    <3>1. PICK D \in SUBSET Dids : seen'.peers \in [D -> Advert]
      BY <2>2 DEF Peers
    <3>2. seen'.peers[d] \in Advert
      BY <3>1
    <3>3. seen'.peers[d].beacon.commands \in Seq(CommandDescriptor)
      BY <3>2, BeaconsAssumption DEF Advert
    <3> QED BY <3>3 DEF Commands, ToSet
  <2>8. c.name = n /\ c.capability = b.capability
    BY <2>5, <2>6, <2>7, ContractFields
  <2>9. Admits(policy, Registry[c.capability].admission, d)
    <3>1. PICK x \in DOMAIN seen.peers : \E y \in Commands(seen.peers, x) :
              /\ <<d, b>> = <<x, y>>
              /\ Admits(policy, Registry[y.capability].admission, x)
      BY <2>5, OffersMembers
    <3> QED BY <2>8, <3>1
  <2>10. <<d, c>> \in Offers(seen'.peers, policy, seen'.at)
    <3>1. d \in Declaring(seen'.peers, seen'.at)
      BY <2>3, <2>7 DEF Declaring
    <3> QED BY <2>3, <2>4, <2>9, <3>1, OffersMembers
  <2>11. Contract(c) = Contract(table'[n].descriptor)
    BY <2>2, <2>8, <2>10, ActiveName
  <2> QED BY <2>4, <2>11
<1> QED BY <1>1, AlwaysBuilt, PTL DEF Spec, NoSilentSwap

-----------------------------------------------------------------------------
(* Identity: whoever was answered a key has it in the file, and a key is   *)
(* generated and written only while nobody was answered and there was no   *)
(* file.                                                                   *)

\* IdentityKept says what the file holds; where the process is says how far
\* it may still change it.
FileSettled ==
    /\ node \in [at : {"down", "read", "generated", "writing", "up", "failed"},
                key : Keys \union {None}]
    /\ answered \subseteq KeyOf(file)
    /\ original # Absent => file = original
    /\ node.at = "generated" => node.key \in Keys /\ file = Absent
    /\ node.at = "writing" => node.key \in Keys /\ file = Partial /\ original = Absent

\* A file names one key at most.
LEMMA OneKey == ASSUME NEW f PROVE \E k : KeyOf(f) \subseteq {k}
BY DEF KeyOf

\* A file without JSON names none.
LEMMA NoKey == KeyOf(Absent) = {} /\ KeyOf(Partial) = {}
BY DEF KeyOf, Absent, Partial

\* What load_or_create writes names the key it generated.
LEMMA WrittenKey == ASSUME NEW k \in Keys PROVE KeyOf(Persisted(k, None)) = {k}
BY KeysAssumption DEF KeyOf, Persisted

LEMMA StaysSettled == FileSettled /\ [IdNext]_idVars => FileSettled'
<1> SUFFICES ASSUME FileSettled, [IdNext]_idVars PROVE FileSettled'
  OBVIOUS
<1>1. CASE Start
  BY <1>1 DEF Start, FileSettled
<1>2. CASE Read
  <2>1. CASE \E k \in KeyOf(file) : Answer(k)
    <3>1. PICK k \in KeyOf(file) : Answer(k)
      BY <2>1
    <3>2. k \in Keys
      BY DEF KeyOf
    <3> QED BY <1>2, <3>1, <3>2 DEF Read, Answer, FileSettled
  <2>2. CASE Fail
    BY <1>2, <2>2 DEF Read, Fail, FileSettled
  <2> QED BY <1>2, <2>1, <2>2 DEF Read
<1>3. CASE Open
  <2>1. original = Absent /\ answered = {}
    BY <1>3, NoKey DEF Open, FileSettled
  <2>2. CASE Fail /\ UNCHANGED file
    BY <1>3, <2>1, <2>2 DEF Open, Fail, FileSettled
  <2>3. CASE /\ file' = Partial /\ node' = [node EXCEPT !.at = "writing"]
             /\ UNCHANGED answered
    <3>1. node'.key \in Keys
      BY <1>3, <2>3 DEF Open, FileSettled
    <3>2. node'.at # "generated"
      BY <2>3
    <3> QED BY <1>3, <2>1, <2>3, <3>1, <3>2 DEF Open, FileSettled
  <2> QED BY <1>3, <2>2, <2>3 DEF Open
<1>4. CASE Write
  <2>1. original = Absent /\ answered = {} /\ node.key \in Keys
    BY <1>4, NoKey DEF Write, FileSettled
  <2>2. CASE Fail /\ UNCHANGED file
    BY <1>4, <2>1, <2>2 DEF Write, Fail, FileSettled
  <2>3. CASE file' = Persisted(node.key, None) /\ Answer(node.key)
    <3>1. answered' \subseteq KeyOf(file')
      BY <2>1, <2>3, WrittenKey DEF Answer
    <3> QED BY <1>4, <2>1, <2>3, <3>1 DEF Write, Answer, FileSettled
  <2> QED BY <1>4, <2>2, <2>3 DEF Write
<1>5. CASE Crash
  BY <1>5 DEF Crash, Down, FileSettled
<1>6. CASE UNCHANGED idVars
  BY <1>6 DEF idVars, FileSettled
<1> QED BY <1>1, <1>2, <1>3, <1>4, <1>5, <1>6 DEF IdNext

\* Over any number of starts, failures and crashes a node has one identity,
\* which its file holds, and a file that was there is never touched.
THEOREM IdentityIsKept == IdSpec => []IdentityKept
<1>1. IdInit => FileSettled
  BY DEF IdInit, Down, FileSettled
<1>2. FileSettled => IdentityKept
  <2> SUFFICES ASSUME FileSettled PROVE Cardinality(answered) <= 1
    BY DEF FileSettled, IdentityKept
  <2>1. PICK k : answered \subseteq {k}
    BY OneKey DEF FileSettled
  <2>2. CASE answered = {}
    BY <2>2, FS_EmptySet
  <2>3. CASE answered = {k}
    BY <2>3, FS_Singleton
  <2> QED BY <2>1, <2>2, <2>3
<1> QED BY <1>1, <1>2, StaysSettled, PTL DEF IdSpec

-----------------------------------------------------------------------------
(* Kubo: what a client waits for is still to come, or says what was so at  *)
(* a moment since it began; a body that is read is the start of a content. *)

Smaller(a, b) == IF a < b THEN a ELSE b

\* What is kept and what is still to come are the start of the content, up to
\* one byte more than may be kept.
Reading(c) ==
    LET content == asked[c].cid.of
        max == asked[c].max
        left == reply[c].left
    IN /\ reply[c] = BodyReply(left) /\ left \in Seq(0..255)
       /\ Len(out[c]) <= max
       /\ Len(out[c]) + Len(left) = Smaller(max + 1, Len(content))
       /\ \A i \in 1..Len(out[c]) : out[c][i] = content[i]
       /\ \A i \in 1..Len(left) : left[i] = content[Len(out[c]) + i]

ReplyFits(c) ==
    LET r == asked[c]
        y == reply[c]
    IN \/ y \in {Pending, Refusal, Garbled}
       \/ /\ r.op = "add" /\ \E parses \in BOOLEAN : y = CidsReply({[of |-> r.of, parses |-> parses]})
          /\ r.onlyHash \/ \E P \in during[c] : r.of \in P
       \/ r.op = "pin_rm" /\ y \in {Done, NotPinned} /\ \E P \in during[c] : r.cid.of \notin P
       \/ /\ r.op = "pin_ls"
          /\ \E P \in during[c], parses \in BOOLEAN :
                 y = CidsReply({[of |-> p, parses |-> parses] : p \in P})
       \/ r.op = "cat" /\ Reading(c)

KuboTypes ==
    /\ pins \subseteq Contents
    /\ asked \in [Clients -> Requests \union {NoRequest}]
    /\ client \in [Clients -> {"idle", "waiting", "done"}]
    /\ out \in [Clients -> Seq(0..255)]
    /\ during \in [Clients -> SUBSET SUBSET Contents]
    /\ reply = [c \in Clients |-> reply[c]]
    /\ answer = [c \in Clients |-> answer[c]]

ClientFits(c) ==
    /\ client[c] = "idle" => reply[c] = Silence /\ out[c] = <<>>
    /\ client[c] # "idle" => asked[c] \in Requests
    /\ reply[c] = Pending => out[c] = <<>>
    /\ client[c] = "waiting" => pins \in during[c] /\ ReplyFits(c)
    /\ client[c] = "done" => TrueAnswer(c)

KuboInv == KuboTypes /\ \A c \in Clients : ClientFits(c)

LEMMA RequestTypes ==
  \A r \in Requests :
      /\ r.op \in {"add", "pin_rm", "cat", "pin_ls"}
      /\ r.op = "add" => r.of \in Contents /\ r.onlyHash \in BOOLEAN
      /\ r.op \in {"pin_rm", "cat"} => r.cid \in Cids /\ r.cid.of \in Contents
      /\ r.op = "cat" => /\ r.max \in Nat
                         /\ r.cid.of \in Seq(0..255) /\ Len(r.cid.of) \in Nat
<1>1. \A r \in Requests :
      /\ r.op \in {"add", "pin_rm", "cat", "pin_ls"}
      /\ r.op = "add" => r.of \in Contents /\ r.onlyHash \in BOOLEAN
      /\ r.op \in {"pin_rm", "cat"} => r.cid \in Cids
      /\ r.op = "cat" => r.max \in Nat
  BY KuboAssumption DEF Requests
<1>2. \A cid \in Cids : cid.of \in Contents
  BY DEF Cids
<1>3. \A x \in Contents : x \in Seq(0..255) /\ Len(x) \in Nat
  BY KuboAssumption, LenProperties
<1> QED BY <1>1, <1>2, <1>3

\* The kinds of reply are told apart.
LEMMA ReplyKinds ==
  /\ Pending.kind = "pending" /\ Refusal.kind = "error" /\ Refusal.message = "refused"
  /\ NotPinned.kind = "error" /\ NotPinned.message = "not pinned"
  /\ Done.kind = "done" /\ Garbled.kind = "garbled" /\ Silence.kind = "none"
  /\ \A s : CidsReply(s).kind = "cids" /\ CidsReply(s).cids = s
  /\ \A s : BodyReply(s).kind = "body" /\ BodyReply(s).left = s
  BY DEF Pending, Refusal, NotPinned, Done, Garbled, Silence, CidsReply, BodyReply

\* A client of whom nothing changes but what is pinned meanwhile.
LEMMA Bystander ==
  ASSUME NEW d \in Clients, ClientFits(d),
         asked'[d] = asked[d], client'[d] = client[d], reply'[d] = reply[d],
         out'[d] = out[d], answer'[d] = answer[d],
         client[d] = "waiting" => during[d] \subseteq during'[d] /\ pins' \in during'[d],
         client[d] # "waiting" => during'[d] = during[d]
  PROVE  ClientFits(d)'
<1>1. CASE client[d] = "waiting"
  <2>1. ReplyFits(d)
    BY <1>1 DEF ClientFits
  <2>2. Reading(d) => Reading(d)'
    BY DEF Reading, BodyReply
  <2>3. ReplyFits(d)'
    BY <1>1, <2>1, <2>2
       DEF ReplyFits, Pending, Refusal, Garbled, Done, NotPinned, CidsReply
  <2> QED BY <1>1, <2>3 DEF ClientFits, Silence, Pending
<1>2. CASE client[d] # "waiting"
  <2>1. TrueAnswer(d) => TrueAnswer(d)'
    BY <1>2 DEF TrueAnswer, Refusal
  <2> QED BY <1>2, <2>1 DEF ClientFits, Silence, Pending
<1> QED BY <1>1, <1>2

LEMMA Begins == ASSUME KuboInv, NEW c \in Clients, Begin(c) PROVE KuboInv'
<1>1. PICK r \in Requests :
         /\ asked' = [asked EXCEPT ![c] = r]
         /\ \/ Return(c, Error("cid")) /\ UNCHANGED <<reply, during>>
            \/ /\ client' = [client EXCEPT ![c] = "waiting"]
               /\ reply' = [reply EXCEPT ![c] = Pending]
               /\ during' = [during EXCEPT ![c] = {pins}]
               /\ UNCHANGED answer
  BY DEF Begin
<1>2. client[c] = "idle" /\ UNCHANGED <<pins, out>>
  BY DEF Begin
<1>3. KuboTypes'
  <2>1. KuboTypes /\ {pins} \in SUBSET SUBSET Contents
    BY DEF KuboInv, KuboTypes
  <2>2. asked' \in [Clients -> Requests \union {NoRequest}]
    BY <1>1, <2>1 DEF KuboTypes
  <2>3. CASE Return(c, Error("cid")) /\ UNCHANGED <<reply, during>>
    <3>1. /\ client' \in [Clients -> {"idle", "waiting", "done"}]
          /\ answer' = [d \in Clients |-> answer'[d]]
      BY <2>1, <2>3 DEF KuboTypes, Return
    <3> QED BY <1>2, <2>1, <2>2, <2>3, <3>1 DEF KuboTypes
  <2>4. CASE /\ client' = [client EXCEPT ![c] = "waiting"]
             /\ reply' = [reply EXCEPT ![c] = Pending]
             /\ during' = [during EXCEPT ![c] = {pins}]
             /\ UNCHANGED answer
    <3>1. /\ client' \in [Clients -> {"idle", "waiting", "done"}]
          /\ reply' = [d \in Clients |-> reply'[d]]
          /\ during' \in [Clients -> SUBSET SUBSET Contents]
      BY <2>1, <2>4 DEF KuboTypes
    <3> QED BY <1>2, <2>1, <2>2, <2>4, <3>1 DEF KuboTypes
  <2> QED BY <1>1, <2>3, <2>4
<1>4. ASSUME NEW d \in Clients, d # c PROVE ClientFits(d)'
  <2>1. /\ asked'[d] = asked[d] /\ client'[d] = client[d] /\ reply'[d] = reply[d]
        /\ out'[d] = out[d] /\ answer'[d] = answer[d] /\ during'[d] = during[d]
    BY <1>1, <1>2, <1>4 DEF Return, KuboInv, KuboTypes
  <2> QED BY <1>2, <2>1, Bystander DEF KuboInv, ClientFits
<1>5. ClientFits(c)'
  <2>1. asked'[c] = r /\ reply[c] = Silence /\ client'[c] \in {"waiting", "done"}
    BY <1>1, <1>2 DEF Return, KuboInv, KuboTypes, ClientFits
  <2>2. CASE Return(c, Error("cid")) /\ UNCHANGED <<reply, during>>
    <3>1. answer'[c] = Error("cid") /\ client'[c] = "done" /\ reply'[c] = Silence
      BY <2>1, <2>2 DEF Return, KuboInv, KuboTypes
    <3>2. TrueAnswer(c)'
      BY <3>1 DEF TrueAnswer, Error
    <3> QED BY <2>1, <3>1, <3>2 DEF ClientFits, Silence, Pending
  <2>3. CASE client'[c] = "waiting" /\ reply'[c] = Pending /\ during'[c] = {pins}
    <3>1. out[c] = <<>>
      BY <1>2 DEF KuboInv, ClientFits
    <3>2. ReplyFits(c)'
      BY <2>3 DEF ReplyFits, Pending
    <3> QED BY <1>2, <2>1, <2>3, <3>1, <3>2 DEF ClientFits
  <2> QED BY <1>1, <2>2, <2>3 DEF KuboInv, KuboTypes
<1> QED BY <1>3, <1>4, <1>5 DEF KuboInv

\* Whoever asked for it, what the daemon does is pinned at a moment of every
\* call that is waited for.
LEMMA ServeOthers ==
  ASSUME KuboInv, NEW c \in Clients, NEW y, Reply(c, y), pins' \subseteq Contents,
         UNCHANGED <<asked, client, out, answer>>
  PROVE  /\ KuboTypes'
         /\ \A d \in Clients : d # c => ClientFits(d)'
         /\ reply'[c] = y
         /\ \A d \in Clients : during[d] \subseteq during'[d]
         /\ \A d \in Clients : client[d] = "waiting" => pins' \in during'[d]
         /\ \A d \in Clients : client[d] # "waiting" => during'[d] = during[d]
<1>1. /\ reply' = [reply EXCEPT ![c] = y]
      /\ during' = [d \in Clients |-> IF client[d] = "waiting" THEN during[d] \union {pins'}
                                                              ELSE during[d]]
  BY DEF Reply
<1>2. KuboTypes
  BY DEF KuboInv
<1>3. reply'[c] = y /\ \A d \in Clients : d # c => reply'[d] = reply[d]
  BY <1>1, <1>2 DEF KuboTypes
<1>4. \A d \in Clients :
         /\ during[d] \subseteq during'[d]
         /\ client[d] = "waiting" => pins' \in during'[d]
         /\ client[d] # "waiting" => during'[d] = during[d]
  BY <1>1
<1>5. during' \in [Clients -> SUBSET SUBSET Contents]
  BY <1>1, <1>2 DEF KuboTypes
<1>6. KuboTypes'
  <2>1. reply' = [d \in Clients |-> reply'[d]]
    BY <1>1, <1>2 DEF KuboTypes
  <2> QED BY <1>2, <1>5, <2>1 DEF KuboTypes
<1>7. ASSUME NEW d \in Clients, d # c PROVE ClientFits(d)'
  <2>1. ClientFits(d)
    BY DEF KuboInv
  <2> QED BY <1>3, <1>4, <1>7, <2>1, Bystander
<1> QED BY <1>3, <1>4, <1>6, <1>7

\* An answer that comes to a client that has given up says nothing to it.
LEMMA ServeLate ==
  ASSUME KuboInv, NEW c \in Clients, reply[c] = Pending, client[c] # "waiting",
         NEW y, reply'[c] = y, y # Pending, during'[c] = during[c],
         UNCHANGED <<asked, client, out, answer>>
  PROVE  ClientFits(c)'
<1>1. ClientFits(c) /\ client[c] # "idle"
  BY DEF KuboInv, ClientFits, Pending, Silence
<1>2. ASSUME client[c] = "done" PROVE TrueAnswer(c)'
  <2>1. TrueAnswer(c) /\ Pending # Refusal
    BY <1>1, <1>2, ReplyKinds DEF ClientFits
  <2>2. ~(answer[c].kind = "api" /\ answer[c].message # NoText)
    BY <2>1 DEF TrueAnswer
  <2>3. asked'[c] = asked[c] /\ answer'[c] = answer[c] /\ during'[c] = during[c]
    OBVIOUS
  <2> QED BY <2>1, <2>2, <2>3 DEF TrueAnswer
<1>3. asked[c] \in Requests
  BY <1>1 DEF ClientFits
<1>4. /\ client'[c] = client[c] /\ asked'[c] = asked[c] /\ reply'[c] # Pending
  OBVIOUS
<1> QED BY <1>1, <1>2, <1>3, <1>4 DEF ClientFits

\* An answer that fits the call comes to a client that waits.
LEMMA ServeFits ==
  ASSUME KuboInv, NEW c \in Clients, reply[c] = Pending,
         NEW y, Reply(c, y), y # Pending, pins' \subseteq Contents,
         UNCHANGED <<asked, client, out, answer>>,
         client[c] = "waiting" => ReplyFits(c)'
  PROVE  KuboInv'
<1>1. /\ KuboTypes' /\ \A d \in Clients : d # c => ClientFits(d)'
      /\ reply'[c] = y
      /\ client[c] = "waiting" => pins' \in during'[c]
      /\ client[c] # "waiting" => during'[c] = during[c]
  BY ServeOthers
<1>2. CASE client[c] = "waiting"
  BY <1>1, <1>2 DEF ClientFits, KuboInv
<1>3. CASE client[c] # "waiting"
  <2>1. ClientFits(c)'
    BY <1>1, <1>3, ServeLate
  <2> QED BY <1>1, <2>1 DEF KuboInv
<1> QED BY <1>2, <1>3

\* What a client that waits has asked.
LEMMA AskedTypes ==
  ASSUME KuboInv, NEW c \in Clients, client[c] # "idle"
  PROVE  asked[c] \in Requests /\ pins \subseteq Contents
  BY DEF KuboInv, KuboTypes, ClientFits

LEMMA PendingIsAsked ==
  ASSUME KuboInv, NEW c \in Clients, reply[c] = Pending
  PROVE  client[c] # "idle" /\ out[c] = <<>>
  BY DEF KuboInv, ClientFits, Pending, Silence

LEMMA ServesRefusal ==
  ASSUME KuboInv, NEW c \in Clients, reply[c] = Pending, NEW y \in {Refusal, Garbled},
         Reply(c, y), pins' \subseteq Contents, UNCHANGED <<asked, client, out, answer>>
  PROVE  KuboInv'
<1>1. y # Pending
  BY ReplyKinds
<1>2. reply'[c] = y
  BY ServeOthers
<1>3. ReplyFits(c)'
  BY <1>2 DEF ReplyFits
<1> QED BY <1>1, <1>3, ServeFits

LEMMA ServesAdd ==
  ASSUME KuboInv, NEW c \in Clients, reply[c] = Pending, ServeAdd(c),
         UNCHANGED <<asked, client, out, answer>>
  PROVE  KuboInv'
<1>1. /\ asked[c].op = "add"
      /\ pins' = IF asked[c].onlyHash THEN pins ELSE pins \union {asked[c].of}
  BY DEF ServeAdd
<1>2. asked[c] \in Requests /\ pins \subseteq Contents
  BY AskedTypes, PendingIsAsked
<1>3. pins' \subseteq Contents
  BY <1>1, <1>2, RequestTypes
<1>4. CASE Reply(c, Garbled)
  BY <1>3, <1>4, ServesRefusal
<1>5. ASSUME NEW parses \in BOOLEAN,
             Reply(c, CidsReply({[of |-> asked[c].of, parses |-> parses]}))
      PROVE  KuboInv'
  <2> DEFINE y == CidsReply({[of |-> asked[c].of, parses |-> parses]})
  <2>1. y # Pending
    BY ReplyKinds
  <2>2. ASSUME client[c] = "waiting" PROVE ReplyFits(c)'
    <3>1. reply'[c] = y /\ pins' \in during'[c]
      BY <1>3, <1>5, <2>2, ServeOthers
    <3>2. asked[c].onlyHash \/ asked[c].of \in pins'
      BY <1>1
    <3> QED BY <1>1, <3>1, <3>2 DEF ReplyFits
  <2> HIDE DEF y
  <2>3. Reply(c, y)
    BY <1>5 DEF y
  <2> QED BY <1>3, <2>1, <2>2, <2>3, ServeFits
<1> QED BY <1>4, <1>5 DEF ServeAdd

LEMMA ServesRemoval ==
  ASSUME KuboInv, NEW c \in Clients, reply[c] = Pending, ServeRemoval(c),
         UNCHANGED <<asked, client, out, answer>>
  PROVE  KuboInv'
<1> DEFINE y == IF asked[c].cid.of \in pins THEN Done ELSE NotPinned
<1>1. asked[c].op = "pin_rm" /\ pins' = pins \ {asked[c].cid.of} /\ Reply(c, y)
  BY DEF ServeRemoval
<1>2. pins' \subseteq Contents
  BY <1>1 DEF KuboInv, KuboTypes
<1>3. y \in {Done, NotPinned} /\ y # Pending
  BY ReplyKinds
<1> HIDE DEF y
<1>4. ASSUME client[c] = "waiting" PROVE ReplyFits(c)'
  <2>1. reply'[c] = y /\ pins' \in during'[c]
    BY <1>1, <1>2, <1>4, ServeOthers
  <2> QED BY <1>1, <1>3, <2>1 DEF ReplyFits
<1> QED BY <1>1, <1>2, <1>3, <1>4, ServeFits

LEMMA ServesList ==
  ASSUME KuboInv, NEW c \in Clients, reply[c] = Pending, ServeList(c),
         UNCHANGED <<asked, client, out, answer>>
  PROVE  KuboInv'
<1>1. asked[c].op = "pin_ls" /\ pins' = pins /\ pins' \subseteq Contents
  BY DEF ServeList, KuboInv, KuboTypes
<1>2. CASE Reply(c, Garbled)
  BY <1>1, <1>2, ServesRefusal
<1>3. ASSUME NEW parses \in BOOLEAN,
             Reply(c, CidsReply({[of |-> p, parses |-> parses] : p \in pins}))
      PROVE  KuboInv'
  <2> DEFINE y == CidsReply({[of |-> p, parses |-> parses] : p \in pins})
  <2>1. y # Pending
    BY ReplyKinds
  <2>2. ASSUME client[c] = "waiting" PROVE ReplyFits(c)'
    <3>1. reply'[c] = y /\ pins \in during'[c]
      BY <1>1, <1>3, <2>2, ServeOthers
    <3> QED BY <1>1, <3>1 DEF ReplyFits
  <2> HIDE DEF y
  <2>3. Reply(c, y)
    BY <1>3 DEF y
  <2> QED BY <1>1, <2>1, <2>2, <2>3, ServeFits
<1> QED BY <1>2, <1>3 DEF ServeList

LEMMA ServesCat ==
  ASSUME KuboInv, NEW c \in Clients, reply[c] = Pending, ServeCat(c),
         UNCHANGED <<asked, client, out, answer>>
  PROVE  KuboInv'
<1> DEFINE content == asked[c].cid.of
           max == asked[c].max
           n == Smaller(max + 1, Len(content))
           left == SubSeq(content, 1, n)
<1>1. asked[c].op = "cat" /\ pins' = pins /\ pins' \subseteq Contents
  BY DEF ServeCat, KuboInv, KuboTypes
<1>2. /\ content \in Seq(0..255) /\ Len(content) \in Nat /\ max \in Nat
      /\ out[c] = <<>>
  BY <1>1, AskedTypes, PendingIsAsked, RequestTypes
<1>3. Reply(c, BodyReply(left))
  BY DEF ServeCat, Length, Smaller
<1>4. n \in Nat /\ n <= Len(content) /\ n = Smaller(max + 1, Len(content))
  BY <1>2 DEF Smaller
<1> HIDE DEF n
<1>5. left \in Seq(0..255) /\ Len(left) = n /\ \A i \in 1..n : left[i] = content[i]
  <2> HIDE DEF content
  <2>1. \A i \in 1..n : content[i] \in 0..255
    <3>1. \A i \in 1..n : i \in 1..Len(content)
      BY <1>2, <1>4
    <3> QED BY <1>2, <3>1, ElementOfSeq
  <2> QED BY <1>4, <2>1, SubSeqProperties
<1> HIDE DEF left
<1>6. BodyReply(left) # Pending
  BY ReplyKinds
<1>7. ASSUME client[c] = "waiting" PROVE ReplyFits(c)'
  <2>1. reply'[c] = BodyReply(left) /\ reply'[c].left = left
    <3>1. reply'[c] = BodyReply(left)
      BY <1>1, <1>3, ServeOthers
    <3> QED BY <3>1, ReplyKinds
  <2>2. Len(<<>>) = 0
    OBVIOUS
  <2> DEFINE kept == <<>>
  <2>3. /\ out'[c] = kept /\ Len(kept) = 0
        /\ asked'[c].cid.of = content /\ asked'[c].max = max
    BY <1>2, <2>2
  <2> HIDE DEF kept, content, max
  <2>4. Reading(c)'
    BY <1>2, <1>4, <1>5, <2>1, <2>3 DEF Reading
  <2> QED BY <1>1, <2>4 DEF ReplyFits
<1> QED BY <1>1, <1>3, <1>6, <1>7, ServeFits

LEMMA DaemonServes == ASSUME KuboInv, NEW c \in Clients, Serve(c) PROVE KuboInv'
<1>1. reply[c] = Pending /\ UNCHANGED <<asked, client, out, answer>>
  BY DEF Serve
<1>2. CASE pins' = pins /\ Reply(c, Refusal)
  <2>1. pins' \subseteq Contents
    BY <1>2 DEF KuboInv, KuboTypes
  <2> QED BY <1>1, <1>2, <2>1, ServesRefusal
<1> QED BY <1>1, <1>2, ServesAdd, ServesRemoval, ServesList, ServesCat DEF Serve

\* What the parts of a body that is being read are.
LEMMA ReadingTypes ==
  ASSUME KuboInv, NEW c \in Clients, client[c] = "waiting", reply[c].kind = "body"
  PROVE  /\ Reading(c) /\ asked[c] \in Requests /\ asked[c].op = "cat"
         /\ out[c] \in Seq(0..255) /\ Len(out[c]) \in Nat
         /\ reply[c].left \in Seq(0..255) /\ Len(reply[c].left) \in Nat
         /\ asked[c].max \in Nat
         /\ asked[c].cid.of \in Seq(0..255) /\ Len(asked[c].cid.of) \in Nat
<1>1. ReplyFits(c) /\ out[c] \in Seq(0..255) /\ asked[c] \in Requests
  BY AskedTypes DEF KuboInv, KuboTypes, ClientFits
<1>2. Reading(c) /\ asked[c].op = "cat"
  BY <1>1, ReplyKinds DEF ReplyFits
<1>3. reply[c].left \in Seq(0..255)
  BY <1>2 DEF Reading
<1> QED BY <1>1, <1>2, <1>3, RequestTypes, LenProperties

\* A client that goes on, or returns what is true, leaves the others as they are.
LEMMA ClientSteps ==
  ASSUME KuboInv, NEW c \in Clients, KuboTypes', ClientFits(c)',
         \A d \in Clients : d # c => client'[d] = client[d] /\ answer'[d] = answer[d]
                                     /\ reply'[d] = reply[d] /\ out'[d] = out[d],
         UNCHANGED <<pins, asked, during>>
  PROVE  KuboInv'
<1>1. ASSUME NEW d \in Clients, d # c PROVE ClientFits(d)'
  <2>1. ClientFits(d)
    BY DEF KuboInv
  <2> QED BY <1>1, <2>1, Bystander DEF ClientFits
<1> QED BY <1>1 DEF KuboInv

LEMMA CallReturns ==
  ASSUME KuboInv, NEW c \in Clients, client[c] = "waiting", NEW a, Return(c, a),
         UNCHANGED <<pins, asked, reply, out, during>>,
         answer'[c] = a => TrueAnswer(c)'
  PROVE  KuboInv'
<1>1. /\ client'[c] = "done" /\ answer'[c] = a
      /\ \A d \in Clients : d # c => client'[d] = client[d] /\ answer'[d] = answer[d]
      /\ client' \in [Clients -> {"idle", "waiting", "done"}]
      /\ answer' = [d \in Clients |-> answer'[d]]
  BY DEF Return, KuboInv, KuboTypes
<1>2. KuboTypes'
  BY <1>1 DEF KuboInv, KuboTypes
<1>3. ClientFits(c)'
  <2>1. asked[c] \in Requests
    BY AskedTypes
  <2>2. reply[c] = Pending => out[c] = <<>>
    BY PendingIsAsked
  <2> QED BY <1>1, <2>1, <2>2 DEF ClientFits
<1> QED BY <1>1, <1>2, <1>3, ClientSteps

\* An error with no text, or with the one the daemon gave, claims nothing else.
LEMMA Failing ==
  ASSUME NEW c \in Clients,
         \/ answer'[c].kind \in {"http", "parse", "cid"}
         \/ answer'[c].kind = "api" /\ (answer'[c].message = NoText \/ reply'[c] = Refusal)
  PROVE  TrueAnswer(c)'
  BY DEF TrueAnswer

LEMMA AnswerKinds ==
  /\ \A k : Error(k).kind = k
  /\ \A v : Ok(v).kind = "ok" /\ Ok(v).value = v
  /\ \A m : Api(m).kind = "api" /\ Api(m).message = m
  BY DEF Error, Ok, Api

LEMMA Breaks == ASSUME KuboInv, NEW c \in Clients, Break(c) PROVE KuboInv'
<1>1. client[c] = "waiting" /\ UNCHANGED <<pins, asked, reply, out, during>>
  BY DEF Break
<1>2. NoText # "not pinned"
  BY Zenon DEF NoText
<1>3. ErrorOf(asked[c].op, NoText) = Api(NoText)
  BY <1>2 DEF ErrorOf
<1>4. PICK a \in {Error("http"), Api(NoText)} : Return(c, a)
  BY <1>3 DEF Break
<1>5. a.kind = "http" \/ (a.kind = "api" /\ a.message = NoText)
  <2>1. CASE a = Error("http")
    BY <2>1, AnswerKinds
  <2>2. CASE a = Api(NoText)
    BY <2>2, AnswerKinds
  <2> QED BY <1>4, <2>1, <2>2
<1>6. answer'[c] = a => TrueAnswer(c)'
  BY <1>5, Failing
<1> QED BY <1>1, <1>4, <1>6, CallReturns

\* What was read is the whole content when nothing is left of it.
LEMMA WholeContent ==
  ASSUME KuboInv, NEW c \in Clients, client[c] = "waiting", reply[c].kind = "body",
         reply[c].left = <<>>
  PROVE  out[c] = asked[c].cid.of /\ Len(asked[c].cid.of) <= asked[c].max
<1> DEFINE content == asked[c].cid.of
           max == asked[c].max
           kept == out[c]
<1>1. /\ kept \in Seq(0..255) /\ Len(kept) \in Nat /\ max \in Nat
      /\ content \in Seq(0..255) /\ Len(content) \in Nat /\ Reading(c)
  BY ReadingTypes
<1>2. Len(reply[c].left) = 0
  OBVIOUS
<1>3. /\ Len(kept) <= max /\ Len(kept) = Smaller(max + 1, Len(content))
      /\ \A i \in 1..Len(kept) : kept[i] = content[i]
  <2>1. /\ Len(kept) <= max /\ Len(kept) + Len(reply[c].left) = Smaller(max + 1, Len(content))
        /\ \A i \in 1..Len(kept) : kept[i] = content[i]
    BY <1>1 DEF Reading
  <2> QED BY <1>1, <1>2, <2>1
<1> HIDE DEF content, max, kept
<1>4. Len(kept) = Len(content)
  BY <1>1, <1>3 DEF Smaller
<1>5. kept = content
  BY <1>1, <1>3, <1>4, SeqEqual
<1> QED BY <1>3, <1>4, <1>5 DEF content, max, kept

LEMMA Finishes == ASSUME KuboInv, NEW c \in Clients, Finish(c) PROVE KuboInv'
<1>1. client[c] = "waiting" /\ UNCHANGED <<pins, asked, reply, out, during>>
  BY DEF Finish
<1>2. ReplyFits(c) /\ asked[c] \in Requests
  BY <1>1, AskedTypes DEF KuboInv, ClientFits
<1>3. /\ asked'[c] = asked[c] /\ reply'[c] = reply[c] /\ during'[c] = during[c]
  BY <1>1
<1>4. CASE reply[c].kind = "error" /\ Return(c, ErrorOf(asked[c].op, reply[c].message))
  <2>1. CASE reply[c] = Refusal
    <3>1. ErrorOf(asked[c].op, reply[c].message) = Api("refused")
      BY <2>1, ReplyKinds DEF ErrorOf
    <3> DEFINE a == Api("refused")
    <3>2. a.kind = "api"
      BY AnswerKinds
    <3> HIDE DEF a
    <3>3. Return(c, a)
      BY <1>4, <3>1 DEF a
    <3>4. answer'[c] = a => TrueAnswer(c)'
      BY <1>3, <2>1, <3>2, Failing
    <3> QED BY <1>1, <3>3, <3>4, CallReturns
  <2>2. CASE reply[c] # Refusal
    <3>1. /\ asked[c].op = "pin_rm" /\ reply[c] = NotPinned
          /\ \E P \in during[c] : asked[c].cid.of \notin P
      BY <1>2, <1>4, <2>2, ReplyKinds DEF ReplyFits, Reading
    <3>2. Return(c, Ok({}))
      BY <1>4, <3>1, ReplyKinds DEF ErrorOf
    <3>3. answer'[c] = Ok({}) => TrueAnswer(c)'
      <4> SUFFICES ASSUME answer'[c].kind = "ok" PROVE TrueAnswer(c)'
        BY AnswerKinds
      <4> QED BY <1>3, <3>1 DEF TrueAnswer
    <3> QED BY <1>1, <3>2, <3>3, CallReturns
  <2> QED BY <2>1, <2>2
<1>5. CASE reply[c].kind = "done" /\ Return(c, Ok({}))
  <2>1. asked[c].op = "pin_rm" /\ \E P \in during[c] : asked[c].cid.of \notin P
    BY <1>2, <1>5, ReplyKinds DEF ReplyFits, Reading
  <2>2. answer'[c] = Ok({}) => TrueAnswer(c)'
    <3> SUFFICES ASSUME answer'[c].kind = "ok" PROVE TrueAnswer(c)'
      BY AnswerKinds
    <3> QED BY <1>3, <2>1 DEF TrueAnswer
  <2> QED BY <1>1, <1>5, <2>2, CallReturns
<1>6. CASE \E k \in {"parse", "cid"} : Return(c, Error(k))
  <2>1. PICK k \in {"parse", "cid"} : Return(c, Error(k))
    BY <1>6
  <2>2. answer'[c] = Error(k) => TrueAnswer(c)'
    BY <2>1, AnswerKinds, Failing
  <2> QED BY <1>1, <2>1, <2>2, CallReturns
<1>7. CASE /\ reply[c].kind = "cids" /\ \A cid \in reply[c].cids : cid.parses
           /\ Return(c, Ok(UNION {CanonicalCid(cid) : cid \in reply[c].cids}))
  <2> DEFINE cids == reply[c].cids
             all == UNION {CanonicalCid(cid) : cid \in cids}
  <2>1. CASE asked[c].op = "add"
    <3>1. PICK parses \in BOOLEAN : reply[c] = CidsReply({[of |-> asked[c].of, parses |-> parses]})
      BY <1>2, <1>7, <2>1, ReplyKinds DEF ReplyFits, Reading
    <3>2. cids = {[of |-> asked[c].of, parses |-> parses]}
      BY <3>1, ReplyKinds
    <3>3. parses = TRUE
      BY <1>7, <3>2
    <3>4. all = {asked[c].of}
      BY <3>2, <3>3 DEF CanonicalCid
    <3>5. asked[c].onlyHash \/ \E P \in during[c] : asked[c].of \in P
      BY <1>2, <1>7, <2>1, ReplyKinds DEF ReplyFits, Reading
    <3> HIDE DEF cids, all
    <3>6. answer'[c] = Ok(all) => TrueAnswer(c)'
      <4> SUFFICES ASSUME answer'[c].kind = "ok", answer'[c].value = all PROVE TrueAnswer(c)'
        BY AnswerKinds
      <4> QED BY <1>3, <2>1, <3>4, <3>5 DEF TrueAnswer
    <3>7. Return(c, Ok(all))
      BY <1>7 DEF all, cids
    <3> QED BY <1>1, <3>6, <3>7, CallReturns
  <2>2. CASE asked[c].op # "add"
    <3>1. /\ asked[c].op = "pin_ls"
          /\ \E P \in during[c], parses \in BOOLEAN :
                 reply[c] = CidsReply({[of |-> p, parses |-> parses] : p \in P})
      BY <1>2, <1>7, <2>2, ReplyKinds DEF ReplyFits, Reading
    <3>2. PICK P \in during[c], parses \in BOOLEAN :
              reply[c] = CidsReply({[of |-> p, parses |-> parses] : p \in P})
      BY <3>1
    <3>3. cids = {[of |-> p, parses |-> parses] : p \in P}
      BY <3>2, ReplyKinds
    <3>4. all = P
      <4>1. \A p \in P : [of |-> p, parses |-> parses] \in cids
        BY <3>3
      <4>2. \A p \in P : parses = TRUE
        BY <1>7, <4>1
      <4>3. \A p \in P : CanonicalCid([of |-> p, parses |-> parses]) = {p}
        BY <4>2 DEF CanonicalCid
      <4>4. \A cid \in cids : \E p \in P : CanonicalCid(cid) = {p}
        BY <3>3, <4>3
      <4> HIDE DEF cids
      <4>5. \A p \in P : \E cid \in cids : p \in CanonicalCid(cid)
        BY <4>1, <4>3
      <4>6. \A cid \in cids : CanonicalCid(cid) \subseteq P
        BY <4>4
      <4> QED BY <4>5, <4>6
    <3> HIDE DEF cids, all
    <3>5. answer'[c] = Ok(all) => TrueAnswer(c)'
      <4> SUFFICES ASSUME answer'[c].kind = "ok", answer'[c].value = all PROVE TrueAnswer(c)'
        BY AnswerKinds
      <4> QED BY <1>3, <3>1, <3>4 DEF TrueAnswer
    <3>6. Return(c, Ok(all))
      BY <1>7 DEF all, cids
    <3> QED BY <1>1, <3>5, <3>6, CallReturns
  <2> QED BY <2>1, <2>2
<1>8. CASE reply[c].kind = "body" /\ reply[c].left = <<>> /\ Return(c, Ok(out[c]))
  <2>1. /\ asked[c].op = "cat" /\ out[c] = asked[c].cid.of
        /\ Len(asked[c].cid.of) <= asked[c].max
    BY <1>1, <1>8, ReadingTypes, WholeContent
  <2>2. answer'[c] = Ok(out[c]) => TrueAnswer(c)'
    <3> SUFFICES ASSUME answer'[c].kind = "ok", answer'[c].value = out[c] PROVE TrueAnswer(c)'
      BY AnswerKinds
    <3> QED BY <1>3, <2>1 DEF TrueAnswer
  <2> QED BY <1>1, <1>8, <2>2, CallReturns
<1> QED BY <1>4, <1>5, <1>6, <1>7, <1>8 DEF Finish

\* More than max arrived of what is at most max + 1 of a content: it is longer.
LEMMA PastTheLimit ==
  ASSUME NEW kept \in Nat, NEW left \in Nat, NEW max \in Nat, NEW size \in Nat,
         NEW n \in 1..left, kept + left = Smaller(max + 1, size), kept + n > max
  PROVE  size > max
  BY DEF Smaller

LEMMA Chunks == ASSUME KuboInv, NEW c \in Clients, Chunk(c) PROVE KuboInv'
<1> DEFINE content == asked[c].cid.of
           max == asked[c].max
           kept == out[c]
           left == reply[c].left
<1>1. /\ client[c] = "waiting" /\ reply[c].kind = "body"
      /\ UNCHANGED <<pins, asked, during>>
  BY DEF Chunk
<1>2. /\ Reading(c) /\ asked[c].op = "cat" /\ asked[c] \in Requests
      /\ max \in Nat /\ kept \in Seq(0..255) /\ left \in Seq(0..255)
      /\ Len(kept) \in Nat /\ Len(left) \in Nat /\ Len(content) \in Nat
  BY <1>1, ReadingTypes
<1>3. /\ Len(kept) + Len(left) = Smaller(max + 1, Len(content))
      /\ \A i \in 1..Len(kept) : kept[i] = content[i]
      /\ \A i \in 1..Len(left) : left[i] = content[Len(kept) + i]
  BY <1>2 DEF Reading
<1>4. ASSUME NEW n \in 1..Len(left), Len(kept) + n > max,
             Return(c, Error("too large")), UNCHANGED <<reply, out>>
      PROVE  KuboInv'
  <2>1. Len(content) > max
    <3> HIDE DEF content, max, kept, left
    <3> QED BY <1>2, <1>3, <1>4, PastTheLimit
  <2>2. answer'[c] = Error("too large") => TrueAnswer(c)'
    <3> SUFFICES ASSUME answer'[c].kind = "too large" PROVE TrueAnswer(c)'
      BY AnswerKinds
    <3> QED BY <1>1, <1>2, <2>1 DEF TrueAnswer
  <2> QED BY <1>1, <1>4, <2>2, CallReturns
<1>5. ASSUME NEW n \in 1..Len(left), Len(kept) + n <= max,
             out' = [out EXCEPT ![c] = kept \o SubSeq(left, 1, n)],
             reply' = [reply EXCEPT ![c] = BodyReply(SubSeq(left, n + 1, Len(left)))],
             UNCHANGED <<client, answer>>
      PROVE  KuboInv'
  <2> DEFINE got == SubSeq(left, 1, n)
             rest == SubSeq(left, n + 1, Len(left))
             all == kept \o got
             Byte == 0..255
  <2> HIDE DEF content, max, kept, left, Byte
  <2>1. /\ got \in Seq(Byte) /\ Len(got) = n /\ \A i \in 1..n : got[i] = left[i]
        /\ rest \in Seq(Byte) /\ Len(rest) = Len(left) - n
        /\ \A i \in 1..(Len(left) - n) : rest[i] = left[n + i]
    <3>1. left \in Seq(Byte)
      BY <1>2 DEF Byte
    <3> QED BY <1>5, <3>1, CutInTwo
  <2> HIDE DEF got, rest
  <2>2. /\ all \in Seq(Byte) /\ Len(all) = Len(kept) + n
        /\ \A i \in 1..(Len(kept) + n) :
               all[i] = IF i <= Len(kept) THEN kept[i] ELSE got[i - Len(kept)]
    <3>1. kept \in Seq(Byte) /\ got \in Seq(Byte) /\ Len(got) = n
      BY <1>2, <2>1 DEF Byte
    <3>2. /\ all \in Seq(Byte) /\ Len(all) = Len(kept) + Len(got)
          /\ \A i \in 1..(Len(kept) + Len(got)) :
                 all[i] = IF i <= Len(kept) THEN kept[i] ELSE got[i - Len(kept)]
      BY <3>1, ConcatProperties, Zenon
    <3> HIDE DEF all
    <3> QED BY <3>1, <3>2
  <2> HIDE DEF all
  <2>3. \A i \in 1..Len(all) : all[i] = content[i]
    <3> SUFFICES ASSUME NEW i \in 1..(Len(kept) + n) PROVE all[i] = content[i]
      BY <2>2
    <3>1. CASE i <= Len(kept)
      BY <1>2, <1>3, <1>5, <2>2, <3>1
    <3>2. CASE ~(i <= Len(kept))
      <4>1. i - Len(kept) \in 1..n /\ Len(kept) + (i - Len(kept)) = i
        BY <1>2, <1>5, <3>2
      <4>2. all[i] = got[i - Len(kept)]
        BY <2>2, <3>2
      <4>3. got[i - Len(kept)] = left[i - Len(kept)]
        BY <2>1, <4>1
      <4>4. i - Len(kept) \in 1..Len(left)
        BY <1>2, <1>5, <4>1
      <4> QED BY <1>3, <4>1, <4>2, <4>3, <4>4
    <3> QED BY <3>1, <3>2
  <2>4. \A i \in 1..Len(rest) : rest[i] = content[Len(all) + i]
    <3> SUFFICES ASSUME NEW i \in 1..(Len(left) - n) PROVE rest[i] = content[Len(kept) + n + i]
      BY <2>1, <2>2
    <3>1. n + i \in 1..Len(left) /\ Len(kept) + (n + i) = Len(kept) + n + i
      BY <1>2, <1>5
    <3> QED BY <1>3, <2>1, <3>1
  <2>5. Len(all) <= max /\ Len(all) + Len(rest) = Smaller(max + 1, Len(content))
    BY <1>2, <1>3, <1>5, <2>1, <2>2
  <2>6. /\ out'[c] = all /\ reply'[c] = BodyReply(rest)
        /\ \A d \in Clients : d # c => out'[d] = out[d] /\ reply'[d] = reply[d]
    BY <1>5 DEF KuboInv, KuboTypes, all, got, rest, kept
  <2>7. reply'[c].left = rest /\ reply'[c].kind = "body"
    BY <2>6, ReplyKinds
  <2>8. asked'[c].cid.of = content /\ asked'[c].max = max /\ asked'[c].op = "cat"
    BY <1>1, <1>2 DEF content, max
  <2>9. Reading(c)'
    BY <2>1, <2>2, <2>3, <2>4, <2>5, <2>6, <2>7, <2>8 DEF Reading, Byte
  <2>10. KuboTypes'
    <3>1. KuboTypes
      BY DEF KuboInv
    <3>2. all \in Seq(0..255)
      BY <2>2 DEF Byte
    <3>3. /\ out' \in [Clients -> Seq(0..255)]
          /\ reply' = [d \in Clients |-> reply'[d]]
      BY <1>5, <3>1, <3>2 DEF KuboTypes, all, got, kept
    <3> QED BY <1>1, <1>5, <3>1, <3>3 DEF KuboTypes
  <2>11. ClientFits(c)'
    <3>1. ReplyFits(c)'
      BY <2>8, <2>9 DEF ReplyFits
    <3>2. pins \in during[c]
      BY <1>1 DEF KuboInv, ClientFits
    <3>3. reply'[c] # Pending
      BY <2>7, ReplyKinds
    <3> QED BY <1>1, <1>2, <1>5, <3>1, <3>2, <3>3 DEF ClientFits
  <2> QED BY <1>1, <1>5, <2>6, <2>10, <2>11, ClientSteps
<1> QED BY <1>1, <1>4, <1>5 DEF Chunk

LEMMA KuboStays == KuboInv /\ [KuboNext]_kuboVars => KuboInv'
<1>1. ASSUME KuboInv, UNCHANGED kuboVars PROVE KuboInv'
  <2>1. KuboTypes'
    BY <1>1 DEF KuboInv, KuboTypes, kuboVars
  <2>2. ASSUME NEW d \in Clients PROVE ClientFits(d)'
    <3>1. ClientFits(d)
      BY <1>1 DEF KuboInv
    <3> QED BY <1>1, <3>1, Bystander DEF kuboVars, ClientFits
  <2> QED BY <2>1, <2>2 DEF KuboInv
<1>2. ASSUME KuboInv, KuboNext PROVE KuboInv'
  BY <1>2, Begins, DaemonServes, Chunks, Finishes, Breaks DEF KuboNext
<1> QED BY <1>1, <1>2

(* ipfs.rs add, pin_rm, pin_ls and cat: whatever the calls of other tasks, *)
(* the daemon's late deeds for calls given up, the contents, the limits    *)
(* and the cuts of a body, what a method returns was so during its call.   *)
THEOREM AnswersAreAlwaysTrue == KuboSpec => []AnswersAreTrue
<1>1. KuboInit => KuboInv
  <2> SUFFICES ASSUME KuboInit PROVE KuboInv
    OBVIOUS
  <2>1. KuboTypes
    BY DEF KuboInit, KuboTypes
  <2>2. \A c \in Clients : ClientFits(c)
    BY DEF KuboInit, ClientFits, Silence, Pending
  <2> QED BY <2>1, <2>2 DEF KuboInv
<1>2. KuboInv => AnswersAreTrue
  BY DEF KuboInv, ClientFits, AnswersAreTrue
<1> QED BY <1>1, <1>2, KuboStays, PTL DEF KuboSpec

-----------------------------------------------------------------------------
(* Engine: who waits alone does so at a worker that lives, which is free   *)
(* when its time comes.                                                    *)

Solving == [at : {"waiting", "ok", "timeout", "syntax"}, on : 1..Len(workers), since : Nat,
            due : Nat, takes : Nat, alone : BOOLEAN]

EngineTypeOK ==
    /\ clock \in Nat
    /\ worker \in 0..Len(workers)
    /\ workers \in Seq([alive : BOOLEAN, failed : BOOLEAN, free : Nat])
    /\ solves \in [Calls -> {Idle, [at |-> "refused"]} \union Solving]

\* The current worker was not terminated, and unless it failed it is free by
\* now or as soon as it is done with a call that still waits.
CurrentWorker ==
    worker # 0 =>
        /\ workers[worker].alive
        /\ \/ workers[worker].failed
           \/ workers[worker].free <= clock
           \/ \E c \in Waiting : solves[c].on = worker /\ solves[c].due = workers[worker].free

\* A call that waits alone does so at a worker that lives, from the moment it
\* was posted, and the clock does not pass its answer.
AloneWaits ==
    \A c \in Waiting : solves[c].alone =>
        /\ Waiting = {c}
        /\ workers[solves[c].on].alive
        /\ \/ workers[solves[c].on].failed
           \/ solves[c].due = solves[c].since + solves[c].takes /\ clock <= solves[c].due

EngineInv == EngineTypeOK /\ CurrentWorker /\ AloneWaits /\ AloneIsAnswered

LEMMA EngineStarts == EngineInit => EngineInv
<1> SUFFICES ASSUME EngineInit PROVE EngineInv
  OBVIOUS
<1>1. EngineTypeOK
  BY DEF EngineInit, EngineTypeOK
<1> QED BY <1>1 DEF EngineInit, EngineInv, CurrentWorker, AloneWaits, AloneIsAnswered, Waiting, Idle

Workers == [alive : BOOLEAN, failed : BOOLEAN, free : Nat]

LEMMA WorkerTypes ==
  EngineTypeOK => \A w \in 1..Len(workers) : workers[w] \in Workers
  BY ElementOfSeq DEF EngineTypeOK, Workers

\* What is known of a call by how far it is.
LEMMA SolveTypes ==
  EngineTypeOK => \A c \in Calls :
      /\ solves[c].at \notin {"idle", "refused"} => solves[c] \in Solving
      /\ c \in Waiting <=> solves[c].at = "waiting"
  BY DEF EngineTypeOK, Idle, Solving, Waiting

LEMMA Answers ==
  ASSUME EngineInv, NEW c \in Calls, Answered(c)
  PROVE  EngineInv'
<1>0. /\ EngineTypeOK /\ solves[c] \in Solving /\ solves[c].at = "waiting"
      /\ solves[c].due <= clock /\ UNCHANGED <<clock, worker, workers>>
  BY SolveTypes DEF EngineInv, Answered, Answerable
<1>1. solves' = [solves EXCEPT ![c] = [solves[c] EXCEPT !.at = "ok"]]
  BY DEF Answered, Settled
<1>2. /\ solves'[c] \in Solving /\ solves'[c].at = "ok"
      /\ \A d \in Calls \ {c} : solves'[d] = solves[d]
  BY <1>0, <1>1 DEF EngineTypeOK, Solving
<1>3. EngineTypeOK'
  BY <1>0, <1>1, <1>2 DEF EngineTypeOK, Solving, Idle
<1>4. Waiting' = Waiting \ {c}
  BY <1>2 DEF Waiting
<1>5. CurrentWorker'
  <2> SUFFICES ASSUME worker # 0
               PROVE  /\ workers[worker].alive
                      /\ \/ workers[worker].failed
                         \/ workers[worker].free <= clock
                         \/ \E d \in Waiting' : /\ solves'[d].on = worker
                                                /\ solves'[d].due = workers[worker].free
    BY <1>0 DEF CurrentWorker
  <2>1. \A d \in Waiting \ {c} : d \in Waiting' /\ solves'[d] = solves[d]
    BY <1>2, <1>4 DEF Waiting
  <2> QED BY <1>0, <2>1 DEF EngineInv, CurrentWorker
<1>6. AloneWaits'
  BY <1>0, <1>2, <1>4 DEF EngineInv, AloneWaits, Waiting
<1>7. AloneIsAnswered'
  BY <1>0, <1>2 DEF EngineInv, AloneIsAnswered
<1> QED BY <1>3, <1>5, <1>6, <1>7 DEF EngineInv

LEMMA TimeOuts ==
  ASSUME EngineInv, NEW c \in Calls, TimesOut(c)
  PROVE  EngineInv'
<1>0. /\ EngineTypeOK /\ solves[c] \in Solving /\ solves[c].at = "waiting"
      /\ clock >= solves[c].since + Timeout /\ clock' = clock /\ worker' = 0
      /\ c \in Waiting /\ Timeout \in Nat
  BY SolveTypes, EngineAssumption DEF EngineInv, TimesOut, Overdue, Reset
<1>1. solves' = [solves EXCEPT ![c] = [solves[c] EXCEPT !.at = "timeout"]]
  BY DEF TimesOut, Settled
<1>2. /\ solves'[c] \in Solving /\ solves'[c].at = "timeout"
      /\ solves'[c].on = solves[c].on /\ solves'[c].takes = solves[c].takes
      /\ solves'[c].alone = solves[c].alone
      /\ \A d \in Calls \ {c} : solves'[d] = solves[d]
  BY <1>0, <1>1 DEF EngineTypeOK, Solving
<1>3. /\ workers' \in Seq([alive : BOOLEAN, failed : BOOLEAN, free : Nat])
      /\ Len(workers') = Len(workers)
      /\ \A w \in 1..Len(workers) : workers'[w].failed = workers[w].failed
  <2>1. CASE worker = 0
    BY <1>0, <2>1 DEF TimesOut, Reset, EngineTypeOK
  <2>2. CASE worker # 0
    <3>1. worker \in 1..Len(workers)
      BY <1>0, <2>2 DEF EngineTypeOK
    <3>2. workers' = [workers EXCEPT ![worker] = [workers[worker] EXCEPT !.alive = FALSE]]
      BY <2>2 DEF TimesOut, Reset
    <3>3. workers[worker] \in Workers
      BY <1>0, <3>1, WorkerTypes
    <3>4. /\ [workers[worker] EXCEPT !.alive = FALSE] \in Workers
          /\ [workers[worker] EXCEPT !.alive = FALSE].failed = workers[worker].failed
      BY <3>3 DEF Workers
    <3> QED BY <1>0, <3>1, <3>2, <3>4, ExceptSeq DEF EngineTypeOK, Workers
  <2> QED BY <2>1, <2>2
<1>4. EngineTypeOK'
  BY <1>0, <1>1, <1>2, <1>3 DEF EngineTypeOK, Solving, Idle
<1>5. Waiting' = Waiting \ {c}
  BY <1>2 DEF Waiting
<1>6. CurrentWorker'
  BY <1>0 DEF CurrentWorker
<1>7. AloneWaits'
  <2> SUFFICES ASSUME NEW d \in Waiting \ {c}, solves'[d].alone PROVE FALSE
    BY <1>5 DEF AloneWaits
  <2>1. d \in Calls /\ solves[d].alone
    BY <1>2 DEF Waiting
  <2> QED BY <1>0, <2>1 DEF EngineInv, AloneWaits
<1>8. ~solves[c].alone \/ solves[c].takes >= Timeout \/ workers[solves[c].on].failed
  <2> SUFFICES ASSUME solves[c].alone, ~(workers[solves[c].on].failed)
               PROVE  solves[c].takes >= Timeout
    OBVIOUS
  <2>1. solves[c].due = solves[c].since + solves[c].takes /\ clock <= solves[c].due
    BY <1>0 DEF EngineInv, AloneWaits
  <2>2. solves[c].since \in Nat /\ solves[c].takes \in Nat /\ clock \in Nat
    BY <1>0 DEF Solving, EngineTypeOK
  <2> QED BY <1>0, <2>1, <2>2
<1>9. AloneIsAnswered'
  <2> SUFFICES ASSUME NEW d \in Calls, solves'[d].at = "timeout"
               PROVE  \/ ~solves'[d].alone \/ solves'[d].takes >= Timeout
                      \/ workers'[solves'[d].on].failed
    BY DEF AloneIsAnswered
  <2>1. CASE d = c
    BY <1>0, <1>2, <1>3, <1>8, <2>1 DEF Solving
  <2>2. CASE d # c
    <3>1. solves'[d] = solves[d] /\ solves[d] \in Solving
      BY <1>0, <1>2, <2>2, SolveTypes
    <3> QED BY <1>3, <3>1 DEF EngineInv, AloneIsAnswered, Solving
  <2> QED BY <2>1, <2>2
<1> QED BY <1>4, <1>6, <1>7, <1>9 DEF EngineInv

LEMMA Failures ==
  ASSUME EngineInv, WorkerFails
  PROVE  EngineInv'
<1>0. EngineTypeOK /\ clock' = clock /\ worker' = worker
  BY DEF EngineInv, WorkerFails
<1>1. PICK w \in 1..Len(workers) :
         /\ workers' = [workers EXCEPT ![w].failed = TRUE]
         /\ solves' = [c \in Calls |->
                IF c \in Waiting /\ solves[c].on = w THEN Settled(c, "syntax") ELSE solves[c]]
  BY DEF WorkerFails
<1>2. /\ workers' \in Seq([alive : BOOLEAN, failed : BOOLEAN, free : Nat])
      /\ Len(workers') = Len(workers)
      /\ workers'[w].failed
      /\ \A v \in 1..Len(workers) : /\ workers'[v].alive = workers[v].alive
                                    /\ workers[v].failed => workers'[v].failed
                                    /\ v # w => workers'[v] = workers[v]
  <2>1. workers' = [workers EXCEPT ![w] = [workers[w] EXCEPT !.failed = TRUE]]
    BY <1>1
  <2>2. workers[w] \in Workers
    BY <1>0, WorkerTypes
  <2>3. /\ [workers[w] EXCEPT !.failed = TRUE] \in Workers
        /\ [workers[w] EXCEPT !.failed = TRUE].failed
        /\ [workers[w] EXCEPT !.failed = TRUE].alive = workers[w].alive
    BY <2>2 DEF Workers
  <2> QED BY <1>0, <2>1, <2>3, ExceptSeq DEF EngineTypeOK, Workers
<1>3. \A c \in Calls :
        /\ c \in Waiting /\ solves[c].on = w => solves'[c] \in Solving /\ solves'[c].at = "syntax"
        /\ ~(c \in Waiting /\ solves[c].on = w) => solves'[c] = solves[c]
  <2> SUFFICES ASSUME NEW c \in Calls, c \in Waiting, solves[c].on = w
               PROVE  solves'[c] \in Solving /\ solves'[c].at = "syntax"
    BY <1>1
  <2>1. solves'[c] = [solves[c] EXCEPT !.at = "syntax"] /\ solves[c] \in Solving
    BY <1>0, <1>1, SolveTypes DEF Settled
  <2> QED BY <2>1 DEF Solving
<1>4. EngineTypeOK'
  <2>1. solves' = [c \in Calls |-> solves'[c]]
    BY <1>1
  <2>2. Solving' = Solving
    BY <1>2 DEF Solving
  <2>3. \A c \in Calls : solves'[c] \in {Idle, [at |-> "refused"]} \union Solving
    BY <1>0, <1>3 DEF EngineTypeOK
  <2>4. solves' \in [Calls -> {Idle, [at |-> "refused"]} \union Solving]
    BY <2>1, <2>3
  <2> QED BY <1>0, <1>2, <2>2, <2>4 DEF EngineTypeOK, Idle
<1>5. Waiting' = {c \in Waiting : solves[c].on # w}
  BY <1>3 DEF Waiting
<1>6. CurrentWorker'
  <2> SUFFICES ASSUME worker # 0
               PROVE  /\ workers'[worker].alive
                      /\ \/ workers'[worker].failed
                         \/ workers'[worker].free <= clock
                         \/ \E c \in Waiting' : /\ solves'[c].on = worker
                                                /\ solves'[c].due = workers'[worker].free
    BY <1>0 DEF CurrentWorker
  <2>1. worker \in 1..Len(workers)
    BY <1>0 DEF EngineTypeOK
  <2>2. workers'[worker].alive
    BY <1>2, <2>1 DEF EngineInv, CurrentWorker
  <2>3. CASE worker = w
    BY <1>2, <2>2, <2>3
  <2>4. CASE worker # w
    <3>1. workers'[worker] = workers[worker]
      BY <1>2, <2>1, <2>4
    <3>2. \A c \in Waiting : solves[c].on = worker => c \in Waiting' /\ solves'[c] = solves[c]
      BY <1>3, <1>5, <2>4 DEF Waiting
    <3> QED BY <2>2, <3>1, <3>2 DEF EngineInv, CurrentWorker
  <2> QED BY <2>3, <2>4
<1>7. AloneWaits'
  <2> SUFFICES ASSUME NEW c \in Waiting', solves'[c].alone
               PROVE  /\ Waiting' = {c}
                      /\ workers'[solves'[c].on].alive
                      /\ \/ workers'[solves'[c].on].failed
                         \/ /\ solves'[c].due = solves'[c].since + solves'[c].takes
                            /\ clock <= solves'[c].due
    BY <1>0 DEF AloneWaits
  <2>1. c \in Waiting /\ c \in Calls /\ solves[c].on # w /\ solves'[c] = solves[c]
    BY <1>3, <1>5 DEF Waiting
  <2>2. solves[c].on \in 1..Len(workers)
    BY <1>0, <2>1, SolveTypes DEF Solving
  <2>3. workers'[solves[c].on] = workers[solves[c].on]
    BY <1>2, <2>1, <2>2
  <2> QED BY <1>5, <2>1, <2>3 DEF EngineInv, AloneWaits
<1>8. AloneIsAnswered'
  <2> SUFFICES ASSUME NEW c \in Calls, solves'[c].at = "timeout"
               PROVE  \/ ~solves'[c].alone \/ solves'[c].takes >= Timeout
                      \/ workers'[solves'[c].on].failed
    BY DEF AloneIsAnswered
  <2>1. solves'[c] = solves[c]
    BY <1>3
  <2>2. solves[c].on \in 1..Len(workers)
    BY <1>0, <2>1, SolveTypes DEF Solving
  <2> QED BY <1>2, <2>1, <2>2 DEF EngineInv, AloneIsAnswered
<1> QED BY <1>4, <1>6, <1>7, <1>8 DEF EngineInv

LEMMA TimePasses ==
  ASSUME EngineInv, Elapse
  PROVE  EngineInv'
<1>0. EngineTypeOK /\ clock \in Nat /\ clock' = clock + 1 /\ UNCHANGED <<worker, workers, solves>>
  BY DEF EngineInv, EngineTypeOK, Elapse
<1>1. EngineTypeOK'
  BY <1>0 DEF EngineTypeOK, Solving, Idle
<1>2. Waiting' = Waiting
  BY <1>0 DEF Waiting
<1>3. CurrentWorker'
  <2>1. worker # 0 => workers[worker].free \in Nat
    BY <1>0, WorkerTypes DEF EngineTypeOK, Workers
  <2> QED BY <1>0, <1>2, <2>1 DEF EngineInv, CurrentWorker
<1>4. AloneWaits'
  <2> SUFFICES ASSUME NEW c \in Waiting, solves[c].alone, ~(workers[solves[c].on].failed)
               PROVE  clock + 1 <= solves[c].due
    BY <1>0, <1>2 DEF EngineInv, AloneWaits
  <2>1. c \in Calls /\ solves[c].due \in Nat
    BY <1>0, SolveTypes DEF Waiting, Solving
  <2>2. ~(solves[c].due <= clock)
    BY <2>1 DEF Elapse, Answerable, EngineInv, AloneWaits
  <2> QED BY <1>0, <2>1, <2>2
<1>5. AloneIsAnswered'
  BY <1>0 DEF EngineInv, AloneIsAnswered
<1> QED BY <1>1, <1>3, <1>4, <1>5 DEF EngineInv

LEMMA Refusals ==
  ASSUME EngineInv, NEW c \in Calls, Refuse(c)
  PROVE  EngineInv'
<1>0. EngineTypeOK /\ solves[c].at = "idle" /\ UNCHANGED <<clock, worker, workers>>
  BY DEF EngineInv, Refuse, Idle
<1>1. /\ solves' \in [Calls -> {Idle, [at |-> "refused"]} \union Solving]
      /\ solves'[c].at = "refused"
      /\ \A d \in Calls \ {c} : solves'[d] = solves[d]
  BY <1>0 DEF Refuse, EngineTypeOK
<1>2. EngineTypeOK'
  BY <1>0, <1>1 DEF EngineTypeOK, Solving, Idle
<1>3. Waiting' = Waiting /\ c \notin Waiting
  BY <1>0, <1>1 DEF Waiting
<1>4. \A d \in Waiting : solves'[d] = solves[d]
  BY <1>1, <1>3 DEF Waiting
<1>5. CurrentWorker'
  BY <1>0, <1>3, <1>4 DEF EngineInv, CurrentWorker
<1>6. AloneWaits'
  BY <1>0, <1>3, <1>4 DEF EngineInv, AloneWaits
<1>7. AloneIsAnswered'
  BY <1>0, <1>1 DEF EngineInv, AloneIsAnswered
<1> QED BY <1>2, <1>5, <1>6, <1>7 DEF EngineInv

\* What posting a call does to the workers, new one or not.
PostedOn(w, takes) ==
    /\ worker' = w /\ w \in 1..Len(workers')
    /\ workers' \in Seq(Workers) /\ Len(workers) <= Len(workers')
    /\ \A v \in 1..Len(workers) : /\ workers'[v].failed = workers[v].failed
                                  /\ workers'[v].alive = workers[v].alive
    /\ workers'[w].alive
    /\ workers'[w].free \in Nat /\ clock <= workers'[w].free
    /\ Waiting = {} => workers'[w].failed \/ workers'[w].free = clock + takes

LEMMA PostedOnNew ==
  ASSUME EngineInv, NEW load \in Durations, NEW takes \in Durations,
         worker' = Len(workers) + 1,
         workers' = Append(workers, [alive |-> TRUE, failed |-> FALSE,
                                     free |-> clock + load + takes])
  PROVE  PostedOn(worker', load + takes) /\ workers'[worker'].free = clock + load + takes
<1> DEFINE fresh == [alive |-> TRUE, failed |-> FALSE, free |-> clock + load + takes]
<1>1. clock \in Nat /\ workers \in Seq(Workers) /\ load \in Nat /\ takes \in Nat
  BY EngineAssumption DEF EngineInv, EngineTypeOK, Workers
<1>2. fresh \in Workers /\ fresh.alive /\ fresh.free = clock + load + takes
  BY <1>1 DEF Workers
<1> HIDE DEF fresh
<1>3. workers' = Append(workers, fresh)
  BY DEF fresh
<1>4. /\ workers' \in Seq(Workers) /\ Len(workers') = Len(workers) + 1
      /\ Len(workers) \in Nat /\ workers'[worker'] = fresh
      /\ \A v \in 1..Len(workers) : workers'[v] = workers[v]
  BY <1>1, <1>2, <1>3, AppendProperties, LenProperties
<1>5. clock <= fresh.free /\ fresh.free \in Nat /\ fresh.free = clock + (load + takes)
  BY <1>1, <1>2
<1> QED BY <1>2, <1>4, <1>5 DEF PostedOn

LEMMA PostedOnCurrent ==
  ASSUME EngineInv, NEW takes \in Durations, worker # 0, worker' = worker,
         workers' = [workers EXCEPT ![worker].free = Later(workers[worker].free, clock) + takes]
  PROVE  /\ PostedOn(worker', takes)
         /\ workers'[worker'].free = Later(workers[worker].free, clock) + takes
<1> DEFINE free == Later(workers[worker].free, clock)
           busy == [workers[worker] EXCEPT !.free = free + takes]
<1>1. /\ clock \in Nat /\ workers \in Seq(Workers) /\ takes \in Nat
      /\ worker \in 1..Len(workers) /\ workers[worker] \in Workers
  BY EngineAssumption, WorkerTypes DEF EngineInv, EngineTypeOK, Workers
<1>2. workers[worker].free \in Nat
  BY <1>1 DEF Workers
<1>3. free \in Nat /\ clock <= free /\ (workers[worker].free <= clock => free = clock)
  BY <1>1, <1>2 DEF Later
<1> HIDE DEF free
<1>4. /\ busy \in Workers /\ busy.free = free + takes
      /\ busy.alive = workers[worker].alive /\ busy.failed = workers[worker].failed
  <2>1. workers[worker] \in Workers /\ free + takes \in Nat
    BY <1>1, <1>3
  <2> QED BY <2>1 DEF Workers
<1>5. workers' = [workers EXCEPT ![worker] = busy]
  BY DEF free
<1> HIDE DEF busy
<1>6. /\ workers' \in Seq(Workers) /\ Len(workers') = Len(workers)
      /\ workers'[worker] = busy
      /\ \A v \in 1..Len(workers) : v # worker => workers'[v] = workers[v]
  BY <1>1, <1>4, <1>5, ExceptSeq
<1>7. workers[worker].alive
  BY DEF EngineInv, CurrentWorker
<1>8. Waiting = {} => workers[worker].failed \/ free + takes = clock + takes
  BY <1>1, <1>3 DEF EngineInv, CurrentWorker
<1>9. workers'[worker].free = free + takes /\ workers'[worker].failed = workers[worker].failed
  BY <1>4, <1>6
<1>10. clock <= free + takes /\ free + takes \in Nat
  BY <1>1, <1>3
<1>11. \A v \in 1..Len(workers) : /\ workers'[v].failed = workers[v].failed
                                  /\ workers'[v].alive = workers[v].alive
  BY <1>4, <1>6
<1>12. workers'[worker].alive
  BY <1>1, <1>7, <1>11
<1>13. PostedOn(worker', takes)
  BY <1>1, <1>6, <1>8, <1>9, <1>10, <1>11, <1>12 DEF PostedOn
<1> QED BY <1>9, <1>13 DEF free

LEMMA Posts ==
  ASSUME EngineInv, NEW c \in Calls, Post(c)
  PROVE  EngineInv'
<1> DEFINE w == worker'
           posted(takes) ==
               [at |-> "waiting", on |-> w, since |-> clock, due |-> workers'[w].free,
                takes |-> takes, alone |-> Waiting = {}]
<1>0. EngineTypeOK /\ solves[c] = Idle /\ clock' = clock /\ clock \in Nat
  BY DEF EngineInv, EngineTypeOK, Post, PostToNew, PostToCurrent, Posted
<1>1. PICK takes \in Nat :
        /\ PostedOn(w, takes)
        /\ solves' = [d \in Calls |->
               IF d = c THEN posted(takes)
               ELSE IF d \in Waiting THEN [solves[d] EXCEPT !.alone = FALSE] ELSE solves[d]]
  <2>1. CASE PostToNew(c)
    <3>1. PICK load \in Durations, takes \in Durations :
            /\ w = Len(workers) + 1
            /\ workers' = Append(workers, [alive |-> TRUE, failed |-> FALSE,
                                           free |-> clock + load + takes])
            /\ Posted(c, Len(workers) + 1, clock + load + takes, load + takes)
      BY <2>1 DEF PostToNew
    <3>2. PostedOn(w, load + takes) /\ workers'[w].free = clock + load + takes
      BY <3>1, PostedOnNew
    <3>3. load + takes \in Nat
      BY EngineAssumption
    <3> QED BY <3>1, <3>2, <3>3 DEF Posted
  <2>2. CASE PostToCurrent(c)
    <3>1. PICK takes \in Durations :
            /\ worker # 0 /\ w = worker
            /\ workers' = [workers EXCEPT ![worker].free =
                                              Later(workers[worker].free, clock) + takes]
            /\ Posted(c, worker, Later(workers[worker].free, clock) + takes, takes)
      BY <2>2 DEF PostToCurrent
    <3>2. PostedOn(w, takes) /\ workers'[w].free = Later(workers[worker].free, clock) + takes
      BY <3>1, PostedOnCurrent
    <3>3. takes \in Nat
      BY EngineAssumption
    <3> QED BY <3>1, <3>2, <3>3 DEF Posted
  <2> QED BY <2>1, <2>2 DEF Post
<1>2. Len(workers) \in Nat
  BY <1>0, LenProperties DEF EngineTypeOK
<1>3. /\ solves'[c] = posted(takes)
      /\ \A d \in Calls \ {c} :
            solves'[d] = IF d \in Waiting THEN [solves[d] EXCEPT !.alone = FALSE] ELSE solves[d]
  BY <1>1
<1>4. c \notin Waiting
  BY <1>0 DEF Waiting, Idle
<1>5. \A d \in Calls \ {c} :
        /\ solves'[d].at = solves[d].at
        /\ solves[d] \in Solving => /\ solves'[d] \in Solving'
                                    /\ solves'[d].on = solves[d].on
                                    /\ solves'[d].due = solves[d].due
                                    /\ solves'[d].takes = solves[d].takes
        /\ solves[d] \notin Solving => solves'[d] = solves[d]
        /\ d \in Waiting => solves'[d].alone = FALSE
        /\ d \notin Waiting => solves'[d] = solves[d]
  <2> SUFFICES ASSUME NEW d \in Calls \ {c}
               PROVE  /\ solves'[d].at = solves[d].at
                      /\ solves[d] \in Solving => /\ solves'[d] \in Solving'
                                                  /\ solves'[d].on = solves[d].on
                                                  /\ solves'[d].due = solves[d].due
                                                  /\ solves'[d].takes = solves[d].takes
                      /\ solves[d] \notin Solving => solves'[d] = solves[d]
                      /\ d \in Waiting => solves'[d].alone = FALSE
                      /\ d \notin Waiting => solves'[d] = solves[d]
    OBVIOUS
  <2>1. \A v \in 1..Len(workers) : v \in 1..Len(workers')
    BY <1>1, <1>2, LenProperties DEF PostedOn
  <2>2. solves[d] \in Solving => solves[d] \in Solving'
    BY <2>1 DEF Solving
  <2>3. CASE d \in Waiting
    <3>1. solves[d] \in Solving
      BY <1>0, <2>3, SolveTypes DEF Waiting
    <3>2. solves'[d] = [solves[d] EXCEPT !.alone = FALSE]
      BY <1>3, <2>3
    <3> QED BY <2>2, <2>3, <3>1, <3>2 DEF Solving
  <2>4. CASE d \notin Waiting
    BY <1>3, <2>2, <2>4
  <2> QED BY <2>3, <2>4
<1>6. /\ solves'[c].at = "waiting" /\ solves'[c].on = w /\ solves'[c].since = clock
      /\ solves'[c].due = workers'[w].free /\ solves'[c].takes = takes
      /\ solves'[c].alone = (Waiting = {})
  BY <1>3
<1>7. solves'[c] \in Solving'
  <2>1. (Waiting = {}) \in BOOLEAN
    OBVIOUS
  <2> HIDE DEF w
  <2>3. w \in 1..Len(workers') /\ workers'[w].free \in Nat
    BY <1>1 DEF PostedOn
  <2> QED BY <1>0, <1>3, <2>1, <2>3 DEF Solving
<1>8. EngineTypeOK'
  <2>1. solves' = [d \in Calls |-> solves'[d]]
    BY <1>1
  <2>2. \A d \in Calls : solves'[d] \in {Idle, [at |-> "refused"]} \union Solving'
    BY <1>0, <1>5, <1>7 DEF EngineTypeOK
  <2>3. solves' \in [Calls -> {Idle, [at |-> "refused"]} \union Solving']
    BY <2>1, <2>2
  <2>4. worker' \in 0..Len(workers') /\ workers' \in Seq(Workers)
    BY <1>1 DEF PostedOn
  <2> QED BY <1>0, <2>3, <2>4 DEF EngineTypeOK, Idle, Workers
<1>9. Waiting' = Waiting \union {c}
  BY <1>5, <1>6 DEF Waiting
<1>10. CurrentWorker'
  <2>1. /\ c \in Waiting' /\ solves'[c].on = worker' /\ solves'[c].due = workers'[worker'].free
        /\ workers'[worker'].alive
    BY <1>1, <1>6, <1>9 DEF PostedOn
  <2> QED BY <2>1 DEF CurrentWorker
<1>11. AloneWaits'
  <2> SUFFICES ASSUME NEW d \in Waiting', solves'[d].alone
               PROVE  /\ Waiting' = {d}
                      /\ workers'[solves'[d].on].alive
                      /\ \/ workers'[solves'[d].on].failed
                         \/ /\ solves'[d].due = solves'[d].since + solves'[d].takes
                            /\ clock' <= solves'[d].due
    BY DEF AloneWaits
  <2>1. d = c
    BY <1>5, <1>9 DEF Waiting
  <2>2. Waiting = {}
    BY <1>6, <2>1
  <2>3. Waiting' = {d}
    BY <1>9, <2>1, <2>2
  <2>4. /\ workers'[w].alive /\ clock <= workers'[w].free
        /\ workers'[w].failed \/ workers'[w].free = clock + takes
    BY <1>1, <2>2 DEF PostedOn
  <2> HIDE DEF w
  <2> QED BY <1>0, <1>6, <2>1, <2>3, <2>4
<1>12. AloneIsAnswered'
  <2> SUFFICES ASSUME NEW d \in Calls, solves'[d].at = "timeout"
               PROVE  \/ ~solves'[d].alone \/ solves'[d].takes >= Timeout
                      \/ workers'[solves'[d].on].failed
    BY DEF AloneIsAnswered
  <2>1. d # c /\ solves[d].at = "timeout" /\ d \notin Waiting
    BY <1>5, <1>6 DEF Waiting
  <2>2. solves'[d] = solves[d] /\ solves[d] \in Solving
    BY <1>0, <1>5, <2>1, SolveTypes
  <2>3. solves[d].on \in 1..Len(workers)
    BY <2>2 DEF Solving
  <2>4. workers'[solves[d].on].failed = workers[solves[d].on].failed
    BY <1>1, <2>3 DEF PostedOn
  <2> QED BY <2>1, <2>2, <2>4 DEF EngineInv, AloneIsAnswered
<1> QED BY <1>8, <1>10, <1>11, <1>12 DEF EngineInv

(* engine.ts solve, workerSolver and the reset of serve: whatever hung,    *)
(* failed or was terminated before, a calculation nobody shares the engine *)
(* with is answered if its load and computation fit its time-out and its   *)
(* worker does not fail, for any calls and durations.                      *)
THEOREM AloneIsAlwaysAnswered == EngineSpec => []AloneIsAnswered
<1>1. EngineInv /\ [EngineNext]_engineVars => EngineInv'
  <2> SUFFICES ASSUME EngineInv, [EngineNext]_engineVars PROVE EngineInv'
    OBVIOUS
  <2>1. CASE \E c \in Calls : Post(c) \/ Refuse(c) \/ Answered(c) \/ TimesOut(c)
    BY <2>1, Posts, Refusals, Answers, TimeOuts
  <2>2. CASE WorkerFails
    BY <2>2, Failures
  <2>3. CASE Elapse
    BY <2>3, TimePasses
  <2>4. CASE UNCHANGED engineVars
    BY <2>4 DEF engineVars, EngineInv, EngineTypeOK, CurrentWorker, AloneWaits,
                AloneIsAnswered, Waiting, Solving, Idle
  <2> QED BY <2>1, <2>2, <2>3, <2>4 DEF EngineNext
<1>2. EngineInv => AloneIsAnswered
  BY DEF EngineInv
<1> QED BY <1>1, <1>2, EngineStarts, PTL DEF EngineSpec

-----------------------------------------------------------------------------
(* Wire: a seal, which is of four fields and of the payload as it is, is   *)
(* read from the same fields in whatever order they come.                  *)

LEMMA OneNumber == \A i \in Int : Max({i}) = i /\ Min({i}) = i
  BY DEF Max, Min

\* The value of a field that is there once, or not at all.
LEMMA FieldThere ==
  ASSUME NEW message, OnceEach(message), DOMAIN message \subseteq Nat,
         NEW i \in DOMAIN message, NEW default
  PROVE  Field(message, message[i][1], default) = message[i][2]
<1>1. Positions(message, {message[i][1]}) = {i}
  BY DEF Positions, OnceEach
<1>2. i \in Int
  OBVIOUS
<1> QED BY <1>1, <1>2, OneNumber DEF Field

LEMMA FieldMissing ==
  ASSUME NEW message, NEW tag, NEW default, \A i \in DOMAIN message : message[i][1] # tag
  PROVE  Field(message, tag, default) = default
  BY DEF Field, Positions

\* A message whose one payload is its field k.
PayloadAt(message, k) == \A j \in DOMAIN message : message[j][1] \in PayloadTags <=> j = k

LEMMA PayloadThere ==
  ASSUME NEW message, DOMAIN message \subseteq Nat, NEW i \in DOMAIN message,
         PayloadAt(message, i)
  PROVE  RawEnvelopePayload(message) = message[i][2]
<1>1. Positions(message, PayloadTags) = {i}
  BY DEF Positions, PayloadAt
<1>2. i \in Int
  OBVIOUS
<1> QED BY <1>1, <1>2, OneNumber DEF RawEnvelopePayload

\* Every field of the message, once, and no other.
SameFields(n, moved, message) ==
    /\ DOMAIN moved = 1..n /\ OnceEach(moved)
    /\ \A i \in 1..n : \E j \in 1..n : moved[i] = message[j]
    /\ \A j \in 1..n : \E i \in 1..n : moved[i] = message[j]

LEMMA ReorderedFields ==
  ASSUME NEW n \in Nat, NEW message, DOMAIN message = 1..n, OnceEach(message),
         NEW moved \in Reorderings(message)
  PROVE  SameFields(n, moved, message)
<1>1. PICK p \in [1..n -> 1..n] :
         IsInjective(p) /\ moved = [i \in 1..n |-> message[p[i]]]
  BY DEF Reorderings
<1>2. p \in Surjection(1..n, 1..n)
  <2>1. p \in Injection(1..n, 1..n)
    BY <1>1 DEF Injection
  <2>2. IsFiniteSet(1..n)
    BY FS_Interval
  <2> QED BY <2>1, <2>2, FS_Injection
<1>3. \A j \in 1..n : \E i \in 1..n : p[i] = j
  BY <1>2 DEF Surjection
<1>4. OnceEach(moved)
  BY <1>1 DEF OnceEach, IsInjective
<1> QED BY <1>1, <1>3, <1>4 DEF SameFields

LEMMA FieldMoved ==
  ASSUME NEW n \in Nat, NEW message, DOMAIN message = 1..n, OnceEach(message),
         NEW moved \in Reorderings(message), NEW tag, NEW default
  PROVE  Field(moved, tag, default) = Field(message, tag, default)
<1>0. SameFields(n, moved, message)
  BY ReorderedFields
<1>1. CASE \E i \in 1..n : message[i][1] = tag
  <2>1. PICK j \in 1..n : message[j][1] = tag
    BY <1>1
  <2>2. PICK i \in 1..n : moved[i] = message[j]
    BY <1>0 DEF SameFields
  <2>3. DOMAIN moved = 1..n /\ OnceEach(moved) /\ 1..n \subseteq Nat
    BY <1>0 DEF SameFields
  <2>4. Field(moved, moved[i][1], default) = moved[i][2]
    BY <2>3, FieldThere
  <2>5. Field(message, message[j][1], default) = message[j][2]
    BY <2>3, FieldThere
  <2> QED BY <2>1, <2>2, <2>4, <2>5
<1>2. CASE \A i \in 1..n : message[i][1] # tag
  <2>1. DOMAIN moved = 1..n /\ \A i \in 1..n : \E j \in 1..n : moved[i] = message[j]
    BY <1>0 DEF SameFields
  <2>2. \A i \in DOMAIN moved : moved[i][1] # tag
    BY <1>2, <2>1
  <2> QED BY <1>2, <2>2, FieldMissing
<1> QED BY <1>1, <1>2

LEMMA PayloadMoved ==
  ASSUME NEW n \in Nat, NEW message, DOMAIN message = 1..n, OnceEach(message),
         NEW k \in 1..n, PayloadAt(message, k),
         NEW moved \in Reorderings(message)
  PROVE  RawEnvelopePayload(moved) = message[k][2]
<1>1. SameFields(n, moved, message)
  BY ReorderedFields
<1>2. \A i \in 1..n : \E j \in 1..n : moved[i] = message[j]
  BY <1>1 DEF SameFields
<1>3. DOMAIN moved = 1..n /\ OnceEach(moved) /\ 1..n \subseteq Nat
  BY <1>1 DEF SameFields
<1>4. PICK i \in 1..n : moved[i] = message[k]
  BY <1>1 DEF SameFields
<1>5. PayloadAt(moved, i)
  <2> SUFFICES ASSUME NEW j \in 1..n PROVE moved[j][1] \in PayloadTags <=> j = i
    BY <1>3 DEF PayloadAt
  <2>1. PICK m \in 1..n : moved[j] = message[m]
    BY <1>2
  <2>2. (message[m][1] \in PayloadTags <=> m = k) /\ message[k][1] \in PayloadTags
    BY DEF PayloadAt
  <2>3. m = k => j = i
    BY <1>3, <1>4, <2>1 DEF OnceEach
  <2>4. j = i => message[m][1] = message[k][1]
    BY <1>4, <2>1
  <2> QED BY <2>1, <2>2, <2>3, <2>4
<1>6. DOMAIN moved \subseteq Nat /\ i \in DOMAIN moved
  BY <1>3
<1>7. RawEnvelopePayload(moved) = moved[i][2]
  BY <1>5, <1>6, PayloadThere
<1> QED BY <1>4, <1>7

LEMMA FifthTold ==
  ASSUME NEW a, NEW b, NEW c, NEW d, NEW x, NEW y
  PROVE  (<<a, b, c, d, x>> = <<a, b, c, d, y>>) <=> x = y
<1>1. <<a, b, c, d, x>>[5] = x /\ <<a, b, c, d, y>>[5] = y
  OBVIOUS
<1>2. <<a, b, c, d, x>> = <<a, b, c, d, y>> => <<a, b, c, d, x>>[5] = <<a, b, c, d, y>>[5]
  OBVIOUS
<1>3. x = y => <<a, b, c, d, x>> = <<a, b, c, d, y>>
  OBVIOUS
<1> QED BY <1>1, <1>2, <1>3

(* wire.rs sealed_envelope against signing.rs verify_envelope_bytes: an    *)
(* envelope with any head, of any signer, with any payload, verifies in    *)
(* any order of its fields, and with another payload it does not.          *)
THEOREM SealsSurvive ==
  ASSUME NEW did \in Signers, NEW head, IsHead(head),
         NEW tag \in PayloadTags, NEW payloads
  PROVE  SealSurvives(did, head, tag, payloads)
<1> SUFFICES ASSUME NEW payload \in payloads
             PROVE  LET sealed == SealedEnvelope(did, head, tag, payload)
                    IN /\ \A moved \in Reorderings(sealed) :
                              VerifyEnvelopeBytes(moved) = {moved}
                       /\ \A i \in DOMAIN sealed, value \in payloads \ {payload} :
                              sealed[i][1] = tag =>
                                VerifyEnvelopeBytes([sealed EXCEPT ![i] = <<tag, value>>]) = {}
  BY DEF SealSurvives
<1> DEFINE n == Len(head)
           unsigned == head \o <<<<SourceTag, did>>, <<tag, payload>>>>
           text == EnvelopeSignaturePayload(unsigned, payload)
           signature == Sign(did, text)
           sealed == Append(unsigned, <<SignatureTag, signature>>)
<1> DEFINE Fields == ToSet(head)
<1>0. head \in Seq(Fields)
  BY DEF IsHead
<1> HIDE DEF Fields
<1>1. /\ n \in Nat /\ DOMAIN head = 1..n
      /\ DOMAIN unsigned = 1..(n + 2) /\ DOMAIN sealed = 1..(n + 3)
  BY <1>0
<1>2. /\ \A i \in 1..n : unsigned[i] = head[i] /\ sealed[i] = head[i]
      /\ unsigned[n + 1] = <<SourceTag, did>> /\ sealed[n + 1] = <<SourceTag, did>>
      /\ unsigned[n + 2] = <<tag, payload>> /\ sealed[n + 2] = <<tag, payload>>
      /\ sealed[n + 3] = <<SignatureTag, signature>>
  BY <1>0
<1>3. SealedEnvelope(did, head, tag, payload) = sealed
  BY DEF SealedEnvelope
<1>4. /\ tag \notin {IdTag, SourceTag, DestTag, TimeTag, SignatureTag}
      /\ \A i \in 1..n : /\ head[i][1] \notin PayloadTags
                         /\ head[i][1] # SourceTag /\ head[i][1] # SignatureTag
      /\ \A i, j \in 1..n : head[i][1] = head[j][1] => i = j
  BY <1>1, WireAssumption DEF IsHead, OnceEach
<1>5. SourceTag # SignatureTag /\ SourceTag \notin PayloadTags /\ SignatureTag \notin PayloadTags
  <2>1. SourceTag # SignatureTag
    BY DEF SourceTag, SignatureTag
  <2> QED BY <2>1, WireAssumption
<1>6. /\ \A f \in {SourceTag, SignatureTag, tag} : \A i \in 1..n : head[i][1] # f
      /\ tag # SourceTag /\ tag # SignatureTag
  BY <1>4
<1> HIDE DEF n, unsigned, text, signature, sealed
<1>7. /\ \A i \in 1..n : unsigned[i][1] = head[i][1] /\ sealed[i][1] = head[i][1]
      /\ unsigned[n + 1][1] = SourceTag /\ sealed[n + 1][1] = SourceTag
      /\ unsigned[n + 2][1] = tag /\ sealed[n + 2][1] = tag
      /\ sealed[n + 3][1] = SignatureTag
  BY <1>2
<1>8. OnceEach(sealed) /\ OnceEach(unsigned)
  <2>1. \A i \in 1..(n + 3) : i \in 1..n \/ i = n + 1 \/ i = n + 2 \/ i = n + 3
    BY <1>1
  <2>2. \A i \in 1..(n + 2) : i \in 1..n \/ i = n + 1 \/ i = n + 2
    BY <1>1
  <2>3. OnceEach(sealed)
    <3> SUFFICES ASSUME NEW i \in 1..(n + 3), NEW j \in 1..(n + 3), sealed[i][1] = sealed[j][1]
                 PROVE  i = j
      BY <1>1 DEF OnceEach
    <3>1. CASE i \in 1..n
      BY <1>4, <1>6, <1>7, <2>1, <3>1
    <3>2. CASE i = n + 1
      BY <1>5, <1>6, <1>7, <2>1, <3>2
    <3>3. CASE i = n + 2
      BY <1>6, <1>7, <2>1, <3>3
    <3>4. CASE i = n + 3
      BY <1>5, <1>6, <1>7, <2>1, <3>4
    <3> QED BY <2>1, <3>1, <3>2, <3>3, <3>4
  <2>4. OnceEach(unsigned)
    <3> SUFFICES ASSUME NEW i \in 1..(n + 2), NEW j \in 1..(n + 2),
                        unsigned[i][1] = unsigned[j][1]
                 PROVE  i = j
      BY <1>1 DEF OnceEach
    <3>1. CASE i \in 1..n
      BY <1>4, <1>6, <1>7, <2>2, <3>1
    <3>2. CASE i = n + 1
      BY <1>6, <1>7, <2>2, <3>2
    <3>3. CASE i = n + 2
      BY <1>6, <1>7, <2>2, <3>3
    <3> QED BY <2>2, <3>1, <3>2, <3>3
  <2> QED BY <2>3, <2>4
<1>9. PayloadAt(sealed, n + 2)
  <2>1. \A i \in 1..(n + 3) : i \in 1..n \/ i = n + 1 \/ i = n + 2 \/ i = n + 3
    BY <1>1
  <2> QED BY <1>1, <1>4, <1>5, <1>7, <2>1 DEF PayloadAt
<1>10. \A t : t # SignatureTag =>
          \A d : Field(sealed, t, d) = Field(unsigned, t, d)
  <2> SUFFICES ASSUME NEW t, t # SignatureTag, NEW d
               PROVE  Field(sealed, t, d) = Field(unsigned, t, d)
    OBVIOUS
  <2>1. \A i \in 1..(n + 2) : unsigned[i] = sealed[i] /\ i \in 1..(n + 3)
    <3>1. \A i \in 1..(n + 2) : i \in 1..(n + 3) /\ (i \in 1..n \/ i = n + 1 \/ i = n + 2)
      BY <1>1
    <3> QED BY <1>2, <3>1
  <2>2. \A i \in 1..(n + 3) : i \in 1..(n + 2) \/ i = n + 3
    BY <1>1
  <2>3. Positions(sealed, {t}) = Positions(unsigned, {t})
    BY <1>1, <1>7, <2>1, <2>2 DEF Positions
  <2>4. Positions(unsigned, {t}) # {} =>
            Max(Positions(unsigned, {t})) \in 1..(n + 2)
    <3> SUFFICES ASSUME NEW i \in Positions(unsigned, {t})
                 PROVE  Max(Positions(unsigned, {t})) \in 1..(n + 2)
      OBVIOUS
    <3>1. Positions(unsigned, {t}) = {i} /\ i \in 1..(n + 2)
      BY <1>1, <1>8 DEF Positions, OnceEach
    <3>2. i \in Int
      BY <1>1, <3>1
    <3> QED BY <3>1, <3>2, OneNumber
  <2> QED BY <2>1, <2>3, <2>4 DEF Field
<1>11. \A d : Field(sealed, SignatureTag, d) = signature /\ Field(sealed, SourceTag, d) = did
  <2>1. n + 1 \in DOMAIN sealed /\ n + 3 \in DOMAIN sealed /\ DOMAIN sealed \subseteq Nat
    BY <1>1
  <2>2. \A d : /\ Field(sealed, sealed[n + 1][1], d) = sealed[n + 1][2]
              /\ Field(sealed, sealed[n + 3][1], d) = sealed[n + 3][2]
    BY <1>8, <2>1, FieldThere
  <2>3. sealed[n + 1][2] = did /\ sealed[n + 3][2] = signature
    BY <1>2
  <2> QED BY <1>7, <2>2, <2>3
\* The text that is signed is of these four fields and the payload.
<1>12. ASSUME NEW envelope, NEW value,
              \A t : t # tag => \A d : Field(envelope, t, d) = Field(sealed, t, d),
              RawEnvelopePayload(envelope) = value
       PROVE  VerifyEnvelopeBytes(envelope) = IF value = payload THEN {envelope} ELSE {}
  <2>1. /\ Field(envelope, IdTag, 0) = Field(unsigned, IdTag, 0)
        /\ Field(envelope, SourceTag, "") = Field(unsigned, SourceTag, "")
        /\ Field(envelope, DestTag, "") = Field(unsigned, DestTag, "")
        /\ Field(envelope, TimeTag, 0) = Field(unsigned, TimeTag, 0)
    <3>1. IdTag # SignatureTag /\ DestTag # SignatureTag /\ TimeTag # SignatureTag
      BY DEF IdTag, DestTag, TimeTag, SignatureTag
    <3>2. \A t \in {IdTag, SourceTag, DestTag, TimeTag} : t # tag /\ t # SignatureTag
      BY <1>4, <1>5, <3>1
    <3>3. \A t \in {IdTag, SourceTag, DestTag, TimeTag} :
             \A d : Field(envelope, t, d) = Field(unsigned, t, d)
      BY <1>10, <1>12, <3>2
    <3> QED BY <3>3
  <2>2. /\ EnvelopeSignaturePayload(envelope, value) =
              <<Field(unsigned, IdTag, 0), Field(unsigned, SourceTag, ""),
                Field(unsigned, DestTag, ""), Field(unsigned, TimeTag, 0), value>>
        /\ text = <<Field(unsigned, IdTag, 0), Field(unsigned, SourceTag, ""),
                    Field(unsigned, DestTag, ""), Field(unsigned, TimeTag, 0), payload>>
    BY <2>1 DEF EnvelopeSignaturePayload, text
  <2>3. \A d : Field(envelope, SourceTag, d) = did /\ Field(envelope, SignatureTag, d) = signature
    BY <1>4, <1>11, <1>12
  <2>4. did # "" /\ signature # NoSignature
    BY WireAssumption DEF signature, Sign, NoSignature
  <2>5. (EnvelopeSignaturePayload(envelope, value) = text) <=> value = payload
    <3>1. (<<Field(unsigned, IdTag, 0), Field(unsigned, SourceTag, ""),
             Field(unsigned, DestTag, ""), Field(unsigned, TimeTag, 0), value>>
               = <<Field(unsigned, IdTag, 0), Field(unsigned, SourceTag, ""),
                   Field(unsigned, DestTag, ""), Field(unsigned, TimeTag, 0), payload>>)
             <=> value = payload
      BY FifthTold
    <3> QED BY <2>2, <3>1, Zenon
  <2>6. Verify(did, EnvelopeSignaturePayload(envelope, value), signature) <=> value = payload
    BY <2>5 DEF Verify, Sign, signature
  <2> QED BY <1>12, <2>3, <2>4, <2>6 DEF VerifyEnvelopeBytes
<1>13. ASSUME NEW moved \in Reorderings(sealed)
       PROVE  VerifyEnvelopeBytes(moved) = {moved}
  <2>1. n + 3 \in Nat /\ n + 2 \in 1..(n + 3)
    BY <1>1
  <2>2. \A t, d : Field(moved, t, d) = Field(sealed, t, d)
    BY <1>1, <1>8, <2>1, FieldMoved
  <2>3. RawEnvelopePayload(moved) = payload
    <3>1. RawEnvelopePayload(moved) = sealed[n + 2][2]
      BY <1>1, <1>8, <1>9, <2>1, PayloadMoved
    <3> QED BY <1>2, <3>1
  <2> QED BY <1>12, <2>2, <2>3
<1>14. ASSUME NEW i \in DOMAIN sealed, NEW value \in payloads \ {payload}, sealed[i][1] = tag
       PROVE  VerifyEnvelopeBytes([sealed EXCEPT ![i] = <<tag, value>>]) = {}
  <2> DEFINE other == [sealed EXCEPT ![i] = <<tag, value>>]
  <2>1. i = n + 2 /\ i \in 1..(n + 3)
    BY <1>1, <1>7, <1>8, <1>14 DEF OnceEach
  <2>2. /\ DOMAIN other = 1..(n + 3) /\ other[i] = <<tag, value>>
        /\ \A j \in 1..(n + 3) : other[j][1] = sealed[j][1] /\ (j # i => other[j] = sealed[j])
    BY <1>1, <1>14, <2>1
  <2> HIDE DEF other
  <2>3. RawEnvelopePayload(other) = value
    <3>1. DOMAIN other \subseteq Nat /\ i \in DOMAIN other
      BY <1>1, <2>1, <2>2
    <3>2. PayloadAt(other, i)
      BY <1>1, <1>9, <2>1, <2>2 DEF PayloadAt
    <3>3. other[i][2] = value
      BY <2>2
    <3> QED BY <3>1, <3>2, <3>3, PayloadThere
  <2>4. \A t : t # tag => \A d : Field(other, t, d) = Field(sealed, t, d)
    <3> SUFFICES ASSUME NEW t, t # tag, NEW d PROVE Field(other, t, d) = Field(sealed, t, d)
      OBVIOUS
    <3>1. CASE \E j \in 1..(n + 3) : sealed[j][1] = t
      <4>1. PICK j \in 1..(n + 3) : sealed[j][1] = t
        BY <3>1
      <4>2. OnceEach(other)
        BY <1>1, <1>8, <2>2 DEF OnceEach
      <4>3. 1..(n + 3) \subseteq Nat /\ j # i
        BY <1>1, <1>14, <4>1
      <4>4. Field(other, other[j][1], d) = other[j][2]
        <5>1. DOMAIN other \subseteq Nat /\ j \in DOMAIN other
          BY <2>2, <4>3
        <5> QED BY <4>2, <5>1, FieldThere
      <4>5. Field(sealed, sealed[j][1], d) = sealed[j][2]
        BY <1>1, <1>8, <4>3, FieldThere
      <4> QED BY <2>2, <4>1, <4>3, <4>4, <4>5
    <3>2. CASE \A j \in 1..(n + 3) : sealed[j][1] # t
      <4>1. /\ \A j \in DOMAIN other : other[j][1] # t
            /\ \A j \in DOMAIN sealed : sealed[j][1] # t
        BY <1>1, <2>2, <3>2
      <4> QED BY <4>1, FieldMissing
    <3> QED BY <3>1, <3>2
  <2> QED BY <1>12, <2>3, <2>4 DEF other
<1> QED BY <1>3, <1>13, <1>14

\* What is reordered twice is reordered, and any reordering can be undone.
LEMMA SameReorderings ==
  ASSUME NEW n \in Nat, NEW seq, DOMAIN seq = 1..n, NEW moved \in Reorderings(seq)
  PROVE  Reorderings(moved) = Reorderings(seq)
<1> DEFINE P == {q \in [1..n -> 1..n] : IsInjective(q)}
<1>1. PICK p \in P : moved = [i \in 1..n |-> seq[p[i]]]
  BY DEF Reorderings
<1>2. /\ Reorderings(seq) = {[i \in 1..n |-> seq[q[i]]] : q \in P}
      /\ Reorderings(moved) = {[i \in 1..n |-> moved[q[i]]] : q \in P}
  BY <1>1 DEF Reorderings
<1>3. \A j \in 1..n : \E i \in 1..n : p[i] = j
  <2>1. p \in Injection(1..n, 1..n)
    BY <1>1 DEF Injection
  <2>2. p \in Surjection(1..n, 1..n)
    BY <2>1, FS_Interval, FS_Injection
  <2> QED BY <2>2 DEF Surjection
<1>4. ASSUME NEW q \in P
      PROVE  \E r \in P : [i \in 1..n |-> moved[q[i]]] = [i \in 1..n |-> seq[r[i]]]
  <2> DEFINE r == [i \in 1..n |-> p[q[i]]]
  <2>1. r \in P
    <3>1. IsInjective(p) /\ IsInjective(q) /\ p \in [1..n -> 1..n] /\ q \in [1..n -> 1..n]
      OBVIOUS
    <3>2. r \in [1..n -> 1..n]
      BY <3>1
    <3>3. \A i, j \in 1..n : r[i] = r[j] => i = j
      BY <3>1 DEF IsInjective
    <3> QED BY <3>2, <3>3 DEF IsInjective
  <2>2. \A i \in 1..n : moved[q[i]] = seq[r[i]]
    BY <1>1
  <2> QED BY <2>1, <2>2
<1>5. ASSUME NEW q \in P
      PROVE  \E r \in P : [i \in 1..n |-> seq[q[i]]] = [i \in 1..n |-> moved[r[i]]]
  <2> DEFINE r == [i \in 1..n |-> CHOOSE k \in 1..n : p[k] = q[i]]
  <2>1. \A i \in 1..n : r[i] \in 1..n /\ p[r[i]] = q[i]
    BY <1>3
  <2>2. r \in [1..n -> 1..n]
    BY <2>1
  <2> HIDE DEF r
  <2>3. IsInjective(r)
    <3>1. IsInjective(q) /\ DOMAIN q = 1..n /\ DOMAIN r = 1..n
      BY <2>2
    <3> QED BY <2>1, <3>1 DEF IsInjective
  <2>4. \A i \in 1..n : seq[q[i]] = moved[r[i]]
    BY <1>1, <2>1
  <2> QED BY <2>2, <2>3, <2>4
<1>6. ASSUME NEW s \in Reorderings(moved) PROVE s \in Reorderings(seq)
  <2>1. PICK q \in P : s = [i \in 1..n |-> moved[q[i]]]
    BY <1>2
  <2>2. PICK r \in P : [i \in 1..n |-> moved[q[i]]] = [i \in 1..n |-> seq[r[i]]]
    BY <1>4
  <2> HIDE DEF P
  <2> QED BY <1>2, <2>1, <2>2
<1>7. ASSUME NEW s \in Reorderings(seq) PROVE s \in Reorderings(moved)
  <2>1. PICK q \in P : s = [i \in 1..n |-> seq[q[i]]]
    BY <1>2
  <2>2. PICK r \in P : [i \in 1..n |-> seq[q[i]]] = [i \in 1..n |-> moved[r[i]]]
    BY <1>5
  <2> HIDE DEF P
  <2> QED BY <1>2, <2>1, <2>2
<1> QED BY <1>6, <1>7

LEMMA SortedMoved ==
  ASSUME NEW n \in Nat, NEW texts, DOMAIN texts = 1..n, NEW moved \in Reorderings(texts)
  PROVE  Sorted(moved) = Sorted(texts)
<1>1. PICK p \in [1..n -> 1..n] : IsInjective(p) /\ moved = [i \in 1..n |-> texts[p[i]]]
  BY DEF Reorderings
<1>2. ToSet(moved) = ToSet(texts)
  <2>1. p \in Surjection(1..n, 1..n)
    BY <1>1, FS_Interval, FS_Injection DEF Injection
  <2> QED BY <1>1, <2>1 DEF ToSet, Surjection
<1> QED BY <1>2, SameReorderings DEF Sorted, SortedBy

LEMMA BeaconMoved ==
  ASSUME NEW n \in Nat, NEW beacon, DOMAIN beacon = 1..n, OnceEach(beacon),
         NEW moved \in Reorderings(beacon)
  PROVE  Reencoded(moved) = Reencoded(beacon)
<1>1. \A t \in KnownTags : Field(moved, t, 0) = Field(beacon, t, 0)
  BY FieldMoved
<1> QED BY <1>1 DEF Reencoded

\* What is not signed in a message does not change what is.
LEMMA SameText ==
  ASSUME NEW m, NEW f \in {"signature", "capabilities", "beacon"}, NEW value,
         m = [g \in DOMAIN m |-> m[g]], f \in DOMAIN m, "type" \in DOMAIN m,
         m.type \in {"advertise", "beacon", "offer", "bid", "assign"},
         f = "capabilities" => m.type = "bid" /\ Sorted(value) = Sorted(m.capabilities),
         f = "beacon" => /\ m.type \in {"advertise", "beacon"}
                         /\ Reencoded(value) = Reencoded(m.beacon)
  PROVE  SignedText([m EXCEPT ![f] = value]) = SignedText(m)
<1> DEFINE n == [m EXCEPT ![f] = value]
<1>1. \A g : g # f => n[g] = m[g]
  OBVIOUS
<1>2. n[f] = value
  OBVIOUS
<1> HIDE DEF n
<1>3. /\ n.type = m.type /\ n.did = m.did /\ n.time = m.time /\ n.ttl = m.ttl
      /\ n.mission = m.mission /\ n.kind = m.kind /\ n.deadline = m.deadline
      /\ n.assigned = m.assigned
  BY <1>1
<1>4. /\ m.type = "bid" => Sorted(n.capabilities) = Sorted(m.capabilities)
      /\ m.type \in {"advertise", "beacon"} => Reencoded(n.beacon) = Reencoded(m.beacon)
  BY <1>1, <1>2
<1>5. SignedText(n) = SignedText(m)
  BY <1>3, <1>4 DEF SignedText
<1> QED BY <1>5 DEF n

(* wire.rs signed_* against verified_*: a message of any topic, whoever    *)
(* signs it, verifies, also at whoever lists the capabilities of a bid, or *)
(* the fields of a beacon, in another order.                               *)
THEOREM TopicsSurvive ==
  ASSUME NEW did \in Signers, NEW time, NEW message, IsTopic(message)
  PROVE  TopicSurvives(did, time, message)
<1> DEFINE m == [message EXCEPT !.did = did, !.time = time, !.signature = NoSignature]
           signature == Sign(did, SignedText(m))
           signed == [m EXCEPT !.signature = signature]
<1>1. /\ m = [f \in DOMAIN m |-> m[f]] /\ DOMAIN m = DOMAIN message
      /\ m.did = did /\ m.type = message.type
      /\ "capabilities" \in DOMAIN m => m.capabilities = message.capabilities
      /\ "beacon" \in DOMAIN m => m.beacon = message.beacon
  BY DEF IsTopic
<1>2. Signed(did, time, message) = signed
  BY DEF Signed
<1> HIDE DEF m
<1>3. /\ DOMAIN signed = DOMAIN m /\ signed = [f \in DOMAIN signed |-> signed[f]]
      /\ signed.signature = signature /\ signed.did = did /\ signed.type = m.type
      /\ "capabilities" \in DOMAIN m => signed.capabilities = m.capabilities
      /\ "beacon" \in DOMAIN m => signed.beacon = m.beacon
  BY <1>1 DEF IsTopic
<1>4. SignedText(signed) = SignedText(m)
  BY <1>1, SameText DEF IsTopic
<1> HIDE DEF signed
<1>5. ASSUME NEW x, x.did = did, x.signature = signature, SignedText(x) = SignedText(m)
      PROVE  Verified(x) = {x}
  <2>1. signature # NoSignature
    BY WireAssumption DEF NoSignature, Sign
  <2> QED BY <1>5, <2>1 DEF Verified, Verify
<1>6. Verified(signed) = {signed}
  BY <1>3, <1>4, <1>5
<1>7. ASSUME message.type = "bid", NEW c \in Reorderings(message.capabilities)
      PROVE  Verified([signed EXCEPT !.capabilities = c]) # {}
  <2> DEFINE x == [signed EXCEPT !["capabilities"] = c]
  <2>1. /\ "capabilities" \in DOMAIN signed /\ signed.capabilities = message.capabilities
        /\ signed.type = "bid" /\ message.capabilities \in Seq(Text)
    BY <1>1, <1>3, <1>7 DEF IsTopic
  <2>2. Sorted(c) = Sorted(signed.capabilities)
    BY <1>7, <2>1, SortedMoved
  <2>3. SignedText(x) = SignedText(signed)
    BY <1>1, <1>3, <2>1, <2>2, SameText DEF IsTopic
  <2>4. x.did = did /\ x.signature = signature
    BY <1>3
  <2>5. Verified(x) = {x}
    BY <1>4, <1>5, <2>3, <2>4
  <2> QED BY <2>5
<1>8. ASSUME message.type \in {"advertise", "beacon"}, NEW b \in Reorderings(message.beacon)
      PROVE  Verified([signed EXCEPT !.beacon = b]) # {}
  <2> DEFINE x == [signed EXCEPT !["beacon"] = b]
  <2>1. /\ "beacon" \in DOMAIN signed /\ signed.beacon = message.beacon
        /\ signed.type \in {"advertise", "beacon"}
        /\ message.beacon \in Seq(ToSet(message.beacon)) /\ OnceEach(message.beacon)
    BY <1>1, <1>3, <1>8 DEF IsTopic
  <2>2. Reencoded(b) = Reencoded(signed.beacon)
    BY <1>8, <2>1, BeaconMoved
  <2>3. SignedText(x) = SignedText(signed)
    BY <1>1, <1>3, <2>1, <2>2, SameText DEF IsTopic
  <2>4. x.did = did /\ x.signature = signature
    BY <1>3
  <2>5. Verified(x) = {x}
    BY <1>4, <1>5, <2>3, <2>4
  <2> QED BY <2>5
<1> QED BY <1>2, <1>6, <1>7, <1>8 DEF TopicSurvives

-----------------------------------------------------------------------------
(* Digests: what is behind its length ends where it ends, whatever comes   *)
(* after it; so the digest gives back the domain, and the texts one by one. *)

\* The four bytes of a length give it back.
LEMMA LengthTold ==
  ASSUME NEW m \in Sizes, NEW n \in Sizes, PushLen(m) = PushLen(n)
  PROVE  m = n
<1>1. \A k \in Sizes :
         k = (256 * 256 * 256) * ((k \div (256 * 256 * 256)) % 256)
             + (256 * 256) * ((k \div (256 * 256)) % 256) + 256 * ((k \div 256) % 256) + (k % 256)
  <2> SUFFICES ASSUME NEW k \in Sizes
               PROVE  k = (256 * 256 * 256) * ((k \div (256 * 256 * 256)) % 256)
                          + (256 * 256) * ((k \div (256 * 256)) % 256)
                          + 256 * ((k \div 256) % 256) + (k % 256)
    OBVIOUS
  <2>1. k \in Nat /\ k \div (256 * 256 * 256) \in 0..255
    <3>1. k \in Nat /\ k < 256 * 256 * 256 * 256
      BY DEF Sizes
    <3> DEFINE q == k \div (256 * 256 * 256)
    <3>2. q \in Int /\ (256 * 256 * 256) * q <= k /\ k < (256 * 256 * 256) * (q + 1)
      BY <3>1
    <3> HIDE DEF q
    <3>3. q \in 0..255
      BY <3>1, <3>2
    <3> QED BY <3>1, <3>3 DEF q
  <2>2. (k \div (256 * 256 * 256)) % 256 = k \div (256 * 256 * 256)
    BY <2>1
  <2>3. (k \div (256 * 256)) % 256 = (k \div (256 * 256)) - 256 * (k \div (256 * 256 * 256))
    BY <2>1
  <2>4. (k \div 256) % 256 = (k \div 256) - 256 * (k \div (256 * 256))
    BY <2>1
  <2>5. k % 256 = k - 256 * (k \div 256)
    BY <2>1
  <2> QED BY <2>1, <2>2, <2>3, <2>4, <2>5
<1>2. /\ (m \div (256 * 256 * 256)) % 256 = (n \div (256 * 256 * 256)) % 256
      /\ (m \div (256 * 256)) % 256 = (n \div (256 * 256)) % 256
      /\ (m \div 256) % 256 = (n \div 256) % 256
      /\ m % 256 = n % 256
  BY DEF PushLen
<1> QED BY <1>1, <1>2

\* Concatenation, which the provers expand unless it has a name.
Join(s, t) == s \o t

LEMMA OctetsLength ==
  ASSUME NEW s \in Octets
  PROVE  Len(s) \in Nat
  BY DEF Octets

LEMMA JoinedType ==
  ASSUME NEW s \in Octets, NEW t \in Octets
  PROVE  Join(s, t) \in Octets
  BY DEF Octets, Join

LEMMA JoinedLength ==
  ASSUME NEW s \in Octets, NEW t \in Octets
  PROVE  Len(Join(s, t)) = Len(s) + Len(t)
  BY DEF Octets, Join

LEMMA JoinedFirst ==
  ASSUME NEW s \in Octets, NEW t \in Octets, NEW i \in 1..Len(s)
  PROVE  Join(s, t)[i] = s[i]
  BY DEF Octets, Join

LEMMA JoinedSecond ==
  ASSUME NEW s \in Octets, NEW t \in Octets, NEW i \in 1..Len(t)
  PROVE  Join(s, t)[Len(s) + i] = t[i]
  BY DEF Octets, Join

LEMMA JoinedTwice ==
  ASSUME NEW s \in Octets, NEW t \in Octets, NEW u \in Octets
  PROVE  Join(Join(s, t), u) = Join(s, Join(t, u))
  BY DEF Octets, Join

LEMMA SameOctets ==
  ASSUME NEW s \in Octets, NEW t \in Octets, Len(s) = Len(t), \A i \in 1..Len(s) : s[i] = t[i]
  PROVE  s = t
  BY SeqEqual DEF Octets

LEMMA PushLenType ==
  ASSUME NEW n \in Nat
  PROVE  PushLen(n) \in Octets /\ Len(PushLen(n)) = 4
  BY DEF PushLen, Octets

\* What starts with the same number of elements starts with the same ones.
LEMMA SameStart ==
  ASSUME NEW a \in Octets, NEW b \in Octets, NEW x \in Octets, NEW y \in Octets,
         Len(a) = Len(b), Join(a, x) = Join(b, y)
  PROVE  a = b /\ x = y
<1>1. Len(Join(a, x)) = Len(a) + Len(x)
  BY JoinedLength
<1>2. Len(Join(b, y)) = Len(b) + Len(y)
  BY JoinedLength
<1>3. Len(x) = Len(y)
  BY <1>1, <1>2, OctetsLength
<1>4. ASSUME NEW i \in 1..Len(a)
      PROVE  a[i] = b[i]
  <2>1. Join(a, x)[i] = a[i]
    BY JoinedFirst
  <2>2. Join(b, y)[i] = b[i]
    BY JoinedFirst
  <2> QED BY <2>1, <2>2
<1>5. ASSUME NEW i \in 1..Len(x)
      PROVE  x[i] = y[i]
  <2>1. Join(a, x)[Len(a) + i] = x[i]
    BY JoinedSecond
  <2>2. Join(b, y)[Len(b) + i] = y[i]
    BY <1>3, JoinedSecond
  <2> QED BY <2>1, <2>2
<1>6. a = b
  BY <1>4, SameOctets
<1>7. x = y
  BY <1>3, <1>5, SameOctets
<1> QED BY <1>6, <1>7

LEMMA PushBytesIs == \A text : PushBytes(text) = Join(PushLen(Len(text)), text)
  BY DEF PushBytes, Join

LEMMA PushBytesType ==
  ASSUME NEW text \in Bytes
  PROVE  PushBytes(text) \in Octets /\ Len(PushBytes(text)) = 4 + Len(text)
<1>1. text \in Octets /\ Len(text) \in Nat
  BY DEF Bytes, Sizes
<1>2. PushLen(Len(text)) \in Octets /\ Len(PushLen(Len(text))) = 4
  BY <1>1, PushLenType
<1> DEFINE l == PushLen(Len(text))
<1>3. PushBytes(text) = Join(l, text)
  BY PushBytesIs
<1> HIDE DEF l
<1>4. Join(l, text) \in Octets
  BY <1>1, <1>2, JoinedType DEF l
<1>5. Len(Join(l, text)) = Len(l) + Len(text)
  BY <1>1, <1>2, JoinedLength DEF l
<1>6. Len(l) = 4
  BY <1>2 DEF l
<1> QED BY <1>3, <1>4, <1>5, <1>6

\* A text behind its length ends where it ends, whatever comes after it.
LEMMA BytesTold ==
  ASSUME NEW a \in Bytes, NEW b \in Bytes, NEW x \in Octets, NEW y \in Octets,
         Join(PushBytes(a), x) = Join(PushBytes(b), y)
  PROVE  a = b /\ x = y
<1> DEFINE la == PushLen(Len(a))
           lb == PushLen(Len(b))
<1>1. a \in Octets /\ b \in Octets /\ Len(a) \in Sizes /\ Len(b) \in Sizes
  BY DEF Bytes
<1>2. Len(a) \in Nat /\ Len(b) \in Nat
  BY <1>1 DEF Sizes
<1>3. la \in Octets /\ lb \in Octets /\ Len(la) = Len(lb)
  BY <1>2, PushLenType
<1>4. Join(a, x) \in Octets /\ Join(b, y) \in Octets
  BY <1>1, JoinedType
<1>5. Join(la, Join(a, x)) = Join(lb, Join(b, y))
  <2>1. Join(Join(la, a), x) = Join(la, Join(a, x))
    BY <1>1, <1>3, JoinedTwice
  <2>2. Join(Join(lb, b), y) = Join(lb, Join(b, y))
    BY <1>1, <1>3, JoinedTwice
  <2>3. PushBytes(a) = Join(la, a) /\ PushBytes(b) = Join(lb, b)
    BY PushBytesIs
  <2> QED BY <2>1, <2>2, <2>3
<1>6. la = lb /\ Join(a, x) = Join(b, y)
  BY <1>3, <1>4, <1>5, SameStart
<1>7. Len(a) = Len(b)
  BY <1>1, <1>6, LengthTold
<1> QED BY <1>1, <1>6, <1>7, SameStart

LEMMA PushBytesTold ==
  ASSUME NEW a \in Bytes, NEW b \in Bytes, PushBytes(a) = PushBytes(b)
  PROVE  a = b
<1>1. <<>> \in Octets
  BY DEF Octets
<1>2. Join(PushBytes(a), <<>>) = Join(PushBytes(b), <<>>)
  OBVIOUS
<1> QED BY <1>1, <1>2, BytesTold

\* The texts of a domain have no zero.
Domains == Seq(1..255)

LEMMA DomainOctets ==
  ASSUME NEW d \in Domains
  PROVE  d \in Octets /\ \A i \in 1..Len(d) : d[i] # 0
<1>1. 1..255 \subseteq 0..255
  OBVIOUS
<1>2. d \in Octets
  BY <1>1, SeqMonotonic DEF Domains, Octets
<1>3. \A i \in 1..Len(d) : d[i] \in 1..255
  BY ElementOfSeq DEF Domains
<1>4. ASSUME NEW i \in 1..Len(d)
      PROVE  d[i] # 0
  <2>1. d[i] \in 1..255
    BY <1>3
  <2>2. \A b \in 1..255 : b # 0
    OBVIOUS
  <2> HIDE DEF Domains
  <2> QED BY <2>1, <2>2, Zenon
<1> QED BY <1>2, <1>4

Mark == <<0, 49, 0>>

LEMMA MarkType == Mark \in Octets /\ Len(Mark) = 3 /\ Mark[1] = 0
  BY DEF Mark, Octets

LEMMA FramedIs ==
  ASSUME NEW domain \in Domains, NEW body \in Octets
  PROVE  /\ Framed(domain, body) = Join(domain, Join(Mark, body))
         /\ Framed(domain, body) \in Octets
         /\ Len(Framed(domain, body)) = Len(domain) + 3 + Len(body)
<1>1. domain \in Octets /\ Mark \in Octets /\ Len(Mark) = 3
  BY DomainOctets, MarkType
<1>2. Framed(domain, body) = Join(Join(domain, Mark), body)
  BY DEF Framed, Join, Mark
<1>3. Framed(domain, body) = Join(domain, Join(Mark, body))
  BY <1>1, <1>2, JoinedTwice
<1>4. Join(domain, Mark) \in Octets
  BY <1>1, JoinedType
<1>5. Len(Join(domain, Mark)) = Len(domain) + 3
  BY <1>1, JoinedLength
<1>6. Framed(domain, body) \in Octets
  BY <1>2, <1>4, JoinedType
<1>7. Len(Framed(domain, body)) = Len(domain) + 3 + Len(body)
  BY <1>2, <1>4, <1>5, JoinedLength
<1> QED BY <1>3, <1>6, <1>7

\* The first zero ends the domain.
LEMMA FramedTold ==
  ASSUME NEW d \in Domains, NEW e \in Domains, NEW x \in Octets, NEW y \in Octets,
         Framed(d, x) = Framed(e, y)
  PROVE  d = e /\ x = y
<1> DEFINE u == Join(Mark, x)
           v == Join(Mark, y)
<1>1. d \in Octets /\ e \in Octets /\ Len(d) \in Nat /\ Len(e) \in Nat
  BY DomainOctets, OctetsLength
<1>2. u \in Octets /\ v \in Octets
  BY MarkType, JoinedType
<1>3. Len(u) >= 1 /\ u[1] = 0
  <2>1. Len(u) = 3 + Len(x) /\ Len(x) \in Nat
    BY MarkType, JoinedLength, OctetsLength
  <2>2. 1 \in 1..Len(Mark)
    BY MarkType
  <2>3. u[1] = Mark[1]
    BY <2>2, MarkType, JoinedFirst
  <2> QED BY <2>1, <2>3, MarkType
<1>4. Len(v) >= 1 /\ v[1] = 0
  <2>1. Len(v) = 3 + Len(y) /\ Len(y) \in Nat
    BY MarkType, JoinedLength, OctetsLength
  <2>2. 1 \in 1..Len(Mark)
    BY MarkType
  <2>3. v[1] = Mark[1]
    BY <2>2, MarkType, JoinedFirst
  <2> QED BY <2>1, <2>3, MarkType
<1>5. Join(d, u) = Join(e, v)
  BY FramedIs
<1> HIDE DEF u, v
<1>6. ~(Len(d) < Len(e))
  <2> SUFFICES ASSUME Len(d) < Len(e) PROVE FALSE
    OBVIOUS
  <2>1. Len(d) + 1 \in 1..Len(e) /\ 1 \in 1..Len(u)
    BY <1>1, <1>2, <1>3, OctetsLength
  <2>2. Join(d, u)[Len(d) + 1] = u[1]
    BY <1>1, <1>2, <2>1, JoinedSecond
  <2>3. Join(e, v)[Len(d) + 1] = e[Len(d) + 1]
    BY <1>1, <1>2, <2>1, JoinedFirst
  <2>4. e[Len(d) + 1] # 0
    BY <2>1, DomainOctets
  <2> QED BY <1>3, <1>5, <2>2, <2>3, <2>4
<1>7. ~(Len(e) < Len(d))
  <2> SUFFICES ASSUME Len(e) < Len(d) PROVE FALSE
    OBVIOUS
  <2>1. Len(e) + 1 \in 1..Len(d) /\ 1 \in 1..Len(v)
    BY <1>1, <1>2, <1>4, OctetsLength
  <2>2. Join(e, v)[Len(e) + 1] = v[1]
    BY <1>1, <1>2, <2>1, JoinedSecond
  <2>3. Join(d, u)[Len(e) + 1] = d[Len(e) + 1]
    BY <1>1, <1>2, <2>1, JoinedFirst
  <2>4. d[Len(e) + 1] # 0
    BY <2>1, DomainOctets
  <2> QED BY <1>4, <1>5, <2>2, <2>3, <2>4
<1>8. Len(d) = Len(e)
  BY <1>1, <1>6, <1>7
<1>9. d = e /\ u = v
  BY <1>1, <1>2, <1>5, <1>8, SameStart
<1> QED BY <1>9, MarkType, SameStart DEF u, v

LEMMA EmptyOctets == <<>> \in Octets /\ \A s \in Octets : Join(<<>>, s) = s /\ Join(s, <<>>) = s
  BY DEF Octets, Join

\* g has the texts of a list joined, as far as each of them.
Joins(g, list) ==
    /\ g \in [0..Len(list) -> Octets]
    /\ g[0] = <<>>
    /\ \A i \in 1..Len(list) : g[i] = Join(g[i - 1], list[i])

LEMMA JoinsExist ==
  ASSUME NEW list \in Seq(Octets)
  PROVE  \E g : Joins(g, list)
<1> DEFINE Upto(g, n) == /\ g \in [0..n -> Octets]
                         /\ g[0] = <<>>
                         /\ \A i \in 1..n : g[i] = Join(g[i - 1], list[i])
           D == {n \in 0..Len(list) : ~ \E g : Upto(g, n)}
<1>1. Len(list) \in Nat /\ \A i \in 1..Len(list) : list[i] \in Octets
  OBVIOUS
<1>2. CASE D = {}
  <2>1. Len(list) \in 0..Len(list)
    BY <1>1
  <2>2. \E g : Upto(g, Len(list))
    BY <1>2, <2>1
  <2> QED BY <2>2 DEF Joins
<1>3. CASE D # {}
  <2>1. D \in SUBSET Nat
    BY <1>1
  <2>2. PICK n \in D : \A m \in D : n <= m
    <3> HIDE DEF D
    <3> QED BY <1>3, <2>1, LeastNumber
  <2>3. n \in 0..Len(list) /\ n \in Nat
    BY <1>1
  <2>4. CASE n = 0
    <3>1. Upto([i \in 0..0 |-> <<>>], 0)
      BY EmptyOctets
    <3> QED BY <2>4, <3>1
  <2>5. CASE n # 0
    <3>1. n - 1 \in 0..Len(list) /\ ~(n <= n - 1) /\ n \in 1..Len(list)
      BY <1>1, <2>3, <2>5
    <3>2. PICK g : Upto(g, n - 1)
      <4>1. n - 1 \notin D
        BY <2>2, <3>1
      <4> QED BY <3>1, <4>1
    <3> DEFINE h == [i \in 0..n |-> IF i = n THEN Join(g[n - 1], list[n]) ELSE g[i]]
    <3>3. g[n - 1] \in Octets /\ list[n] \in Octets
      BY <1>1, <2>3, <3>1, <3>2
    <3>4. Join(g[n - 1], list[n]) \in Octets
      BY <3>3, JoinedType
    <3>5. \A i \in 0..n : i # n => i \in 0..(n - 1)
      BY <2>3
    <3>6. h \in [0..n -> Octets]
      BY <3>2, <3>4, <3>5
    <3>7. h[0] = <<>>
      BY <2>3, <2>5, <3>2
    <3>8. ASSUME NEW i \in 1..n
          PROVE  h[i] = Join(h[i - 1], list[i])
      <4>1. i \in 0..n /\ i - 1 \in 0..n /\ i - 1 # n
        BY <2>3
      <4>2. h[i - 1] = g[i - 1]
        BY <4>1
      <4>3. CASE i = n
        BY <4>1, <4>2, <4>3
      <4>4. CASE i # n
        <5>1. i \in 1..(n - 1)
          BY <2>3, <4>4
        <5>2. g[i] = Join(g[i - 1], list[i])
          BY <3>2, <5>1
        <5> QED BY <4>1, <4>2, <4>4, <5>2
      <4> QED BY <4>3, <4>4
    <3> HIDE DEF h
    <3>9. Upto(h, n)
      BY <3>6, <3>7, <3>8
    <3> QED BY <3>9
  <2> QED BY <2>4, <2>5
<1> QED BY <1>2, <1>3

\* The function that FlattenSeq recurs by.
Flattens(f, list) ==
    f = [i \in 1..Len(list) |-> IF i = 1 THEN list[i] ELSE f[i - 1] \o list[i]]

LEMMA FlattenIs ==
  ASSUME NEW list
  PROVE  FlattenSeq(list) = IF Len(list) = 0 THEN list
                            ELSE (CHOOSE f : Flattens(f, list))[Len(list)]
  BY DEF FlattenSeq, Flattens

LEMMA FlattensJoin ==
  ASSUME NEW list \in Seq(Octets), NEW f, Flattens(f, list), NEW g, Joins(g, list)
  PROVE  \A i \in 1..Len(list) : f[i] = g[i]
<1> DEFINE D == {i \in 1..Len(list) : f[i] # g[i]}
<1>1. Len(list) \in Nat /\ \A i \in 1..Len(list) : list[i] \in Octets
  OBVIOUS
<1>2. SUFFICES ASSUME D # {} PROVE FALSE
  OBVIOUS
<1>3. D \in SUBSET Nat
  BY <1>1
<1>4. PICK n \in D : \A m \in D : n <= m
  <2> HIDE DEF D
  <2> QED BY <1>2, <1>3, LeastNumber
<1>5. n \in 1..Len(list) /\ n \in Nat
  BY <1>1
<1>6. g[n] = Join(g[n - 1], list[n])
  BY <1>5 DEF Joins
<1>7. f[n] = IF n = 1 THEN list[n] ELSE Join(f[n - 1], list[n])
  BY <1>5 DEF Flattens, Join
<1>8. CASE n = 1
  <2>1. g[0] = <<>> /\ n - 1 = 0 /\ list[n] \in Octets
    BY <1>1, <1>5, <1>8 DEF Joins
  <2>2. g[n] = list[n]
    BY <1>6, <2>1, EmptyOctets
  <2> QED BY <1>7, <1>8, <2>2
<1>9. CASE n # 1
  <2>1. n - 1 \in 1..Len(list) /\ ~(n <= n - 1)
    BY <1>1, <1>5, <1>9
  <2>2. f[n - 1] = g[n - 1]
    BY <1>4, <2>1
  <2> QED BY <1>6, <1>7, <1>9, <2>2
<1> QED BY <1>8, <1>9

LEMMA FlattenJoins ==
  ASSUME NEW list \in Seq(Octets), NEW g, Joins(g, list)
  PROVE  FlattenSeq(list) = g[Len(list)]
<1>1. Len(list) \in Nat
  OBVIOUS
<1>2. CASE Len(list) = 0
  <2>1. list = <<>>
    BY <1>2
  <2>2. g[Len(list)] = <<>>
    BY <1>2 DEF Joins
  <2> QED BY <1>2, <2>1, <2>2, FlattenIs
<1>3. CASE Len(list) # 0
  <2> DEFINE f == [i \in 1..Len(list) |-> g[i]]
  <2>1. ASSUME NEW i \in 1..Len(list)
        PROVE  f[i] = IF i = 1 THEN list[i] ELSE Join(f[i - 1], list[i])
    <3>1. g[i] = Join(g[i - 1], list[i]) /\ f[i] = g[i]
      BY DEF Joins
    <3>2. CASE i = 1
      <4>1. g[i - 1] = <<>> /\ list[i] \in Octets
        BY <3>2 DEF Joins
      <4> QED BY <3>1, <3>2, <4>1, EmptyOctets
    <3>3. CASE i # 1
      <4>1. i - 1 \in 1..Len(list)
        BY <1>1, <3>3
      <4> QED BY <3>1, <3>3, <4>1
    <3> QED BY <3>2, <3>3
  <2>2. f = [i \in 1..Len(list) |-> IF i = 1 THEN list[i] ELSE Join(f[i - 1], list[i])]
    <3>1. f = [i \in 1..Len(list) |-> f[i]]
      OBVIOUS
    <3> HIDE DEF f
    <3> QED BY <2>1, <3>1
  <2>3. Flattens(f, list)
    <3> HIDE DEF f
    <3> QED BY <2>2 DEF Flattens, Join
  <2> DEFINE c == CHOOSE h : Flattens(h, list)
  <2>4. Flattens(c, list)
    <3> HIDE DEF f
    <3> QED BY <2>3
  <2> HIDE DEF c
  <2>5. Len(list) \in 1..Len(list)
    BY <1>1, <1>3
  <2>6. c[Len(list)] = g[Len(list)]
    BY <2>4, <2>5, FlattensJoin
  <2> QED BY <1>3, <2>6, FlattenIs DEF c
<1> QED BY <1>2, <1>3

\* Neither of two texts is the start of the other, unless they are the same.
Apart(a, b) == \A x, y \in Octets : Join(a, x) = Join(b, y) => a = b /\ x = y

LEMMA ApartUse ==
  ASSUME NEW a, NEW b, Apart(a, b), NEW x \in Octets, NEW y \in Octets, Join(a, x) = Join(b, y)
  PROVE  a = b /\ x = y
BY DEF Apart

LEMMA ApartAlone ==
  ASSUME NEW a, NEW b, Apart(a, b), a = b
  PROVE  \A x, y \in Octets : Join(a, x) = Join(b, y) => x = y
BY DEF Apart

LEMMA SameLengthApart ==
  ASSUME NEW a \in Octets, NEW b \in Octets, Len(a) = Len(b)
  PROVE  Apart(a, b)
BY SameStart DEF Apart

LEMMA BytesApart ==
  ASSUME NEW a \in Bytes, NEW b \in Bytes
  PROVE  Apart(PushBytes(a), PushBytes(b))
<1>1. ASSUME NEW x \in Octets, NEW y \in Octets,
             Join(PushBytes(a), x) = Join(PushBytes(b), y)
      PROVE  PushBytes(a) = PushBytes(b) /\ x = y
  BY <1>1, BytesTold
<1> QED BY <1>1 DEF Apart

LEMMA FlattenType ==
  ASSUME NEW list \in Seq(Octets)
  PROVE  FlattenSeq(list) \in Octets
<1>1. PICK g : Joins(g, list)
  BY JoinsExist
<1>2. Len(list) \in 0..Len(list)
  OBVIOUS
<1> QED BY <1>1, <1>2, FlattenJoins DEF Joins

\* Lists of texts that are pairwise apart are told apart when joined.
LEMMA FlattenTold ==
  ASSUME NEW s \in Seq(Octets), NEW t \in Seq(Octets), Len(s) = Len(t),
         \A i \in 1..Len(s) : Apart(s[i], t[i]),
         NEW u \in Octets, NEW v \in Octets, Join(FlattenSeq(s), u) = Join(FlattenSeq(t), v)
  PROVE  s = t /\ u = v
<1> DEFINE n == Len(s)
<1>1. n \in Nat /\ \A i \in 1..n : s[i] \in Octets /\ t[i] \in Octets
  OBVIOUS
<1>2. PICK g : Joins(g, s)
  BY JoinsExist
<1>3. PICK h : Joins(h, t)
  BY JoinsExist
<1>4. FlattenSeq(s) = g[n] /\ FlattenSeq(t) = h[n]
  BY <1>2, <1>3, FlattenJoins
<1>5. /\ g \in [0..n -> Octets] /\ g[0] = <<>>
      /\ h \in [0..n -> Octets] /\ h[0] = <<>>
      /\ \A i \in 1..n : g[i] = Join(g[i - 1], s[i]) /\ h[i] = Join(h[i - 1], t[i])
  BY <1>2, <1>3 DEF Joins
<1> HIDE DEF n
<1> DEFINE Told(i) == \A x, y \in Octets :
                         Join(g[i], x) = Join(h[i], y) => x = y /\ \A j \in 1..i : s[j] = t[j]
           D == {i \in 0..n : ~Told(i)}
<1>6. CASE D = {}
  <2>1. n \in 0..n
    BY <1>1
  <2>2. Told(n)
    BY <1>6, <2>1
  <2>3. u = v /\ \A j \in 1..n : s[j] = t[j]
    BY <1>4, <2>2
  <2> QED BY <2>3, SeqEqual DEF n
<1>7. CASE D # {}
  <2>1. D \in SUBSET Nat
    BY <1>1
  <2>2. PICK i \in D : \A m \in D : i <= m
    <3> HIDE DEF D
    <3> QED BY <1>7, <2>1, LeastNumber
  <2>3. i \in 0..n /\ i \in Nat /\ ~Told(i)
    BY <1>1
  <2>4. CASE i = 0
    <3>1. \A x, y \in Octets : Join(g[i], x) = Join(h[i], y) => x = y
      BY <1>5, <2>4, EmptyOctets
    <3>2. 1..i = {}
      BY <2>4
    <3> QED BY <2>3, <3>1, <3>2
  <2>5. CASE i # 0
    <3>1. i - 1 \in 0..n /\ ~(i <= i - 1) /\ i \in 1..n
      BY <1>1, <2>3, <2>5
    <3>2. Told(i - 1)
      <4>1. i - 1 \notin D
        BY <2>2, <3>1
      <4> QED BY <3>1, <4>1
    <3> DEFINE a == s[i]
               b == t[i]
    <3>3. /\ g[i] = Join(g[i - 1], a) /\ h[i] = Join(h[i - 1], b)
          /\ g[i - 1] \in Octets /\ h[i - 1] \in Octets /\ a \in Octets /\ b \in Octets
          /\ Apart(a, b)
      BY <1>1, <1>5, <3>1 DEF n
    <3>4. ASSUME NEW x \in Octets, NEW y \in Octets, Join(g[i], x) = Join(h[i], y)
          PROVE  x = y /\ \A j \in 1..i : s[j] = t[j]
      <4> HIDE DEF a, b
      <4>1. Join(g[i], x) = Join(g[i - 1], Join(a, x))
        BY <3>3, JoinedTwice
      <4>2. Join(h[i], y) = Join(h[i - 1], Join(b, y))
        BY <3>3, JoinedTwice
      <4>3. Join(a, x) \in Octets /\ Join(b, y) \in Octets
        BY <3>3, JoinedType
      <4>4. Join(a, x) = Join(b, y) /\ \A j \in 1..(i - 1) : s[j] = t[j]
        BY <3>2, <3>4, <4>1, <4>2, <4>3
      <4>5. a = b /\ x = y
        BY <3>3, <4>4, ApartUse
      <4>6. \A j \in 1..i : j = i \/ j \in 1..(i - 1)
        BY <2>3
      <4> QED BY <4>4, <4>5, <4>6 DEF a, b
    <3> QED BY <2>3, <3>4
  <2> QED BY <2>4, <2>5
<1> QED BY <1>6, <1>7

LEMMA PushAllList ==
  ASSUME NEW texts \in Seq(Bytes)
  PROVE  LET list == [i \in DOMAIN texts |-> PushBytes(texts[i])]
         IN /\ list \in Seq(Octets) /\ Len(list) = Len(texts)
            /\ \A i \in 1..Len(texts) : list[i] = PushBytes(texts[i])
            /\ PushAll(texts) = FlattenSeq(list)
<1> DEFINE list == [i \in DOMAIN texts |-> PushBytes(texts[i])]
<1>1. /\ Len(texts) \in Nat /\ DOMAIN texts = 1..Len(texts)
      /\ \A i \in 1..Len(texts) : texts[i] \in Bytes
  OBVIOUS
<1>2. \A i \in 1..Len(texts) : PushBytes(texts[i]) \in Octets
  BY <1>1, PushBytesType
<1>3. list \in [1..Len(texts) -> Octets]
  BY <1>1, <1>2
<1>4. list \in Seq(Octets) /\ Len(list) = Len(texts)
  <2> HIDE DEF list
  <2> QED BY <1>1, <1>3
<1>5. \A i \in 1..Len(texts) : list[i] = PushBytes(texts[i])
  BY <1>1
<1>6. PushAll(texts) = FlattenSeq(list)
  BY DEF PushAll
<1> QED BY <1>4, <1>5, <1>6

LEMMA PushAllType ==
  ASSUME NEW texts \in Seq(Bytes)
  PROVE  PushAll(texts) \in Octets
BY PushAllList, FlattenType

\* As many texts that come to the same are the same, whatever comes after.
LEMMA PushAllTold ==
  ASSUME NEW a \in Seq(Bytes), NEW b \in Seq(Bytes), Len(a) = Len(b),
         NEW x \in Octets, NEW y \in Octets, Join(PushAll(a), x) = Join(PushAll(b), y)
  PROVE  a = b /\ x = y
<1> DEFINE s == [i \in DOMAIN a |-> PushBytes(a[i])]
           t == [i \in DOMAIN b |-> PushBytes(b[i])]
<1>1. /\ s \in Seq(Octets) /\ Len(s) = Len(a) /\ \A i \in 1..Len(a) : s[i] = PushBytes(a[i])
      /\ PushAll(a) = FlattenSeq(s)
  BY PushAllList
<1>2. /\ t \in Seq(Octets) /\ Len(t) = Len(b) /\ \A i \in 1..Len(b) : t[i] = PushBytes(b[i])
      /\ PushAll(b) = FlattenSeq(t)
  BY PushAllList
<1> HIDE DEF s, t
<1>3. \A i \in 1..Len(a) : a[i] \in Bytes /\ b[i] \in Bytes
  OBVIOUS
<1>4. \A i \in 1..Len(s) : Apart(s[i], t[i])
  BY <1>1, <1>2, <1>3, BytesApart
<1>5. s = t /\ x = y
  BY <1>1, <1>2, <1>4, FlattenTold
<1>6. \A i \in 1..Len(a) : a[i] = b[i]
  <2> SUFFICES ASSUME NEW i \in 1..Len(a) PROVE a[i] = b[i]
    OBVIOUS
  <2>1. PushBytes(a[i]) = PushBytes(b[i])
    BY <1>1, <1>2, <1>5
  <2> QED BY <1>3, <2>1, PushBytesTold
<1> QED BY <1>5, <1>6, SeqEqual

\* A list of texts, which starts with how many they are.
LEMMA PushListIs ==
  ASSUME NEW c \in Lists
  PROVE  /\ c \in Seq(Bytes) /\ Len(c) \in Sizes
         /\ PushLen(Len(c)) \in Octets /\ Len(PushLen(Len(c))) = 4
         /\ PushAll(c) \in Octets
         /\ PushList(c) = Join(PushLen(Len(c)), PushAll(c))
         /\ PushList(c) \in Octets
<1>1. c \in Seq(Bytes) /\ Len(c) \in Sizes
  BY DEF Lists
<1>2. Len(c) \in Nat
  BY <1>1 DEF Sizes
<1>3. PushLen(Len(c)) \in Octets /\ Len(PushLen(Len(c))) = 4
  BY <1>2, PushLenType
<1>4. PushAll(c) \in Octets
  BY <1>1, PushAllType
<1>5. PushList(c) = Join(PushLen(Len(c)), PushAll(c))
  BY DEF PushList, Join
<1> QED BY <1>1, <1>3, <1>4, <1>5, JoinedType

LEMMA PushListTold ==
  ASSUME NEW a \in Lists, NEW b \in Lists,
         NEW x \in Octets, NEW y \in Octets, Join(PushList(a), x) = Join(PushList(b), y)
  PROVE  a = b /\ x = y
<1> DEFINE la == PushLen(Len(a))
           lb == PushLen(Len(b))
           ta == PushAll(a)
           tb == PushAll(b)
<1>1. /\ la \in Octets /\ lb \in Octets /\ Len(la) = Len(lb)
      /\ ta \in Octets /\ tb \in Octets
      /\ PushList(a) = Join(la, ta) /\ PushList(b) = Join(lb, tb)
  BY PushListIs
<1> HIDE DEF la, lb, ta, tb
<1>2. Join(la, Join(ta, x)) = Join(lb, Join(tb, y))
  BY <1>1, JoinedTwice
<1>3. Join(ta, x) \in Octets /\ Join(tb, y) \in Octets
  BY <1>1, JoinedType
<1>4. la = lb /\ Join(ta, x) = Join(tb, y)
  BY <1>1, <1>2, <1>3, SameStart
<1>5. Len(a) = Len(b)
  BY <1>4, PushListIs, LengthTold DEF la, lb
<1> QED BY <1>4, <1>5, PushListIs, PushAllTold DEF ta, tb

LEMMA PushListApart ==
  ASSUME NEW a \in Lists, NEW b \in Lists, PushList(a) = PushList(b)
  PROVE  a = b
<1>1. Join(PushList(a), <<>>) = Join(PushList(b), <<>>) /\ <<>> \in Octets
  BY EmptyOctets
<1> QED BY <1>1, PushListTold

LEMMA IpfsTold ==
  ASSUME NEW cid \in Bytes, NEW content \in Octets, Framed(DomainDocument, content) \in Bytes
  PROVE  /\ IpfsDigest(cid, content)
               = Framed(DomainIpfs,
                        Join(PushBytes(cid), PushBytes(Framed(DomainDocument, content))))
         /\ Join(PushBytes(cid), PushBytes(Framed(DomainDocument, content))) \in Octets
         /\ PushBytes(cid) \in Octets /\ PushBytes(Framed(DomainDocument, content)) \in Octets
<1> DEFINE document == Framed(DomainDocument, content)
<1>1. IpfsDigest(cid, content) = Framed(DomainIpfs, Join(PushBytes(cid), PushBytes(document)))
  BY DEF IpfsDigest, Join
<1> HIDE DEF document
<1>2. PushBytes(cid) \in Octets /\ PushBytes(document) \in Octets
  BY PushBytesType DEF document
<1>3. Join(PushBytes(cid), PushBytes(document)) \in Octets
  BY <1>2, JoinedType
<1> QED BY <1>1, <1>2, <1>3 DEF document

LEMMA DomainsOfFiles == DomainIpfs \in Domains /\ DomainDocument \in Domains
  BY DEF DomainIpfs, DomainDocument, Domains

(* authorization.rs chunks_digest and ipfs_digest: whatever the texts, the *)
(* digest of a list of fragments is that of no other list and of no other  *)
(* domain, a file in IPFS has the digest of no other and of no fragments.  *)
THEOREM FilesAreToldApart ==
  ASSUME NEW domain \in Domains, NEW other \in Domains \ {DomainIpfs},
         NEW chunks, NEW others, IsFiles(chunks), IsFiles(others)
  PROVE  FilesToldApart(domain, chunks, other, others)
<1> DEFINE FileTexts == {c \in Lists : IsFiles(c)}
<1>0. chunks \in FileTexts /\ others \in FileTexts
  BY DEF IsFiles
<1> USE <1>0
<1> HIDE DEF FileTexts
<1>1. \A c \in FileTexts : /\ c \in Lists /\ PushList(c) \in Octets
                       /\ ChunksDigest(domain, c) = Framed(domain, PushList(c))
                       /\ ChunksDigest(other, c) = Framed(other, PushList(c))
  BY PushListIs DEF FileTexts, ChunksDigest
<1>2. (ChunksDigest(domain, chunks) = ChunksDigest(other, others))
          <=> (domain = other /\ chunks = others)
  <2>1. ASSUME ChunksDigest(domain, chunks) = ChunksDigest(other, others)
        PROVE  domain = other /\ chunks = others
    <3>1. Framed(domain, PushList(chunks)) = Framed(other, PushList(others))
      BY <1>1, <2>1
    <3>2. domain = other /\ PushList(chunks) = PushList(others)
      BY <1>1, <3>1, FramedTold
    <3> QED BY <1>1, <3>2, PushListApart
  <2> QED BY <2>1
<1>3. ASSUME NEW c \in FileTexts, Len(c) = 2
      PROVE  /\ c[1] \in Bytes /\ c[2] \in Octets /\ Framed(DomainDocument, c[2]) \in Bytes
             /\ c = <<c[1], c[2]>>
  <2>1. c \in Seq(Bytes) /\ 1 \in 1..Len(c) /\ 2 \in 1..Len(c)
    BY <1>1, <1>3 DEF Lists
  <2>2. c[1] \in Bytes /\ c[2] \in Bytes
    BY <2>1, ElementOfSeq
  <2>3. Framed(DomainDocument, c[2]) \in Bytes
    BY <2>1 DEF FileTexts, IsFiles
  <2>4. c = <<c[1], c[2]>>
    BY <1>3, <2>1
  <2> QED BY <2>2, <2>3, <2>4 DEF Bytes
<1>4. ASSUME Len(chunks) = 2
      PROVE  IpfsDigest(chunks[1], chunks[2]) # ChunksDigest(other, others)
  <2> DEFINE body == Join(PushBytes(chunks[1]), PushBytes(Framed(DomainDocument, chunks[2])))
  <2>1. IpfsDigest(chunks[1], chunks[2]) = Framed(DomainIpfs, body) /\ body \in Octets
    BY <1>3, <1>4, IpfsTold
  <2> HIDE DEF body
  <2>2. Framed(DomainIpfs, body) = Framed(other, PushList(others)) => DomainIpfs = other
    BY <1>1, <2>1, FramedTold, DomainsOfFiles
  <2> QED BY <1>1, <2>1, <2>2
<1>5. ASSUME Len(chunks) = 2, Len(others) = 2,
             IpfsDigest(chunks[1], chunks[2]) = IpfsDigest(others[1], others[2])
      PROVE  chunks = others
  <2> DEFINE p == PushBytes(chunks[1])
             q == PushBytes(others[1])
             u == Framed(DomainDocument, chunks[2])
             v == Framed(DomainDocument, others[2])
  <2>1. /\ chunks[1] \in Bytes /\ chunks[2] \in Octets /\ u \in Bytes
        /\ others[1] \in Bytes /\ others[2] \in Octets /\ v \in Bytes
    BY <1>3, <1>5
  <2>2. /\ IpfsDigest(chunks[1], chunks[2]) = Framed(DomainIpfs, Join(p, PushBytes(u)))
        /\ Join(p, PushBytes(u)) \in Octets /\ PushBytes(u) \in Octets
    BY <2>1, IpfsTold
  <2>3. /\ IpfsDigest(others[1], others[2]) = Framed(DomainIpfs, Join(q, PushBytes(v)))
        /\ Join(q, PushBytes(v)) \in Octets /\ PushBytes(v) \in Octets
    BY <2>1, IpfsTold
  <2> HIDE DEF u, v
  <2>4. Join(p, PushBytes(u)) = Join(q, PushBytes(v))
    <3> HIDE DEF p, q
    <3> QED BY <1>5, <2>2, <2>3, FramedTold, DomainsOfFiles
  <2>5. chunks[1] = others[1] /\ PushBytes(u) = PushBytes(v)
    BY <2>1, <2>2, <2>3, <2>4, BytesTold
  <2>6. u = v
    BY <2>1, <2>5, PushBytesTold
  <2>7. chunks[2] = others[2]
    BY <2>1, <2>6, FramedTold, DomainsOfFiles DEF u, v
  <2> QED BY <1>3, <1>5, <2>5, <2>7
<1> QED BY <1>2, <1>4, <1>5 DEF FilesToldApart

-----------------------------------------------------------------------------
(* Texts: the order of texts, and what a sequence in order is.             *)

LEMMA OctetsAreNumbers ==
  ASSUME NEW a \in Octets
  PROVE  Len(a) \in Nat /\ \A i \in 1..Len(a) : a[i] \in Int
<1>1. \A i \in 1..Len(a) : a[i] \in 0..255
  BY ElementOfSeq DEF Octets
<1>2. \A k \in 0..255 : k \in Int
  OBVIOUS
<1> QED BY <1>1, <1>2, OctetsLength

LEMMA PrecedesTotal ==
  ASSUME NEW a \in Octets, NEW b \in Octets, a # b
  PROVE  Precedes(a, b) \/ Precedes(b, a)
<1> DEFINE m == Len(a)
           n == Len(b)
<1>1. m \in Nat /\ n \in Nat /\ \A i \in 1..m : a[i] \in Int
  BY OctetsAreNumbers
<1>2. \A i \in 1..n : b[i] \in Int
  BY OctetsAreNumbers
<1>3. CASE \A i \in 1..m : i <= n => a[i] = b[i]
  <2>1. m # n
    BY <1>3, SameOctets
  <2>2. CASE m < n
    <3>1. m + 1 \in 1..n /\ (m + 1) - 1 <= m /\ ~(m + 1 <= m)
      BY <1>1, <2>2
    <3>2. \A k \in 1..(m + 1) - 1 : a[k] = b[k]
      BY <1>1, <1>3, <2>2
    <3> QED BY <3>1, <3>2 DEF Precedes
  <2>3. CASE n < m
    <3>1. n + 1 \in 1..m /\ (n + 1) - 1 <= n /\ ~(n + 1 <= n)
      BY <1>1, <2>3
    <3>2. \A k \in 1..(n + 1) - 1 : b[k] = a[k]
      BY <1>1, <1>3, <2>3
    <3> QED BY <3>1, <3>2 DEF Precedes
  <2> QED BY <1>1, <2>1, <2>2, <2>3
<1>4. CASE ~ \A i \in 1..m : i <= n => a[i] = b[i]
  <2> DEFINE D == {i \in 1..m : i <= n /\ a[i] # b[i]}
  <2>1. D \in SUBSET Nat /\ D # {}
    BY <1>4
  <2>2. PICK i \in D : \A k \in D : i <= k
    <3> HIDE DEF D
    <3> QED BY <2>1, LeastNumber
  <2>3. /\ i \in 1..m /\ i \in 1..n /\ i - 1 <= m /\ i - 1 <= n /\ i <= m /\ i <= n
        /\ a[i] # b[i]
    BY <1>1
  <2>4. \A k \in 1..i - 1 : a[k] = b[k]
    <3>1. ASSUME NEW k \in 1..i - 1 PROVE a[k] = b[k]
      <4>1. k \in 1..m /\ k <= n /\ ~(i <= k)
        BY <1>1, <2>3
      <4>2. k \notin D
        BY <2>2, <4>1
      <4> QED BY <4>1, <4>2
    <3> QED BY <3>1
  <2> HIDE DEF D
  <2>5. CASE a[i] < b[i]
    BY <2>3, <2>4, <2>5 DEF Precedes
  <2>6. CASE b[i] < a[i]
    BY <2>3, <2>4, <2>6 DEF Precedes
  <2> QED BY <1>1, <1>2, <2>3, <2>5, <2>6
<1> QED BY <1>3, <1>4

LEMMA PrecedesOneWay ==
  ASSUME NEW a \in Octets, NEW b \in Octets, Precedes(a, b)
  PROVE  ~Precedes(b, a)
<1>1. Len(a) \in Nat /\ Len(b) \in Nat /\ (\A i \in 1..Len(a) : a[i] \in Int)
      /\ \A i \in 1..Len(b) : b[i] \in Int
  BY OctetsAreNumbers
<1>2. PICK i \in 1..Len(b) : /\ i - 1 <= Len(a)
                             /\ \A k \in 1..i - 1 : a[k] = b[k]
                             /\ i <= Len(a) => a[i] < b[i]
  BY DEF Precedes
<1>3. ASSUME Precedes(b, a) PROVE FALSE
  <2>1. PICK j \in 1..Len(a) : /\ j - 1 <= Len(b)
                               /\ \A k \in 1..j - 1 : b[k] = a[k]
                               /\ j <= Len(b) => b[j] < a[j]
    BY <1>3 DEF Precedes
  <2>2. CASE i <= Len(a) /\ i < j
    <3>1. a[i] = b[i]
      BY <1>1, <2>1, <2>2
    <3> QED BY <1>1, <1>2, <2>2, <3>1
  <2>3. CASE j <= Len(b) /\ j < i
    <3>1. a[j] = b[j]
      BY <1>1, <1>2, <2>3
    <3> QED BY <1>1, <2>1, <2>3, <3>1
  <2>4. CASE i = j
    BY <1>1, <1>2, <2>1, <2>4
  <2> QED BY <1>1, <1>2, <2>1, <2>2, <2>3, <2>4
<1> QED BY <1>3

LEMMA PrecedesNotItself ==
  ASSUME NEW a \in Octets
  PROVE  ~Precedes(a, a)
BY PrecedesOneWay

LEMMA PrecedesOn ==
  ASSUME NEW a \in Octets, NEW b \in Octets, NEW c \in Octets, Precedes(a, b), Precedes(b, c)
  PROVE  Precedes(a, c)
<1>1. Len(a) \in Nat /\ Len(b) \in Nat /\ Len(c) \in Nat
      /\ (\A i \in 1..Len(a) : a[i] \in Int) /\ (\A i \in 1..Len(b) : b[i] \in Int)
      /\ \A i \in 1..Len(c) : c[i] \in Int
  BY OctetsAreNumbers
<1>2. PICK i \in 1..Len(b) : /\ i - 1 <= Len(a)
                             /\ \A k \in 1..i - 1 : a[k] = b[k]
                             /\ i <= Len(a) => a[i] < b[i]
  BY DEF Precedes
<1>3. PICK j \in 1..Len(c) : /\ j - 1 <= Len(b)
                             /\ \A k \in 1..j - 1 : b[k] = c[k]
                             /\ j <= Len(b) => b[j] < c[j]
  BY DEF Precedes
<1>4. CASE i < j
  <2>1. i \in 1..Len(c) /\ b[i] = c[i] /\ \A k \in 1..i - 1 : a[k] = c[k]
    BY <1>1, <1>2, <1>3, <1>4
  <2> QED BY <1>2, <2>1 DEF Precedes
<1>5. CASE j < i
  <2>1. j \in 1..Len(c) /\ j - 1 <= Len(a) /\ \A k \in 1..j - 1 : a[k] = c[k]
    BY <1>1, <1>2, <1>3, <1>5
  <2>2. j <= Len(b) /\ j \in 1..i - 1 /\ a[j] = b[j]
    BY <1>1, <1>2, <1>3, <1>5
  <2> QED BY <1>3, <2>1, <2>2 DEF Precedes
<1>6. CASE i = j
  <2>1. \A k \in 1..i - 1 : a[k] = c[k]
    BY <1>1, <1>2, <1>3, <1>6
  <2>2. i <= Len(a) => a[i] < c[i]
    BY <1>1, <1>2, <1>3, <1>6
  <2> QED BY <1>2, <1>3, <1>6, <2>1, <2>2 DEF Precedes
<1> QED BY <1>1, <1>4, <1>5, <1>6

\* i comes before j: the text of i precedes that of j, or is the same and i is
\* the first of them.
Earlier(k, i, j) == Precedes(k[i], k[j]) \/ (k[i] = k[j] /\ i < j)

LEMMA EarlierOrders ==
  ASSUME NEW n \in Nat, NEW k \in [1..n -> Octets]
  PROVE  /\ \A i \in 1..n : ~Earlier(k, i, i)
         /\ \A i, j \in 1..n : i # j => Earlier(k, i, j) \/ Earlier(k, j, i)
         /\ \A i, j, m \in 1..n : Earlier(k, i, j) /\ Earlier(k, j, m) => Earlier(k, i, m)
<1>1. \A i \in 1..n : k[i] \in Octets /\ i \in Int
  OBVIOUS
<1>2. \A i \in 1..n : ~Earlier(k, i, i)
  BY <1>1, PrecedesNotItself DEF Earlier
<1>3. ASSUME NEW i \in 1..n, NEW j \in 1..n, i # j
      PROVE  Earlier(k, i, j) \/ Earlier(k, j, i)
  <2>1. CASE k[i] = k[j]
    BY <1>1, <1>3, <2>1 DEF Earlier
  <2>2. CASE k[i] # k[j]
    BY <1>1, <2>2, PrecedesTotal DEF Earlier
  <2> QED BY <2>1, <2>2
<1>4. ASSUME NEW i \in 1..n, NEW j \in 1..n, NEW m \in 1..n,
             Earlier(k, i, j), Earlier(k, j, m)
      PROVE  Earlier(k, i, m)
  <2>0. i \in Int /\ j \in Int /\ m \in Int
    OBVIOUS
  <2>1. CASE k[i] = k[j] /\ k[j] = k[m]
    <3>1. i < j /\ j < m
      BY <1>1, <1>4, <2>1, PrecedesNotItself DEF Earlier
    <3> QED BY <2>0, <2>1, <3>1 DEF Earlier
  <2>2. CASE k[i] = k[j] /\ k[j] # k[m]
    BY <1>4, <2>2 DEF Earlier
  <2>3. CASE k[i] # k[j] /\ k[j] = k[m]
    BY <1>4, <2>3 DEF Earlier
  <2>4. CASE k[i] # k[j] /\ k[j] # k[m]
    <3>1. Precedes(k[i], k[j]) /\ Precedes(k[j], k[m])
      BY <1>4, <2>4 DEF Earlier
    <3> QED BY <1>1, <3>1, PrecedesOn DEF Earlier
  <2> QED BY <2>1, <2>2, <2>3, <2>4
<1> QED BY <1>2, <1>3, <1>4

\* A place for each element: how many come before it, and one.
LEMMA PlacesExist ==
  ASSUME NEW n \in Nat, NEW k \in [1..n -> Octets]
  PROVE  \E q \in [1..n -> 1..n] :
             IsInjective(q) /\ \A i, j \in 1..n : i < j => ~Precedes(k[q[j]], k[q[i]])
<1> DEFINE N == 1..n
           before(i) == {j \in N : Earlier(k, j, i)}
           rank == [i \in N |-> Cardinality(before(i)) + 1]
<1>1. /\ IsFiniteSet(N) /\ Cardinality(N) = n
      /\ \A i \in N : IsFiniteSet(before(i)) /\ Cardinality(before(i)) \in Nat
  <2>1. IsFiniteSet(N) /\ Cardinality(N) = n
    BY FS_Interval
  <2>2. \A i \in N : before(i) \in SUBSET N
    OBVIOUS
  <2> HIDE DEF N, before
  <2> QED BY <2>1, <2>2, FS_Subset, FS_CardinalityType
<1>2. ASSUME NEW i \in N, NEW j \in N, Earlier(k, i, j)
      PROVE  rank[i] < rank[j]
  <2>1. before(i) \in SUBSET before(j)
    BY <1>2, EarlierOrders
  <2>2. i \in before(j) /\ i \notin before(i)
    BY <1>2, EarlierOrders
  <2>3. Cardinality(before(i)) \in Nat /\ Cardinality(before(j)) \in Nat
        /\ IsFiniteSet(before(j))
    BY <1>1
  <2>4. rank[i] = Cardinality(before(i)) + 1 /\ rank[j] = Cardinality(before(j)) + 1
    OBVIOUS
  <2> HIDE DEF before, rank
  <2>5. Cardinality(before(i)) <= Cardinality(before(j))
        /\ Cardinality(before(i)) # Cardinality(before(j))
    BY <2>1, <2>2, <2>3, FS_Subset
  <2> QED BY <2>3, <2>4, <2>5
<1>3. \A i \in N : rank[i] \in N
  <2>1. ASSUME NEW i \in N PROVE rank[i] \in N
    <3>1. before(i) \in SUBSET N /\ i \notin before(i)
      BY EarlierOrders
    <3>2. rank[i] = Cardinality(before(i)) + 1 /\ Cardinality(before(i)) \in Nat
      BY <1>1
    <3> HIDE DEF before, rank
    <3>3. Cardinality(before(i)) <= n /\ Cardinality(before(i)) # n
      <4> HIDE DEF N
      <4> QED BY <1>1, <3>1, FS_Subset
    <3> QED BY <3>2, <3>3
  <2> QED BY <2>1
<1>4. rank \in Surjection(N, N)
  <2>1. rank \in [N -> N]
    <3>1. rank = [i \in N |-> rank[i]]
      OBVIOUS
    <3> HIDE DEF rank, N
    <3> QED BY <1>3, <3>1
  <2>2. \A i, j \in N : rank[i] = rank[j] => i = j
    <3>1. ASSUME NEW i \in N, NEW j \in N, rank[i] = rank[j], i # j PROVE FALSE
      <4>1. rank[i] \in Int /\ rank[j] \in Int
        <5> HIDE DEF rank
        <5> QED BY <1>3
      <4>2. rank[i] < rank[j] \/ rank[j] < rank[i]
        <5>1. Earlier(k, i, j) \/ Earlier(k, j, i)
          BY <3>1, EarlierOrders
        <5> HIDE DEF rank, N
        <5> QED BY <1>2, <5>1
      <4> HIDE DEF rank
      <4> QED BY <3>1, <4>1, <4>2
    <3> QED BY <3>1
  <2> HIDE DEF rank, N
  <2>3. rank \in Injection(N, N)
    BY <2>1, <2>2 DEF Injection, IsInjective
  <2> QED BY <1>1, <2>3, FS_Injection
<1> DEFINE at(r) == CHOOSE i \in N : rank[i] = r
           q == [r \in N |-> at(r)]
<1>5. \A r \in N : q[r] \in N /\ rank[q[r]] = r
  <2> HIDE DEF rank, N
  <2>1. \A r \in N : \E i \in N : rank[i] = r
    BY <1>4 DEF Surjection
  <2> QED BY <2>1
<1>6. q \in [N -> N] /\ IsInjective(q)
  <2>1. q = [r \in N |-> q[r]] /\ DOMAIN q = N
    <3> HIDE DEF at, rank, N
    <3> QED OBVIOUS
  <2> HIDE DEF q, rank, N
  <2> QED BY <1>5, <2>1 DEF IsInjective
<1>7. ASSUME NEW i \in N, NEW j \in N, i < j
      PROVE  ~Precedes(k[q[j]], k[q[i]])
  <2>1. q[i] \in N /\ q[j] \in N /\ rank[q[i]] = i /\ rank[q[j]] = j
    BY <1>5
  <2> HIDE DEF q, rank
  <2>2. ~Earlier(k, q[j], q[i])
    BY <1>2, <1>7, <2>1
  <2> QED BY <2>2 DEF Earlier
<1> HIDE DEF q, rank
<1> QED BY <1>6, <1>7

LEMMA SortedByIs ==
  ASSUME NEW n \in Nat, NEW seq, DOMAIN seq = 1..n, NEW key,
         \A i \in 1..n : key[seq[i]] \in Octets
  PROVE  LET s == SortedBy(seq, key)
         IN /\ s \in Reorderings(seq)
            /\ \A i, j \in DOMAIN s : i < j => ~Precedes(key[s[j]], key[s[i]])
<1> DEFINE k == [i \in 1..n |-> key[seq[i]]]
<1>1. k \in [1..n -> Octets]
  OBVIOUS
<1>2. PICK q \in [1..n -> 1..n] :
          IsInjective(q) /\ \A i, j \in 1..n : i < j => ~Precedes(k[q[j]], k[q[i]])
  <2> HIDE DEF k
  <2> QED BY <1>1, PlacesExist
<1> DEFINE s == [i \in 1..n |-> seq[q[i]]]
<1>3. s \in Reorderings(seq)
  BY <1>2 DEF Reorderings
<1>4. \A i, j \in DOMAIN s : i < j => ~Precedes(key[s[j]], key[s[i]])
  BY <1>2
<1> HIDE DEF s
<1> QED BY <1>3, <1>4 DEF SortedBy

LEMMA SortedIs ==
  ASSUME NEW texts \in Seq(Bytes)
  PROVE  /\ Sorted(texts) \in Seq(Bytes) /\ Len(Sorted(texts)) = Len(texts)
         /\ ToSet(Sorted(texts)) = ToSet(texts)
<1>1. Len(texts) \in Nat /\ DOMAIN texts = 1..Len(texts) /\ \A i \in 1..Len(texts) : texts[i] \in Octets
  BY ElementOfSeq, LenProperties DEF Bytes
<1> DEFINE key == [t \in ToSet(texts) |-> t]
<1>2. \A i \in 1..Len(texts) : key[texts[i]] \in Octets
  BY <1>1 DEF ToSet
<1> HIDE DEF key
<1>3. SortedBy(texts, key) \in Reorderings(texts)
  BY <1>1, <1>2, SortedByIs
<1>4. Sorted(texts) \in Reorderings(texts)
  BY <1>3 DEF Sorted, key
<1> QED BY <1>4, ReorderedIs

LEMMA SortedList ==
  ASSUME NEW texts \in Lists
  PROVE  Sorted(texts) \in Lists
BY SortedIs DEF Lists


-----------------------------------------------------------------------------
(* Values: the parts of a value are values that nest less, so that what is *)
(* computed of a value from its parts is well defined.                     *)

Layering(f, v, m) ==
    f = [n \in 0..m |-> IF n = 0 THEN {v} ELSE UNION {Children(w) : w \in f[n - 1]}]

LEMMA LayeringsExist ==
  ASSUME NEW v, NEW m \in Nat
  PROVE  \E f : Layering(f, v, m)
<1> DEFINE D == {k \in 0..m : ~ \E f : Layering(f, v, k)}
<1>1. CASE D = {}
  <2>1. m \in 0..m
    OBVIOUS
  <2> QED BY <1>1, <2>1
<1>2. CASE D # {}
  <2>1. D \in SUBSET Nat
    OBVIOUS
  <2>2. PICK n \in D : \A k \in D : n <= k
    <3> HIDE DEF D
    <3> QED BY <1>2, <2>1, LeastNumber
  <2>3. n \in 0..m /\ n \in Nat
    OBVIOUS
  <2>4. CASE n = 0
    <3> DEFINE f == [k \in 0..n |-> {v}]
    <3>1. Layering(f, v, n)
      BY <2>4 DEF Layering
    <3> HIDE DEF f
    <3> QED BY <3>1
  <2>5. CASE n # 0
    <3>1. n - 1 \in 0..m /\ ~(n <= n - 1)
      BY <2>3, <2>5
    <3>2. PICK g : Layering(g, v, n - 1)
      <4>1. n - 1 \notin D
        BY <2>2, <3>1
      <4> QED BY <3>1, <4>1
    <3> DEFINE next(k, f) == IF k = 0 THEN {v} ELSE UNION {Children(w) : w \in f[k - 1]}
               h == [k \in 0..n |-> next(k, g)]
    <3>3. \A k \in 0..(n - 1) : g[k] = next(k, g)
      BY <3>2 DEF Layering
    <3>4. \A k \in 0..(n - 1) : h[k] = g[k]
      <4>1. \A k \in 0..(n - 1) : k \in 0..n
        BY <2>3
      <4> HIDE DEF next
      <4> QED BY <3>3, <4>1
    <3>5. ASSUME NEW k \in 0..n
          PROVE  next(k, g) = next(k, h)
      <4>1. k = 0 \/ k - 1 \in 0..(n - 1)
        BY <2>3
      <4> HIDE DEF h
      <4> QED BY <3>4, <4>1
    <3>6. h = [k \in 0..n |-> next(k, h)]
      <4> HIDE DEF next
      <4>1. \A k \in 0..n : h[k] = next(k, h)
        <5>1. \A k \in 0..n : h[k] = next(k, g)
          OBVIOUS
        <5> HIDE DEF h
        <5> QED BY <3>5, <5>1
      <4>2. h = [k \in 0..n |-> h[k]]
        OBVIOUS
      <4> HIDE DEF h
      <4> QED BY <4>1, <4>2
    <3>7. Layering(h, v, n)
      <4> HIDE DEF h
      <4> QED BY <3>6 DEF Layering
    <3> QED BY <3>7
  <2> QED BY <2>4, <2>5
<1> QED BY <1>1, <1>2

LEMMA LayersAre ==
  ASSUME NEW v
  PROVE  /\ Layers(v)[0] = {v}
         /\ \A n \in 1..MaxDepth : Layers(v)[n] = UNION {Children(w) : w \in Layers(v)[n - 1]}
<1>1. MaxDepth \in Nat
  BY ValuesAssumption
<1>2. Layers(v) = CHOOSE f : Layering(f, v, MaxDepth)
  BY DEF Layers, Layering
<1>3. Layering(Layers(v), v, MaxDepth)
  BY <1>1, <1>2, LayeringsExist
<1> DEFINE f == Layers(v)
<1> HIDE DEF f
<1>4. f = [n \in 0..MaxDepth |-> IF n = 0 THEN {v} ELSE UNION {Children(w) : w \in f[n - 1]}]
  BY <1>3 DEF f, Layering
<1>5. \A n \in 0..MaxDepth : f[n] = IF n = 0 THEN {v} ELSE UNION {Children(w) : w \in f[n - 1]}
  BY <1>4
<1>6. 0 \in 0..MaxDepth /\ \A n \in 1..MaxDepth : n \in 0..MaxDepth /\ n # 0
  BY <1>1
<1> QED BY <1>5, <1>6 DEF f

\* A value that nests no deeper than so many levels.
Flat(v, n) == \A w \in Layers(v)[n] : Children(w) = {}

LEMMA ChildLayers ==
  ASSUME NEW v, NEW c \in Children(v), NEW n \in 0..(MaxDepth - 1)
  PROVE  Layers(c)[n] \subseteq Layers(v)[n + 1]
<1> DEFINE D == {k \in 0..(MaxDepth - 1) : ~(Layers(c)[k] \subseteq Layers(v)[k + 1])}
<1>1. MaxDepth \in Nat
  BY ValuesAssumption
<1>2. SUFFICES ASSUME D # {} PROVE FALSE
  OBVIOUS
<1>3. D \in SUBSET Nat
  BY <1>1
<1>4. PICK k \in D : \A m \in D : k <= m
  <2> HIDE DEF D
  <2> QED BY <1>2, <1>3, LeastNumber
<1>5. k \in 0..(MaxDepth - 1) /\ k + 1 \in 1..MaxDepth
  BY <1>1
<1>6. Layers(v)[k + 1] = UNION {Children(w) : w \in Layers(v)[k]}
  <2>1. (k + 1) - 1 = k
    BY <1>5
  <2> QED BY <1>5, <2>1, LayersAre
<1>7. CASE k = 0
  BY <1>5, <1>6, <1>7, LayersAre
<1>8. CASE k # 0
  <2>1. k - 1 \in 0..(MaxDepth - 1) /\ ~(k <= k - 1) /\ k \in 1..MaxDepth /\ (k - 1) + 1 = k
    BY <1>1, <1>5, <1>8
  <2>2. Layers(c)[k - 1] \subseteq Layers(v)[k]
    <3>1. k - 1 \notin D
      BY <1>4, <2>1
    <3> QED BY <2>1, <3>1
  <2>3. Layers(c)[k] = UNION {Children(w) : w \in Layers(c)[k - 1]}
    BY <2>1, LayersAre
  <2> QED BY <1>6, <2>2, <2>3
<1> QED BY <1>7, <1>8

LEMMA FlatDeeper ==
  ASSUME NEW v, NEW n \in 0..(MaxDepth - 1), Flat(v, n)
  PROVE  Layers(v)[n + 1] = {} /\ Flat(v, n + 1)
<1>1. n + 1 \in 1..MaxDepth /\ (n + 1) - 1 = n
  BY ValuesAssumption
<1>2. Layers(v)[n + 1] = UNION {Children(w) : w \in Layers(v)[n]}
  BY <1>1, LayersAre
<1> QED BY <1>2 DEF Flat

LEMMA FlatChild ==
  ASSUME NEW v, NEW c \in Children(v), NEW n \in 0..MaxDepth, Flat(v, n)
  PROVE  n \in 1..MaxDepth /\ n - 1 \in 0..MaxDepth /\ Flat(c, n - 1)
<1>1. MaxDepth \in Nat
  BY ValuesAssumption
<1>2. n # 0
  BY LayersAre DEF Flat
<1>3. n - 1 \in 0..(MaxDepth - 1) /\ (n - 1) + 1 = n
  BY <1>1, <1>2
<1>4. Layers(c)[n - 1] \subseteq Layers(v)[n]
  BY <1>3, ChildLayers
<1> QED BY <1>1, <1>3, <1>4 DEF Flat

LEMMA DepthIs == MaxDepth \in Nat /\ MaxDepth \in 0..MaxDepth
BY ValuesAssumption

\* A value has no parts below the deepest level.
Nests(v) == Flat(v, MaxDepth)

LEMMA NestsFromFlat ==
  ASSUME NEW v, NEW n \in 0..MaxDepth, Flat(v, n)
  PROVE  Nests(v)
<1> DEFINE D == {m \in n..MaxDepth : ~Flat(v, m)}
<1>1. SUFFICES ASSUME D # {} PROVE FALSE
  BY DepthIs DEF Nests
<1>2. D \in SUBSET Nat
  BY DepthIs
<1>3. PICK k \in D : \A m \in D : k <= m
  <2> HIDE DEF D
  <2> QED BY <1>1, <1>2, LeastNumber
<1>4. k \in n..MaxDepth /\ ~Flat(v, k) /\ k # n
  OBVIOUS
<1>5. k - 1 \in n..MaxDepth /\ ~(k <= k - 1) /\ k - 1 \in 0..(MaxDepth - 1) /\ (k - 1) + 1 = k
  BY <1>4, DepthIs
<1>6. Flat(v, k - 1)
  BY <1>3, <1>5
<1>7. Flat(v, (k - 1) + 1)
  BY <1>5, <1>6, FlatDeeper
<1> QED BY <1>4, <1>5, <1>7

LEMMA ChildNests ==
  ASSUME NEW v, Nests(v), NEW c \in Children(v)
  PROVE  Nests(c) /\ Parts(c) \subseteq Parts(v)
<1>1. MaxDepth \in Nat /\ MaxDepth \in 0..MaxDepth /\ Flat(v, MaxDepth)
  BY DepthIs DEF Nests
<1>2. MaxDepth - 1 \in 0..(MaxDepth - 1) /\ (MaxDepth - 1) + 1 = MaxDepth /\ Flat(c, MaxDepth - 1)
  <2>1. MaxDepth \in 1..MaxDepth /\ Flat(c, MaxDepth - 1)
    BY <1>1, FlatChild
  <2> QED BY <1>1, <2>1
<1>3. Layers(c)[MaxDepth] = {}
  BY <1>2, FlatDeeper
<1>4. ASSUME NEW n \in 0..MaxDepth PROVE Layers(c)[n] \subseteq Parts(v)
  <2>1. CASE n = MaxDepth
    BY <1>3, <2>1
  <2>2. CASE n # MaxDepth
    <3>1. n \in 0..(MaxDepth - 1) /\ n + 1 \in 0..MaxDepth
      BY <1>1, <2>2
    <3> QED BY <3>1, ChildLayers DEF Parts
  <2> QED BY <2>1, <2>2
<1>5. Parts(c) \subseteq Parts(v)
  BY <1>4 DEF Parts
<1> QED BY <1>3, <1>5 DEF Nests, Flat

LEMMA PartNests ==
  ASSUME NEW v, Nests(v), NEW w \in Parts(v)
  PROVE  Nests(w) /\ Parts(w) \subseteq Parts(v)
<1> DEFINE Fine(x) == Nests(x) /\ Parts(x) \subseteq Parts(v)
           D == {k \in 0..MaxDepth : ~ \A x \in Layers(v)[k] : Fine(x)}
<1>1. MaxDepth \in Nat
  BY ValuesAssumption
<1>2. PICK n \in 0..MaxDepth : w \in Layers(v)[n]
  BY DEF Parts
<1>3. SUFFICES ASSUME D # {} PROVE FALSE
  BY <1>2
<1>4. D \in SUBSET Nat
  BY <1>1
<1>5. PICK k \in D : \A m \in D : k <= m
  <2> HIDE DEF D
  <2> QED BY <1>3, <1>4, LeastNumber
<1>6. k \in 0..MaxDepth
  OBVIOUS
<1>7. CASE k = 0
  BY <1>6, <1>7, LayersAre
<1>8. CASE k # 0
  <2>1. k - 1 \in 0..MaxDepth /\ ~(k <= k - 1) /\ k \in 1..MaxDepth
    BY <1>1, <1>6, <1>8
  <2>2. \A x \in Layers(v)[k - 1] : Fine(x)
    <3>1. k - 1 \notin D
      BY <1>5, <2>1
    <3> QED BY <2>1, <3>1
  <2>3. Layers(v)[k] = UNION {Children(x) : x \in Layers(v)[k - 1]}
    BY <2>1, LayersAre
  <2>4. ASSUME NEW x \in Layers(v)[k] PROVE Fine(x)
    <3>1. PICK y \in Layers(v)[k - 1] : x \in Children(y)
      BY <2>3
    <3>2. Fine(y)
      BY <2>2
    <3>3. Nests(x) /\ Parts(x) \subseteq Parts(y)
      BY <3>1, <3>2, ChildNests
    <3> QED BY <3>2, <3>3
  <2> QED BY <1>6, <2>4
<1> QED BY <1>7, <1>8

LEMMA ValueIsPart ==
  ASSUME NEW v
  PROVE  v \in Parts(v)
<1>1. 0 \in 0..MaxDepth
  BY ValuesAssumption
<1> QED BY <1>1, LayersAre DEF Parts

LEMMA ChildIsValue ==
  ASSUME NEW v, IsValue(v), NEW c \in Children(v)
  PROVE  IsValue(c) /\ Parts(c) \subseteq Parts(v)
BY ChildNests DEF IsValue, Nests, Flat

LEMMA PartIsValue ==
  ASSUME NEW v, IsValue(v), NEW w \in Parts(v)
  PROVE  IsValue(w) /\ Parts(w) \subseteq Parts(v)
BY PartNests DEF IsValue, Nests, Flat

LEMMA PartsClosed ==
  ASSUME NEW v, IsValue(v), NEW w \in Parts(v), NEW c \in Children(w)
  PROVE  c \in Parts(v)
<1>1. IsValue(w) /\ Parts(w) \subseteq Parts(v)
  BY PartIsValue
<1>2. Parts(c) \subseteq Parts(w)
  BY <1>1, ChildIsValue
<1> QED BY <1>1, <1>2, ValueIsPart

LEMMA KindsOf ==
  ASSUME NEW v, WellFormed(v)
  PROVE  /\ v.kind \in {"none", "nonfinite", "bool", "int", "number", "string", "bytes",
                        "artifact", "list", "object"}
         /\ v.kind = "none" => v = [kind |-> "none"]
         /\ v.kind = "nonfinite" => v = [kind |-> "nonfinite"]
         /\ v.kind = "bool" => v.bool \in BOOLEAN /\ v = [kind |-> "bool", bool |-> v.bool]
         /\ v.kind = "int" => v = [kind |-> "int", int |-> v.int] /\ v.int \in -Half..Half - 1
         /\ v.kind = "number" => /\ v = [kind |-> "number", num |-> v.num]
                                 /\ v.num \in [neg : BOOLEAN, mag : 0..Half - 1]
         /\ v.kind = "string" => v = [kind |-> "string", text |-> v.text] /\ v.text \in Bytes
         /\ v.kind = "bytes" => v = [kind |-> "bytes", bytes |-> v.bytes] /\ v.bytes \in Bytes
         /\ v.kind = "list" => /\ v = [kind |-> "list", items |-> v.items]
                               /\ v.items \in Seq(ToSet(v.items)) /\ Len(v.items) \in Sizes
         /\ v.kind = "object" =>
                /\ v = [kind |-> "object", fields |-> v.fields]
                /\ v.fields = [key \in DOMAIN v.fields |-> v.fields[key]]
                /\ DOMAIN v.fields \subseteq Bytes
                /\ IsFiniteSet(DOMAIN v.fields) /\ Cardinality(DOMAIN v.fields) \in Sizes
BY DEF WellFormed

\* The keys of an object: each once.
LEMMA KeysAre ==
  ASSUME NEW v, DOMAIN v.fields \subseteq Bytes, IsFiniteSet(DOMAIN v.fields)
  PROVE  /\ SortedKeys(v) \in Seq(Bytes) /\ Len(SortedKeys(v)) = Cardinality(DOMAIN v.fields)
         /\ ToSet(SortedKeys(v)) = DOMAIN v.fields
         /\ \A i \in 1..Len(SortedKeys(v)) : SortedKeys(v)[i] \in DOMAIN v.fields
<1> DEFINE S == DOMAIN v.fields
           keys == SetToSeq(S)
<1>1. keys \in Seq(S) /\ Len(keys) = Cardinality(S) /\ ToSet(keys) = S
  BY SetToSeqIs
<1>2. S \subseteq Bytes
  OBVIOUS
<1>3. SortedKeys(v) = Sorted(keys)
  BY DEF SortedKeys
<1> HIDE DEF S, keys
<1>4. Sorted(keys) \in Seq(Bytes) /\ Len(Sorted(keys)) = Cardinality(S) /\ ToSet(Sorted(keys)) = S
  <2>1. keys \in Seq(Bytes)
    BY <1>1, <1>2
  <2> QED BY <1>1, <2>1, SortedIs
<1>5. \A i \in 1..Len(Sorted(keys)) : Sorted(keys)[i] \in S
  <2>1. DOMAIN Sorted(keys) = 1..Len(Sorted(keys))
    BY <1>4, LenProperties
  <2> QED BY <1>4, <2>1 DEF ToSet
<1> QED BY <1>3, <1>4, <1>5 DEF S

-----------------------------------------------------------------------------
(* What is computed of a value from what is computed of its parts: its     *)
(* code, what is seen of it, and what it is as JSON or came from.          *)

ItemCodes(items, code) == [i \in DOMAIN items |-> code[items[i]]]
PlainFields(fields, plain) == [key \in DOMAIN fields |-> plain[fields[key]]]

Step(what, w, f) ==
    IF what = "code" THEN Code(w, f)
    ELSE IF what = "plain" THEN PlainFrom(w, f)
    ELSE IF what = "convertible" THEN ConvertibleFrom(w, f)
    ELSE IF what = "value" THEN ValueFrom(w, f)
    ELSE JsonFrom(w, f)

\* What is computed of a value depends on what is computed of its children.
Steady(what, w) ==
    \A f, g : (\A c \in Children(w) : f[c] = g[c]) => Step(what, w, f) = Step(what, w, g)

LEMMA ChildrenAre ==
  ASSUME NEW w, WellFormed(w)
  PROVE  /\ w.kind = "list" => \A i \in DOMAIN w.items : w.items[i] \in Children(w)
         /\ w.kind = "object" => \A key \in DOMAIN w.fields : w.fields[key] \in Children(w)
<1>1. w.kind = "list" => Children(w) = ToSet(w.items)
  BY DEF Children
<1>2. w.kind = "object" => Children(w) = {w.fields[key] : key \in DOMAIN w.fields}
  BY DEF Children
<1> QED BY <1>1, <1>2 DEF ToSet

LEMMA ValueSteps ==
  ASSUME NEW what \in {"code", "plain"}, NEW w, WellFormed(w)
  PROVE  Steady(what, w)
<1> SUFFICES ASSUME NEW f, NEW g, \A c \in Children(w) : f[c] = g[c]
             PROVE  Step(what, w, f) = Step(what, w, g)
  BY DEF Steady
<1>1. w.kind \in {"none", "nonfinite", "bool", "int", "number", "string", "bytes", "artifact",
                  "list", "object"}
  BY KindsOf
<1>2. CASE w.kind = "list"
  <2>1. \A i \in DOMAIN w.items : f[w.items[i]] = g[w.items[i]]
    BY <1>2, ChildrenAre
  <2>2. ItemCodes(w.items, f) = ItemCodes(w.items, g)
    BY <2>1 DEF ItemCodes
  <2>4. Code(w, f) = Code(w, g)
    BY <1>2, <2>2 DEF Code, ItemCodes
  <2>5. PlainFrom(w, f) = PlainFrom(w, g)
    BY <1>2, <2>2 DEF PlainFrom, ItemCodes
  <2> QED BY <2>4, <2>5 DEF Step
<1>3. CASE w.kind = "object"
  <2> DEFINE keys == SortedKeys(w)
             fields == w.fields
  <2>1. \A key \in DOMAIN fields : f[fields[key]] = g[fields[key]]
    BY <1>3, ChildrenAre
  <2>2. \A i \in DOMAIN keys : keys[i] \in DOMAIN fields
    <3>1. DOMAIN fields \subseteq Bytes /\ IsFiniteSet(DOMAIN fields)
      BY <1>3, KindsOf
    <3>2. DOMAIN keys = 1..Len(keys)
      BY <3>1, KeysAre, LenProperties
    <3> QED BY <3>1, <3>2, KeysAre
  <2>3. FieldCodes(fields, keys, f) = FieldCodes(fields, keys, g)
    <3> HIDE DEF keys, fields
    <3> QED BY <2>1, <2>2 DEF FieldCodes
  <2>4. PlainFields(fields, f) = PlainFields(fields, g)
    <3> HIDE DEF fields
    <3> QED BY <2>1 DEF PlainFields
  <2>5. Code(w, f) = Code(w, g)
    BY <1>3, <2>3 DEF Code
  <2>6. PlainFrom(w, f) = PlainFrom(w, g)
    BY <1>3, <2>4 DEF PlainFrom, PlainFields
  <2> QED BY <2>5, <2>6 DEF Step
<1>4. CASE w.kind \notin {"list", "object"}
  <2>1. Code(w, f) = Code(w, g)
    BY <1>4 DEF Code
  <2>2. PlainFrom(w, f) = PlainFrom(w, g)
    BY <1>4 DEF PlainFrom
  <2> QED BY <2>1, <2>2 DEF Step
<1> QED BY <1>2, <1>3, <1>4

LEMMA JsonSteps ==
  ASSUME NEW what \in {"convertible", "value", "json"}, NEW w
  PROVE  Steady(what, w)
<1> SUFFICES ASSUME NEW f, NEW g, \A c \in Children(w) : f[c] = g[c]
             PROVE  Step(what, w, f) = Step(what, w, g)
  BY DEF Steady
<1>1. CASE w.kind = "list"
  <2>1. \A i \in DOMAIN w.items : w.items[i] \in Children(w)
    BY <1>1 DEF Children, ToSet
  <2>2. \A i \in DOMAIN w.items : f[w.items[i]] = g[w.items[i]]
    BY <2>1
  <2>3. ItemCodes(w.items, f) = ItemCodes(w.items, g)
    BY <2>2 DEF ItemCodes
  <2>4. ConvertibleFrom(w, f) = ConvertibleFrom(w, g)
    <3>1. (\A i \in DOMAIN w.items : f[w.items[i]]) = (\A i \in DOMAIN w.items : g[w.items[i]])
      BY <2>2
    <3> QED BY <1>1, <3>1 DEF ConvertibleFrom
  <2>5. ValueFrom(w, f) = ValueFrom(w, g) /\ JsonFrom(w, f) = JsonFrom(w, g)
    BY <1>1, <2>3 DEF ValueFrom, JsonFrom, ItemCodes
  <2> QED BY <2>4, <2>5 DEF Step
<1>2. CASE w.kind = "object"
  <2>1. \A key \in DOMAIN w.fields : w.fields[key] \in Children(w)
    BY <1>2 DEF Children
  <2>2. \A key \in DOMAIN w.fields : f[w.fields[key]] = g[w.fields[key]]
    BY <2>1
  <2>3. PlainFields(w.fields, f) = PlainFields(w.fields, g)
    BY <2>2 DEF PlainFields
  <2>4. ConvertibleFrom(w, f) = ConvertibleFrom(w, g)
    <3>1. (\A key \in DOMAIN w.fields : f[w.fields[key]]) = (\A key \in DOMAIN w.fields : g[w.fields[key]])
      BY <2>2
    <3> QED BY <1>2, <3>1 DEF ConvertibleFrom
  <2>5. ValueFrom(w, f) = ValueFrom(w, g) /\ JsonFrom(w, f) = JsonFrom(w, g)
    BY <1>2, <2>3 DEF ValueFrom, JsonFrom, PlainFields
  <2> QED BY <2>4, <2>5 DEF Step
<1>3. CASE w.kind \notin {"list", "object"}
  <2>1. ConvertibleFrom(w, f) = ConvertibleFrom(w, g)
    BY <1>3 DEF ConvertibleFrom
  <2>2. ValueFrom(w, f) = ValueFrom(w, g)
    BY <1>3 DEF ValueFrom
  <2>3. JsonFrom(w, f) = JsonFrom(w, g)
    BY <1>3 DEF JsonFrom
  <2> QED BY <2>1, <2>2, <2>3 DEF Step
<1> QED BY <1>1, <1>2, <1>3

Computes(what, f, D) == f = [w \in D |-> Step(what, w, f)]

\* Some function computes it of all the parts.
LEMMA ComputesExist ==
  ASSUME NEW what, NEW v, Nests(v), \A w \in Parts(v) : Steady(what, w)
  PROVE  \E f : Computes(what, f, Parts(v))
<1> DEFINE E(n) == {w \in Parts(v) : Flat(w, n)}
           D == {n \in 0..MaxDepth : ~ \E f : Computes(what, f, E(n))}
<1>1. MaxDepth \in Nat
  BY ValuesAssumption
<1>2. \A w \in Parts(v) : Nests(w) /\ Parts(w) \subseteq Parts(v)
  BY PartNests
<1>3. CASE D = {}
  <2>1. E(MaxDepth) = Parts(v)
    BY <1>2 DEF Nests
  <2>2. MaxDepth \in 0..MaxDepth
    BY <1>1
  <2>3. \E f : Computes(what, f, E(MaxDepth))
    <3> HIDE DEF E
    <3> QED BY <1>3, <2>2
  <2> HIDE DEF E
  <2> QED BY <2>1, <2>3
<1>4. CASE D # {}
  <2>1. D \in SUBSET Nat
    OBVIOUS
  <2>2. PICK n \in D : \A m \in D : n <= m
    <3> HIDE DEF D
    <3> QED BY <1>4, <2>1, LeastNumber
  <2>3. n \in 0..MaxDepth /\ ~ \E f : Computes(what, f, E(n))
    OBVIOUS
  <2>4. \A w \in E(n) : (\A c \in Children(w) : n # 0 /\ c \in E(n - 1))
    <3>1. ASSUME NEW w \in E(n), NEW c \in Children(w) PROVE n # 0 /\ c \in E(n - 1)
      <4>1. c \in Parts(v)
        <5>1. Parts(c) \subseteq Parts(w) /\ Parts(w) \subseteq Parts(v)
          BY <1>2, ChildNests
        <5> QED BY <5>1, ValueIsPart
      <4>2. n \in 1..MaxDepth /\ Flat(c, n - 1)
        BY FlatChild
      <4> QED BY <4>1, <4>2
    <3> QED BY <3>1
  <2>5. PICK g : n # 0 => Computes(what, g, E(n - 1))
    <3>1. CASE n = 0
      BY <3>1
    <3>2. CASE n # 0
      <4>1. n - 1 \in 0..MaxDepth /\ ~(n <= n - 1)
        BY <1>1, <2>3, <3>2
      <4>2. n - 1 \notin D
        BY <2>2, <4>1
      <4> HIDE DEF E
      <4> QED BY <4>1, <4>2
    <3> QED BY <3>1, <3>2
  <2> DEFINE h == [w \in E(n) |-> Step(what, w, g)]
  <2>6. ASSUME NEW w \in E(n) PROVE Step(what, w, g) = Step(what, w, h)
    <3>1. ASSUME NEW c \in Children(w) PROVE g[c] = h[c]
      <4>1. n # 0 /\ c \in E(n - 1)
        BY <2>4
      <4>2. c \in E(n)
        <5>1. n - 1 \in 0..(MaxDepth - 1) /\ (n - 1) + 1 = n
          BY <1>1, <2>3, <4>1
        <5> QED BY <4>1, <5>1, FlatDeeper
      <4>3. h[c] = Step(what, c, g)
        <5> HIDE DEF E
        <5> QED BY <4>2
      <4>4. g[c] = Step(what, c, g)
        <5> HIDE DEF E, h
        <5> QED BY <2>5, <4>1 DEF Computes
      <4> QED BY <4>3, <4>4
    <3>2. Steady(what, w)
      OBVIOUS
    <3> HIDE DEF h
    <3> QED BY <3>1, <3>2 DEF Steady
  <2>7. Computes(what, h, E(n))
    <3>1. h = [w \in E(n) |-> h[w]] /\ \A w \in E(n) : h[w] = Step(what, w, h)
      <4>1. h = [w \in E(n) |-> h[w]] /\ \A w \in E(n) : h[w] = Step(what, w, g)
        OBVIOUS
      <4> HIDE DEF h, E
      <4> QED BY <2>6, <4>1
    <3> HIDE DEF h, E
    <3> QED BY <3>1 DEF Computes
  <2> HIDE DEF h, E
  <2> QED BY <2>3, <2>7
<1> QED BY <1>3, <1>4

LEMMA ComputesAgree ==
  ASSUME NEW what, NEW v, Nests(v), \A w \in Parts(v) : Steady(what, w),
         NEW u \in Parts(v),
         NEW f, Computes(what, f, Parts(v)), NEW g, Computes(what, g, Parts(u))
  PROVE  \A w \in Parts(u) : f[w] = g[w]
<1> DEFINE D == {n \in 0..MaxDepth : \E w \in Parts(u) : Flat(w, n) /\ f[w] # g[w]}
<1>1. MaxDepth \in Nat
  BY ValuesAssumption
<1>2. Nests(u) /\ Parts(u) \subseteq Parts(v)
  BY PartNests
<1>3. \A w \in Parts(u) : Nests(w) /\ Parts(w) \subseteq Parts(u)
  BY <1>2, PartNests
<1>4. CASE D = {}
  <2>1. MaxDepth \in 0..MaxDepth
    BY <1>1
  <2> QED BY <1>3, <1>4, <2>1 DEF Nests
<1>5. CASE D # {}
  <2>1. D \in SUBSET Nat
    OBVIOUS
  <2>2. PICK n \in D : \A m \in D : n <= m
    <3> HIDE DEF D
    <3> QED BY <1>5, <2>1, LeastNumber
  <2>3. PICK w \in Parts(u) : Flat(w, n) /\ f[w] # g[w]
    BY <2>2
  <2>4. ASSUME NEW c \in Children(w) PROVE f[c] = g[c]
    <3>1. c \in Parts(u)
      <4>1. Parts(c) \subseteq Parts(w) /\ Parts(w) \subseteq Parts(u)
        BY <1>3, ChildNests
      <4> QED BY <4>1, ValueIsPart
    <3>2. n \in 1..MaxDepth /\ n - 1 \in 0..MaxDepth /\ Flat(c, n - 1)
      BY <2>3, FlatChild
    <3>3. ~(n <= n - 1)
      BY <3>2
    <3>4. n - 1 \notin D
      BY <2>2, <3>3
    <3> QED BY <3>1, <3>2, <3>4
  <2>5. Step(what, w, f) = Step(what, w, g)
    <3>1. Steady(what, w)
      BY <1>2
    <3> QED BY <2>4, <3>1 DEF Steady
  <2>6. f[w] = Step(what, w, f) /\ g[w] = Step(what, w, g)
    BY <1>2 DEF Computes
  <2> QED BY <2>3, <2>5, <2>6
<1> QED BY <1>4, <1>5

\* What comes of a value.
Comes(what, v) == (CHOOSE f : Computes(what, f, Parts(v)))[v]

LEMMA ComesUnfolds ==
  ASSUME NEW what, NEW v, Nests(v), \A w \in Parts(v) : Steady(what, w)
  PROVE  Comes(what, v) = Step(what, v, [c \in Children(v) |-> Comes(what, c)])
<1> DEFINE made(u) == CHOOSE f : Computes(what, f, Parts(u))
<1>1. \A u : Comes(what, u) = made(u)[u]
  BY DEF Comes
<1>2. ASSUME NEW u, Nests(u), Parts(u) \subseteq Parts(v)
      PROVE  Computes(what, made(u), Parts(u))
  <2>1. \E f : Computes(what, f, Parts(u))
    BY <1>2, ComputesExist
  <2> QED BY <2>1
<1> HIDE DEF made
<1>3. ASSUME NEW c \in Children(v) PROVE made(v)[c] = Comes(what, c)
  <2>1. c \in Parts(v) /\ Nests(c) /\ c \in Parts(c) /\ Parts(c) \subseteq Parts(v)
    BY ChildNests, ValueIsPart
  <2>2. made(v)[c] = made(c)[c]
    BY <1>2, <2>1, ComputesAgree
  <2> QED BY <1>1, <2>2
<1>4. v \in Parts(v)
  BY ValueIsPart
<1>5. Comes(what, v) = Step(what, v, made(v))
  BY <1>1, <1>2, <1>4 DEF Computes
<1> DEFINE parts == [c \in Children(v) |-> Comes(what, c)]
<1>6. \A c \in Children(v) : parts[c] = Comes(what, c)
  OBVIOUS
<1> HIDE DEF parts
<1>7. Step(what, v, made(v)) = Step(what, v, parts)
  <2>1. Steady(what, v)
    BY <1>4
  <2> QED BY <1>3, <1>6, <2>1 DEF Steady
<1> QED BY <1>5, <1>7 DEF parts

LEMMA ComesOf ==
  ASSUME NEW v
  PROVE  /\ EncodeValue(v) = Comes("code", v) /\ Plain(v) = Comes("plain", v)
         /\ Convertible(v) = Comes("convertible", v)
         /\ FromJson(v) = Comes("value", v) /\ ToJson(v) = Comes("json", v)
<1>1. /\ \A w, f : Step("code", w, f) = Code(w, f)
      /\ \A w, f : Step("plain", w, f) = PlainFrom(w, f)
      /\ \A w, f : Step("convertible", w, f) = ConvertibleFrom(w, f)
      /\ \A w, f : Step("value", w, f) = ValueFrom(w, f)
      /\ \A w, f : Step("json", w, f) = JsonFrom(w, f)
  BY DEF Step
<1>2. EncodeValue(v) = Comes("code", v)
  <2>1. \A f : Computes("code", f, Parts(v)) <=> f = [w \in Parts(v) |-> Code(w, f)]
    BY <1>1 DEF Computes
  <2> QED BY <2>1 DEF EncodeValue, Comes
<1>3. Plain(v) = Comes("plain", v)
  <2>1. \A f : Computes("plain", f, Parts(v)) <=> f = [w \in Parts(v) |-> PlainFrom(w, f)]
    BY <1>1 DEF Computes
  <2> QED BY <2>1 DEF Plain, Comes
<1>4. Convertible(v) = Comes("convertible", v)
  <2>1. \A f : Computes("convertible", f, Parts(v)) <=> f = [w \in Parts(v) |-> ConvertibleFrom(w, f)]
    BY <1>1 DEF Computes
  <2> QED BY <2>1 DEF Convertible, Comes
<1>5. FromJson(v) = Comes("value", v)
  <2>1. \A f : Computes("value", f, Parts(v)) <=> f = [w \in Parts(v) |-> ValueFrom(w, f)]
    BY <1>1 DEF Computes
  <2> QED BY <2>1 DEF FromJson, Comes
<1>6. ToJson(v) = Comes("json", v)
  <2>1. \A f : Computes("json", f, Parts(v)) <=> f = [w \in Parts(v) |-> JsonFrom(w, f)]
    BY <1>1 DEF Computes
  <2> QED BY <2>1 DEF ToJson, Comes
<1> QED BY <1>2, <1>3, <1>4, <1>5, <1>6

\* The code of each part of a value, and each part without what nobody sees.
LEMMA PartCodes ==
  ASSUME NEW v, IsValue(v)
  PROVE  /\ EncodeValue(v) = Code(v, [c \in Children(v) |-> EncodeValue(c)])
         /\ Plain(v) = PlainFrom(v, [c \in Children(v) |-> Plain(c)])
<1>1. Nests(v) /\ \A w \in Parts(v) : Steady("code", w) /\ Steady("plain", w)
  <2>1. \A w \in Parts(v) : WellFormed(w)
    BY DEF IsValue
  <2> QED BY <2>1, ValueSteps DEF IsValue, Nests, Flat
<1>2. EncodeValue(v) = Code(v, [c \in Children(v) |-> EncodeValue(c)])
  <2>1. Comes("code", v) = Step("code", v, [c \in Children(v) |-> Comes("code", c)])
    BY <1>1, ComesUnfolds
  <2>2. [c \in Children(v) |-> Comes("code", c)] = [c \in Children(v) |-> EncodeValue(c)]
    BY ComesOf
  <2>3. \A f : Step("code", v, f) = Code(v, f)
    BY DEF Step
  <2>4. EncodeValue(v) = Comes("code", v)
    BY ComesOf
  <2> QED BY <2>1, <2>2, <2>3, <2>4
<1>3. Plain(v) = PlainFrom(v, [c \in Children(v) |-> Plain(c)])
  <2>1. Comes("plain", v) = Step("plain", v, [c \in Children(v) |-> Comes("plain", c)])
    BY <1>1, ComesUnfolds
  <2>2. [c \in Children(v) |-> Comes("plain", c)] = [c \in Children(v) |-> Plain(c)]
    BY ComesOf
  <2>3. \A f : Step("plain", v, f) = PlainFrom(v, f)
    BY DEF Step
  <2>4. Plain(v) = Comes("plain", v)
    BY ComesOf
  <2> QED BY <2>1, <2>2, <2>3, <2>4
<1> QED BY <1>2, <1>3

\* The same of JSON, and of a value on its way to it.
LEMMA JsonUnfolds ==
  ASSUME NEW v, Nests(v)
  PROVE  /\ Convertible(v) = ConvertibleFrom(v, [c \in Children(v) |-> Convertible(c)])
         /\ FromJson(v) = ValueFrom(v, [c \in Children(v) |-> FromJson(c)])
         /\ ToJson(v) = JsonFrom(v, [c \in Children(v) |-> ToJson(c)])
<1>1. /\ Nests(v) /\ \A w : Steady("convertible", w) /\ Steady("value", w) /\ Steady("json", w)
  BY JsonSteps
<1>2. Convertible(v) = ConvertibleFrom(v, [c \in Children(v) |-> Convertible(c)])
  <2>1. Comes("convertible", v) = Step("convertible", v, [c \in Children(v) |-> Comes("convertible", c)])
    BY <1>1, ComesUnfolds
  <2>2. [c \in Children(v) |-> Comes("convertible", c)] = [c \in Children(v) |-> Convertible(c)]
    BY ComesOf
  <2>3. \A f : Step("convertible", v, f) = ConvertibleFrom(v, f)
    BY DEF Step
  <2>4. Convertible(v) = Comes("convertible", v)
    BY ComesOf
  <2> QED BY <2>1, <2>2, <2>3, <2>4
<1>3. FromJson(v) = ValueFrom(v, [c \in Children(v) |-> FromJson(c)])
  <2>1. Comes("value", v) = Step("value", v, [c \in Children(v) |-> Comes("value", c)])
    BY <1>1, ComesUnfolds
  <2>2. [c \in Children(v) |-> Comes("value", c)] = [c \in Children(v) |-> FromJson(c)]
    BY ComesOf
  <2>3. \A f : Step("value", v, f) = ValueFrom(v, f)
    BY DEF Step
  <2>4. FromJson(v) = Comes("value", v)
    BY ComesOf
  <2> QED BY <2>1, <2>2, <2>3, <2>4
<1>4. ToJson(v) = JsonFrom(v, [c \in Children(v) |-> ToJson(c)])
  <2>1. Comes("json", v) = Step("json", v, [c \in Children(v) |-> Comes("json", c)])
    BY <1>1, ComesUnfolds
  <2>2. [c \in Children(v) |-> Comes("json", c)] = [c \in Children(v) |-> ToJson(c)]
    BY ComesOf
  <2>3. \A f : Step("json", v, f) = JsonFrom(v, f)
    BY DEF Step
  <2>4. ToJson(v) = Comes("json", v)
    BY ComesOf
  <2> QED BY <2>1, <2>2, <2>3, <2>4
<1> QED BY <1>2, <1>3, <1>4

-----------------------------------------------------------------------------
(* Numbers: Width bytes give back a number of that many.                   *)

Powering(f, m) == f = [i \in 1..m |-> IF i = 1 THEN 128 ELSE 256 * f[i - 1]]
Dividing(f, m, n) == f = [i \in 0..m |-> IF i = 0 THEN n ELSE f[i - 1] \div 256]

LEMMA PoweringsExist ==
  ASSUME NEW m \in Nat
  PROVE  \E f : Powering(f, m)
<1> DEFINE D == {k \in 0..m : ~ \E f : Powering(f, k)}
<1>1. CASE D = {}
  <2>1. m \in 0..m
    OBVIOUS
  <2> QED BY <1>1, <2>1
<1>2. CASE D # {}
  <2>1. D \in SUBSET Nat
    OBVIOUS
  <2>2. PICK n \in D : \A k \in D : n <= k
    <3> HIDE DEF D
    <3> QED BY <1>2, <2>1, LeastNumber
  <2>3. n \in 0..m /\ n \in Nat /\ ~ \E f : Powering(f, n)
    OBVIOUS
  <2>4. CASE n = 0
    <3>1. 1..n = {}
      BY <2>4
    <3> DEFINE f == [k \in 1..n |-> 128]
    <3>2. f = [k \in 1..n |-> IF k = 1 THEN 128 ELSE 256 * f[k - 1]]
      BY <3>1
    <3>3. Powering(f, n)
      BY <3>2 DEF Powering
    <3> HIDE DEF f
    <3> QED BY <2>3, <3>3
  <2>5. CASE n # 0
    <3>1. n - 1 \in 0..m /\ ~(n <= n - 1)
      BY <2>3, <2>5
    <3>2. PICK g : Powering(g, n - 1)
      <4>1. n - 1 \notin D
        BY <2>2, <3>1
      <4> QED BY <3>1, <4>1
    <3> DEFINE next(k, f) == IF k = 1 THEN 128 ELSE 256 * f[k - 1]
               h == [k \in 1..n |-> next(k, g)]
    <3>3. \A k \in 1..(n - 1) : g[k] = next(k, g)
      BY <3>2 DEF Powering
    <3>4. \A k \in 1..(n - 1) : h[k] = g[k]
      <4>1. \A k \in 1..(n - 1) : k \in 1..n
        BY <2>3
      <4> HIDE DEF next
      <4> QED BY <3>3, <4>1
    <3>5. ASSUME NEW k \in 1..n
          PROVE  next(k, g) = next(k, h)
      <4>1. k = 1 \/ k - 1 \in 1..(n - 1)
        BY <2>3
      <4> HIDE DEF h
      <4> QED BY <3>4, <4>1
    <3>6. h = [k \in 1..n |-> next(k, h)]
      <4> HIDE DEF next
      <4>1. h = [k \in 1..n |-> h[k]] /\ \A k \in 1..n : h[k] = next(k, g)
        OBVIOUS
      <4> HIDE DEF h
      <4> QED BY <3>5, <4>1
    <3>7. Powering(h, n)
      <4> HIDE DEF h
      <4> QED BY <3>6 DEF Powering
    <3> QED BY <2>3, <3>7
  <2> QED BY <2>4, <2>5
<1> QED BY <1>1, <1>2

LEMMA DividingsExist ==
  ASSUME NEW m \in Nat, NEW num
  PROVE  \E f : Dividing(f, m, num)
<1> DEFINE D == {k \in 0..m : ~ \E f : Dividing(f, k, num)}
<1>1. CASE D = {}
  <2>1. m \in 0..m
    OBVIOUS
  <2> QED BY <1>1, <2>1
<1>2. CASE D # {}
  <2>1. D \in SUBSET Nat
    OBVIOUS
  <2>2. PICK n \in D : \A k \in D : n <= k
    <3> HIDE DEF D
    <3> QED BY <1>2, <2>1, LeastNumber
  <2>3. n \in 0..m /\ n \in Nat /\ ~ \E f : Dividing(f, n, num)
    OBVIOUS
  <2>4. CASE n = 0
    <3> DEFINE f == [k \in 0..n |-> num]
    <3>1. Dividing(f, n, num)
      BY <2>4 DEF Dividing
    <3> HIDE DEF f
    <3> QED BY <2>3, <3>1
  <2>5. CASE n # 0
    <3>1. n - 1 \in 0..m /\ ~(n <= n - 1)
      BY <2>3, <2>5
    <3>2. PICK g : Dividing(g, n - 1, num)
      <4>1. n - 1 \notin D
        BY <2>2, <3>1
      <4> QED BY <3>1, <4>1
    <3> DEFINE next(k, f) == IF k = 0 THEN num ELSE f[k - 1] \div 256
               h == [k \in 0..n |-> next(k, g)]
    <3>3. \A k \in 0..(n - 1) : g[k] = next(k, g)
      BY <3>2 DEF Dividing
    <3>4. \A k \in 0..(n - 1) : h[k] = g[k]
      <4>1. \A k \in 0..(n - 1) : k \in 0..n
        BY <2>3
      <4> HIDE DEF next
      <4> QED BY <3>3, <4>1
    <3>5. ASSUME NEW k \in 0..n
          PROVE  next(k, g) = next(k, h)
      <4>1. k = 0 \/ k - 1 \in 0..(n - 1)
        BY <2>3
      <4> HIDE DEF h
      <4> QED BY <3>4, <4>1
    <3>6. h = [k \in 0..n |-> next(k, h)]
      <4> HIDE DEF next
      <4>1. h = [k \in 0..n |-> h[k]] /\ \A k \in 0..n : h[k] = next(k, g)
        OBVIOUS
      <4> HIDE DEF h
      <4> QED BY <3>5, <4>1
    <3>7. Dividing(h, n, num)
      <4> HIDE DEF h
      <4> QED BY <3>6 DEF Dividing
    <3> QED BY <2>3, <3>7
  <2> QED BY <2>4, <2>5
<1> QED BY <1>1, <1>2

LEMMA WidthIs == Width \in Nat /\ Width \in 1..Width /\ Width - 1 \in Nat
  BY ValuesAssumption

LEMMA HalfIs ==
  \E p \in [1..Width -> Nat] : p[1] = 128 /\ Half = p[Width]
                               /\ \A i \in 2..Width : p[i] = 256 * p[i - 1]
<1> DEFINE p == CHOOSE f : Powering(f, Width)
<1>1. Half = p[Width]
  BY DEF Half, Powering
<1>2. Powering(p, Width)
  <2>1. \E f : Powering(f, Width)
    BY WidthIs, PoweringsExist
  <2> QED BY <2>1
<1> HIDE DEF p
<1>3. /\ p = [i \in 1..Width |-> p[i]]
      /\ \A i \in 1..Width : p[i] = IF i = 1 THEN 128 ELSE 256 * p[i - 1]
  BY <1>2 DEF Powering
<1>4. p[1] = 128 /\ \A i \in 2..Width : p[i] = 256 * p[i - 1]
  <2>1. 1 \in 1..Width /\ \A i \in 2..Width : i \in 1..Width /\ i # 1
    BY WidthIs
  <2> QED BY <1>3, <2>1
<1> DEFINE D == {i \in 1..Width : p[i] \notin Nat}
<1>5. D = {}
  <2> SUFFICES ASSUME D # {} PROVE FALSE
    OBVIOUS
  <2>1. D \in SUBSET Nat
    OBVIOUS
  <2>2. PICK i \in D : \A k \in D : i <= k
    <3> HIDE DEF D
    <3> QED BY <2>1, LeastNumber
  <2>3. i # 1
    BY <1>4
  <2>4. i - 1 \in 1..Width /\ ~(i <= i - 1) /\ i \in 2..Width
    BY <2>3, WidthIs
  <2>5. p[i - 1] \in Nat
    <3>1. i - 1 \notin D
      BY <2>2, <2>4
    <3> QED BY <2>4, <3>1
  <2>6. p[i] = 256 * p[i - 1] /\ p[i] \notin Nat
    BY <1>4, <2>4
  <2> QED BY <2>5, <2>6
<1>6. p \in [1..Width -> Nat]
  BY <1>3, <1>5
<1> HIDE DEF D
<1> QED BY <1>1, <1>4, <1>6

LEMMA HalfIsNumber == Half \in Nat
  BY HalfIs, WidthIs

\* What is left of a number after each byte.
LEMMA BigEndianIs ==
  ASSUME NEW n \in Int
  PROVE  \E f \in [0..Width - 1 -> Int] :
             /\ f[0] = n
             /\ \A i \in 1..Width - 1 : f[i] = f[i - 1] \div 256
             /\ BigEndian(n) = [i \in 1..Width |-> f[Width - i] % 256]
<1> DEFINE f == CHOOSE g : Dividing(g, Width - 1, n)
<1>1. BigEndian(n) = [i \in 1..Width |-> f[Width - i] % 256]
  BY DEF BigEndian, Dividing
<1>2. Dividing(f, Width - 1, n)
  <2>1. \E g : Dividing(g, Width - 1, n)
    BY WidthIs, DividingsExist
  <2> QED BY <2>1
<1> HIDE DEF f
<1>3. /\ f = [i \in 0..Width - 1 |-> f[i]]
      /\ \A i \in 0..Width - 1 : f[i] = IF i = 0 THEN n ELSE f[i - 1] \div 256
  BY <1>2 DEF Dividing
<1>4. f[0] = n /\ \A i \in 1..Width - 1 : f[i] = f[i - 1] \div 256
  <2>1. 0 \in 0..Width - 1 /\ \A i \in 1..Width - 1 : i \in 0..Width - 1 /\ i # 0
    BY WidthIs
  <2> QED BY <1>3, <2>1
<1> DEFINE D == {i \in 0..Width - 1 : f[i] \notin Int}
<1>5. D = {}
  <2> SUFFICES ASSUME D # {} PROVE FALSE
    OBVIOUS
  <2>1. D \in SUBSET Nat
    OBVIOUS
  <2>2. PICK i \in D : \A k \in D : i <= k
    <3> HIDE DEF D
    <3> QED BY <2>1, LeastNumber
  <2>3. i # 0
    BY <1>4
  <2>4. i - 1 \in 0..Width - 1 /\ ~(i <= i - 1) /\ i \in 1..Width - 1
    BY <2>3, WidthIs
  <2>5. f[i - 1] \in Int
    <3>1. i - 1 \notin D
      BY <2>2, <2>4
    <3> QED BY <2>4, <3>1
  <2>6. f[i] = f[i - 1] \div 256 /\ f[i] \notin Int
    BY <1>4, <2>4
  <2> QED BY <2>5, <2>6
<1>6. f \in [0..Width - 1 -> Int]
  BY <1>3, <1>5
<1> HIDE DEF D
<1> QED BY <1>1, <1>4, <1>6

LEMMA BigEndianType ==
  ASSUME NEW n \in Int
  PROVE  BigEndian(n) \in Octets /\ Len(BigEndian(n)) = Width
<1>1. PICK f \in [0..Width - 1 -> Int] : BigEndian(n) = [i \in 1..Width |-> f[Width - i] % 256]
  BY BigEndianIs
<1>2. \A i \in 1..Width : f[Width - i] % 256 \in 0..255
  <2>1. ASSUME NEW i \in 1..Width PROVE f[Width - i] % 256 \in 0..255
    <3>1. Width - i \in 0..Width - 1
      BY WidthIs
    <3>2. f[Width - i] \in Int
      BY <3>1
    <3>3. \A a \in Int : a % 256 \in 0..255
      OBVIOUS
    <3> QED BY <3>2, <3>3
  <2> QED BY <2>1
<1> DEFINE byte(i) == f[Width - i] % 256
           Byte == 0..255
<1>3. BigEndian(n) \in [1..Width -> Byte]
  <2>1. BigEndian(n) = [i \in 1..Width |-> byte(i)]
    BY <1>1
  <2>2. \A i \in 1..Width : byte(i) \in Byte
    BY <1>2
  <2> HIDE DEF byte, Byte
  <2> QED BY <2>1, <2>2
<1> HIDE DEF byte, Byte
<1>4. BigEndian(n) \in Seq(Byte) /\ Len(BigEndian(n)) = Width
  BY <1>3, WidthIs
<1> QED BY <1>4 DEF Octets, Byte

LEMMA BigEndianTold ==
  ASSUME NEW n \in -Half..Half - 1, NEW m \in -Half..Half - 1, BigEndian(n) = BigEndian(m)
  PROVE  n = m
<1>1. n \in Int /\ m \in Int /\ -Half <= n /\ n < Half /\ -Half <= m /\ m < Half
  BY HalfIsNumber
<1>2. PICK p \in [1..Width -> Nat] : p[1] = 128 /\ Half = p[Width]
                                     /\ \A i \in 2..Width : p[i] = 256 * p[i - 1]
  BY HalfIs
<1>3. PICK f \in [0..Width - 1 -> Int] :
             /\ f[0] = n
             /\ \A i \in 1..Width - 1 : f[i] = f[i - 1] \div 256
             /\ BigEndian(n) = [i \in 1..Width |-> f[Width - i] % 256]
  BY <1>1, BigEndianIs
<1>4. PICK g \in [0..Width - 1 -> Int] :
             /\ g[0] = m
             /\ \A i \in 1..Width - 1 : g[i] = g[i - 1] \div 256
             /\ BigEndian(m) = [i \in 1..Width |-> g[Width - i] % 256]
  BY <1>1, BigEndianIs
<1>5. \A i \in 0..Width - 1 : f[i] % 256 = g[i] % 256
  <2> DEFINE byte(h, i) == h[Width - i] % 256
  <2>0. /\ BigEndian(n) = [i \in 1..Width |-> byte(f, i)]
        /\ BigEndian(m) = [i \in 1..Width |-> byte(g, i)]
    BY <1>3, <1>4
  <2> HIDE DEF byte
  <2>3. \A i \in 1..Width : byte(f, i) = byte(g, i)
    BY <2>0
  <2>1. \A i \in 1..Width : f[Width - i] % 256 = g[Width - i] % 256
    BY <2>3 DEF byte
  <2>2. ASSUME NEW i \in 0..Width - 1 PROVE f[i] % 256 = g[i] % 256
    <3>1. Width - i \in 1..Width /\ Width - (Width - i) = i
      BY WidthIs
    <3> QED BY <2>1, <3>1
  <2> QED BY <2>2
<1> DEFINE In(i) == /\ -p[Width - i] <= f[i] /\ f[i] < p[Width - i]
                    /\ -p[Width - i] <= g[i] /\ g[i] < p[Width - i]
           B == {i \in 0..Width - 1 : ~In(i)}
<1>6. B = {}
  <2> SUFFICES ASSUME B # {} PROVE FALSE
    OBVIOUS
  <2>1. B \in SUBSET Nat
    OBVIOUS
  <2>2. PICK i \in B : \A k \in B : i <= k
    <3> HIDE DEF B
    <3> QED BY <2>1, LeastNumber
  <2>3. i \in 0..Width - 1 /\ ~In(i)
    OBVIOUS
  <2>4. i # 0
    <3>1. Width - 0 = Width
      BY WidthIs
    <3>2. In(0)
      BY <1>1, <1>2, <1>3, <1>4, <3>1
    <3> QED BY <2>3, <3>2
  <2>5. /\ i - 1 \in 0..Width - 1 /\ ~(i <= i - 1) /\ i \in 1..Width - 1
        /\ Width - (i - 1) \in 2..Width /\ (Width - (i - 1)) - 1 = Width - i
        /\ Width - i \in 1..Width
    BY <2>3, <2>4, WidthIs
  <2>6. In(i - 1)
    <3>1. i - 1 \notin B
      BY <2>2, <2>5
    <3> QED BY <2>5, <3>1
  <2>7. p[Width - (i - 1)] = 256 * p[Width - i]
    BY <1>2, <2>5
  <2>8. /\ p[Width - i] \in Nat /\ f[i - 1] \in Int /\ g[i - 1] \in Int
        /\ f[i] = f[i - 1] \div 256 /\ g[i] = g[i - 1] \div 256
    BY <1>3, <1>4, <2>5
  <2>9. \A a \in Int, q \in Nat : -(256 * q) <= a /\ a < 256 * q
            => -q <= a \div 256 /\ a \div 256 < q
    OBVIOUS
  <2> DEFINE a == f[i - 1]
             b == g[i - 1]
             q == p[Width - i]
  <2>10. /\ -(256 * q) <= a /\ a < 256 * q /\ -(256 * q) <= b /\ b < 256 * q
         /\ a \in Int /\ b \in Int /\ q \in Nat
    BY <2>6, <2>7, <2>8
  <2> HIDE DEF a, b, q
  <2>11. /\ -q <= a \div 256 /\ a \div 256 < q
         /\ -q <= b \div 256 /\ b \div 256 < q
    BY <2>9, <2>10
  <2>12. In(i)
    BY <2>8, <2>11 DEF a, b, q
  <2> QED BY <2>3, <2>12
<1> DEFINE A == {k \in 0..Width - 1 : f[Width - 1 - k] # g[Width - 1 - k]}
<1>7. A = {}
  <2> SUFFICES ASSUME A # {} PROVE FALSE
    OBVIOUS
  <2>1. A \in SUBSET Nat
    OBVIOUS
  <2>2. PICK k \in A : \A j \in A : k <= j
    <3> HIDE DEF A
    <3> QED BY <2>1, LeastNumber
  <2> DEFINE i == Width - 1 - k
  <2>3. i \in 0..Width - 1 /\ f[i] \in Int /\ g[i] \in Int /\ f[i] # g[i]
    BY WidthIs
  <2>4. CASE k = 0
    <3>1. i = Width - 1 /\ Width - i = 1
      BY <2>4, WidthIs
    <3>2. In(i)
      BY <1>6, <2>3
    <3>3. -128 <= f[i] /\ f[i] < 128 /\ -128 <= g[i] /\ g[i] < 128
      BY <1>2, <3>1, <3>2
    <3>4. \A a, b \in Int : -128 <= a /\ a < 128 /\ -128 <= b /\ b < 128 /\ a % 256 = b % 256
              => a = b
      OBVIOUS
    <3> HIDE DEF i
    <3> QED BY <1>5, <2>3, <3>3, <3>4
  <2>5. CASE k # 0
    <3>1. k - 1 \in 0..Width - 1 /\ ~(k <= k - 1) /\ Width - 1 - (k - 1) = i + 1
          /\ i + 1 \in 1..Width - 1 /\ (i + 1) - 1 = i
      BY <2>5, WidthIs
    <3>2. f[i + 1] = g[i + 1]
      <4>1. k - 1 \notin A
        BY <2>2, <3>1
      <4> QED BY <3>1, <4>1
    <3>3. f[i + 1] = f[i] \div 256 /\ g[i + 1] = g[i] \div 256
      BY <1>3, <1>4, <3>1
    <3>4. \A a, b \in Int : a % 256 = b % 256 /\ a \div 256 = b \div 256 => a = b
      OBVIOUS
    <3>5. f[i] % 256 = g[i] % 256 /\ f[i] \div 256 = g[i] \div 256
      <4> HIDE DEF i
      <4> QED BY <1>5, <2>3, <3>2, <3>3
    <3> DEFINE a == f[i]
               b == g[i]
    <3>6. a \in Int /\ b \in Int /\ a # b
      BY <2>3
    <3>7. a % 256 = b % 256 /\ a \div 256 = b \div 256
      BY <3>5
    <3> HIDE DEF a, b
    <3> QED BY <3>4, <3>6, <3>7
  <2> QED BY <2>4, <2>5
<1>8. Width - 1 \in 0..Width - 1 /\ Width - 1 - (Width - 1) = 0
  BY WidthIs
<1>9. f[0] = g[0]
  BY <1>7, <1>8
<1> QED BY <1>3, <1>4, <1>9

LEMMA BitsAre ==
  ASSUME NEW a \in [neg : BOOLEAN, mag : 0..Half - 1], NEW b \in [neg : BOOLEAN, mag : 0..Half - 1]
  PROVE  /\ Bits(a) \in -Half..Half - 1
         /\ Bits(a) = Bits(b) <=> PlainNumber(a) = PlainNumber(b)
<1>1. Half \in Nat /\ a.mag \in 0..Half - 1 /\ b.mag \in 0..Half - 1
  BY HalfIsNumber
<1>2. Bits(a) = (IF a.neg /\ a.mag # 0 THEN a.mag - Half ELSE a.mag)
      /\ Bits(b) = (IF b.neg /\ b.mag # 0 THEN b.mag - Half ELSE b.mag)
  BY DEF Bits
<1>3. Bits(a) \in -Half..Half - 1
  BY <1>1, <1>2
<1> DEFINE s == a.neg /\ a.mag # 0
           t == b.neg /\ b.mag # 0
<1>4. PlainNumber(a) = PlainNumber(b) <=> ((s <=> t) /\ a.mag = b.mag)
  <2>1. PlainNumber(a) = [neg |-> s, mag |-> a.mag] /\ PlainNumber(b) = [neg |-> t, mag |-> b.mag]
    BY DEF PlainNumber
  <2>2. s \in BOOLEAN /\ t \in BOOLEAN
    OBVIOUS
  <2> HIDE DEF s, t
  <2> QED BY <2>1, <2>2
<1>5. Bits(a) = Bits(b) <=> ((s <=> t) /\ a.mag = b.mag)
  BY <1>1, <1>2
<1> QED BY <1>3, <1>4, <1>5

-----------------------------------------------------------------------------
(* Texts told apart, joined and in lists.                                  *)

LEMMA JoinApart ==
  ASSUME NEW a \in Octets, NEW b \in Octets, NEW c \in Octets, NEW d \in Octets,
         Apart(a, b), a = b => Apart(c, d)
  PROVE  Apart(Join(a, c), Join(b, d))
<1>1. ASSUME NEW x \in Octets, NEW y \in Octets, Join(Join(a, c), x) = Join(Join(b, d), y)
      PROVE  Join(a, c) = Join(b, d) /\ x = y
  <2>1. Join(a, Join(c, x)) = Join(b, Join(d, y))
    BY <1>1, JoinedTwice
  <2>2. Join(c, x) \in Octets /\ Join(d, y) \in Octets
    BY JoinedType
  <2>3. a = b /\ Join(c, x) = Join(d, y)
    BY <2>1, <2>2, ApartUse
  <2>4. c = d /\ x = y
    BY <2>3, ApartUse
  <2> QED BY <2>3, <2>4
<1> QED BY <1>1 DEF Apart

LEMMA JoinTold ==
  ASSUME NEW a \in Octets, NEW b \in Octets, NEW c \in Octets, NEW d \in Octets, Apart(a, b)
  PROVE  Join(a, c) = Join(b, d) <=> a = b /\ c = d
BY ApartUse

LEMMA SameApart ==
  ASSUME NEW a \in Octets, NEW b \in Octets, a = b
  PROVE  Apart(a, b)
BY SameLengthApart

LEMMA FlattenApart ==
  ASSUME NEW s \in Seq(Octets), NEW t \in Seq(Octets), Len(s) = Len(t),
         \A i \in 1..Len(s) : Apart(s[i], t[i])
  PROVE  /\ Apart(FlattenSeq(s), FlattenSeq(t))
         /\ FlattenSeq(s) = FlattenSeq(t) <=> s = t
<1>1. ASSUME NEW x \in Octets, NEW y \in Octets,
             Join(FlattenSeq(s), x) = Join(FlattenSeq(t), y)
      PROVE  s = t /\ x = y
  BY <1>1, FlattenTold
<1>2. Apart(FlattenSeq(s), FlattenSeq(t))
  BY <1>1 DEF Apart
<1>3. ASSUME FlattenSeq(s) = FlattenSeq(t) PROVE s = t
  <2>1. <<>> \in Octets /\ Join(FlattenSeq(s), <<>>) = Join(FlattenSeq(t), <<>>)
    BY <1>3, EmptyOctets
  <2> QED BY <1>1, <2>1
<1> QED BY <1>2, <1>3

\* Lists of sizes that are told, each after its length.
Counted(list) == Join(PushLen(Len(list)), FlattenSeq(list))

LEMMA CountedType ==
  ASSUME NEW s \in Seq(Octets)
  PROVE  Counted(s) \in Octets
<1>1. Len(s) \in Nat
  OBVIOUS
<1>2. PushLen(Len(s)) \in Octets /\ FlattenSeq(s) \in Octets
  BY <1>1, PushLenType, FlattenType
<1> QED BY <1>2, JoinedType DEF Counted

LEMMA CountedApart ==
  ASSUME NEW s \in Seq(Octets), NEW t \in Seq(Octets), Len(s) \in Sizes, Len(t) \in Sizes,
         Len(s) = Len(t) => \A i \in 1..Len(s) : Apart(s[i], t[i])
  PROVE  /\ Apart(Counted(s), Counted(t))
         /\ Counted(s) = Counted(t) <=> s = t
<1> DEFINE a == PushLen(Len(s))
           b == PushLen(Len(t))
           c == FlattenSeq(s)
           d == FlattenSeq(t)
<1>1. Len(s) \in Nat /\ Len(t) \in Nat
  OBVIOUS
<1>2. a \in Octets /\ b \in Octets /\ Len(a) = Len(b) /\ c \in Octets /\ d \in Octets
  BY <1>1, PushLenType, FlattenType
<1>3. a = b => Len(s) = Len(t)
  BY LengthTold
<1>4. Len(s) = Len(t) => Apart(c, d) /\ (c = d <=> s = t)
  BY FlattenApart
<1>5. Counted(s) = Join(a, c) /\ Counted(t) = Join(b, d)
  BY DEF Counted
<1> HIDE DEF a, b, c, d
<1>6. Apart(a, b)
  BY <1>2, SameLengthApart
<1>7. Apart(Join(a, c), Join(b, d))
  BY <1>2, <1>3, <1>4, <1>6, JoinApart
<1>8. Join(a, c) = Join(b, d) <=> a = b /\ c = d
  BY <1>2, <1>6, JoinTold
<1>9. s = t => Counted(s) = Counted(t)
  OBVIOUS
<1> QED BY <1>3, <1>4, <1>5, <1>7, <1>8, <1>9

-----------------------------------------------------------------------------
(* The code of a value: its number and what comes after.                   *)

Good(v) == IsValue(v) /\ Encodable(v)

ItemList(v) == [i \in 1..Len(v.items) |-> EncodeValue(v.items[i])]
FieldCode(v, key) == Join(PushBytes(key), EncodeValue(v.fields[key]))
FieldList(v) == [i \in 1..Len(SortedKeys(v)) |-> FieldCode(v, SortedKeys(v)[i])]

Number(v) ==
    CASE v.kind = "none" -> 0
      [] v.kind = "bool" -> 1
      [] v.kind = "int" -> 2
      [] v.kind = "number" -> 3
      [] v.kind = "string" -> 4
      [] v.kind = "bytes" -> 5
      [] v.kind = "list" -> 6
      [] v.kind = "object" -> 7
Body(v) ==
    CASE v.kind = "none" -> <<>>
      [] v.kind = "bool" -> <<IF v.bool THEN 1 ELSE 0>>
      [] v.kind = "int" -> BigEndian(v.int)
      [] v.kind = "number" -> BigEndian(Bits(v.num))
      [] v.kind = "string" -> PushBytes(v.text)
      [] v.kind = "bytes" -> PushBytes(v.bytes)
      [] v.kind = "list" -> Counted(ItemList(v))
      [] v.kind = "object" -> Counted(FieldList(v))

EncodableKinds == {"none", "bool", "int", "number", "string", "bytes", "list", "object"}

LEMMA GoodIs ==
  ASSUME NEW v, Good(v)
  PROVE  /\ WellFormed(v) /\ v.kind \in EncodableKinds
         /\ \A c \in Children(v) : Good(c)
<1>1. v \in Parts(v) /\ WellFormed(v)
  BY ValueIsPart DEF Good, IsValue
<1>2. v.kind \in EncodableKinds
  BY <1>1, KindsOf DEF Good, Encodable, EncodableKinds
<1>3. ASSUME NEW c \in Children(v) PROVE Good(c)
  BY ChildIsValue DEF Good, Encodable
<1> QED BY <1>1, <1>2, <1>3

LEMMA NumberTold ==
  /\ \A v : v.kind \in EncodableKinds => Number(v) \in 0..7
  /\ \A v, w : v.kind \in EncodableKinds /\ w.kind \in EncodableKinds /\ Number(v) = Number(w) => v.kind = w.kind
BY DEF EncodableKinds, Number

LEMMA ListIs ==
  ASSUME NEW v, Good(v), v.kind = "list"
  PROVE  /\ v = [kind |-> "list", items |-> v.items]
         /\ Len(v.items) \in Sizes /\ Len(v.items) \in Nat
         /\ DOMAIN v.items = 1..Len(v.items)
         /\ \A i \in 1..Len(v.items) : v.items[i] \in Children(v)
         /\ Len(ItemList(v)) = Len(v.items)
         /\ \A i \in 1..Len(v.items) : ItemList(v)[i] = EncodeValue(v.items[i])
<1>1. WellFormed(v)
  BY GoodIs
<1>2. /\ v = [kind |-> "list", items |-> v.items]
      /\ v.items \in Seq(ToSet(v.items)) /\ Len(v.items) \in Sizes
  BY <1>1, KindsOf
<1>3. Len(v.items) \in Nat /\ DOMAIN v.items = 1..Len(v.items)
  BY <1>2, LenProperties
<1>4. \A i \in 1..Len(v.items) : v.items[i] \in Children(v)
  BY <1>1, <1>3, ChildrenAre
<1> DEFINE n == Len(v.items)
           e(i) == EncodeValue(v.items[i])
<1>5. ItemList(v) = [i \in 1..n |-> e(i)]
  BY DEF ItemList
<1>6. Len(ItemList(v)) = n /\ \A i \in 1..n : ItemList(v)[i] = e(i)
  <2> HIDE DEF n, e
  <2>1. n \in Nat
    BY <1>3 DEF n
  <2> QED BY <1>5, <2>1
<1> QED BY <1>2, <1>3, <1>4, <1>6

LEMMA ObjectIs ==
  ASSUME NEW v, Good(v), v.kind = "object"
  PROVE  /\ v = [kind |-> "object", fields |-> v.fields]
         /\ v.fields = [key \in DOMAIN v.fields |-> v.fields[key]]
         /\ SortedKeys(v) \in Seq(Bytes) /\ Len(SortedKeys(v)) \in Sizes
         /\ Len(SortedKeys(v)) \in Nat /\ ToSet(SortedKeys(v)) = DOMAIN v.fields
         /\ DOMAIN SortedKeys(v) = 1..Len(SortedKeys(v))
         /\ \A i \in 1..Len(SortedKeys(v)) :
                SortedKeys(v)[i] \in DOMAIN v.fields /\ SortedKeys(v)[i] \in Bytes
         /\ \A key \in DOMAIN v.fields : v.fields[key] \in Children(v)
         /\ Len(FieldList(v)) = Len(SortedKeys(v))
         /\ \A i \in 1..Len(SortedKeys(v)) : FieldList(v)[i] = FieldCode(v, SortedKeys(v)[i])
<1>1. WellFormed(v)
  BY GoodIs
<1>2. /\ v = [kind |-> "object", fields |-> v.fields]
      /\ v.fields = [key \in DOMAIN v.fields |-> v.fields[key]]
      /\ DOMAIN v.fields \subseteq Bytes
      /\ IsFiniteSet(DOMAIN v.fields) /\ Cardinality(DOMAIN v.fields) \in Sizes
  BY <1>1, KindsOf
<1>3. /\ SortedKeys(v) \in Seq(Bytes) /\ Len(SortedKeys(v)) \in Sizes
      /\ ToSet(SortedKeys(v)) = DOMAIN v.fields
      /\ \A i \in 1..Len(SortedKeys(v)) : SortedKeys(v)[i] \in DOMAIN v.fields
  BY <1>2, KeysAre
<1>4. Len(SortedKeys(v)) \in Nat /\ DOMAIN SortedKeys(v) = 1..Len(SortedKeys(v))
  BY <1>3, LenProperties
<1>5. \A key \in DOMAIN v.fields : v.fields[key] \in Children(v)
  BY <1>1, ChildrenAre
<1> DEFINE n == Len(SortedKeys(v))
           e(i) == FieldCode(v, SortedKeys(v)[i])
<1>6. FieldList(v) = [i \in 1..n |-> e(i)]
  BY DEF FieldList
<1>7. Len(FieldList(v)) = n /\ \A i \in 1..n : FieldList(v)[i] = e(i)
  <2> HIDE DEF n, e
  <2>1. n \in Nat
    BY <1>4 DEF n
  <2> QED BY <1>6, <2>1
<1> QED BY <1>2, <1>3, <1>4, <1>5, <1>7

\* A few texts have few octets, and lists of texts as many as the texts.
LEMMA OneOctet ==
  ASSUME NEW b \in 0..255
  PROVE  <<b>> \in Octets /\ Len(<<b>>) = 1 /\ <<b>>[1] = b
BY DEF Octets

LEMMA ItemListType ==
  ASSUME NEW v, Good(v), v.kind = "list", \A c \in Children(v) : EncodeValue(c) \in Octets
  PROVE  ItemList(v) \in Seq(Octets)
<1> DEFINE n == Len(v.items)
           e(i) == EncodeValue(v.items[i])
<1>1. n \in Nat /\ \A i \in 1..n : e(i) \in Octets
  BY ListIs
<1>2. ItemList(v) = [i \in 1..n |-> e(i)]
  BY DEF ItemList
<1> HIDE DEF n, e
<1>3. ItemList(v) \in [1..n -> Octets]
  BY <1>1, <1>2
<1> QED BY <1>1, <1>3

LEMMA FieldCodeType ==
  ASSUME NEW v, Good(v), v.kind = "object", \A c \in Children(v) : EncodeValue(c) \in Octets,
         NEW i \in 1..Len(SortedKeys(v))
  PROVE  /\ PushBytes(SortedKeys(v)[i]) \in Octets
         /\ EncodeValue(v.fields[SortedKeys(v)[i]]) \in Octets
         /\ FieldCode(v, SortedKeys(v)[i]) \in Octets
<1>1. SortedKeys(v)[i] \in Bytes /\ v.fields[SortedKeys(v)[i]] \in Children(v)
  BY ObjectIs
<1>2. PushBytes(SortedKeys(v)[i]) \in Octets
  BY <1>1, PushBytesType
<1> QED BY <1>1, <1>2, JoinedType DEF FieldCode

LEMMA FieldListType ==
  ASSUME NEW v, Good(v), v.kind = "object", \A c \in Children(v) : EncodeValue(c) \in Octets
  PROVE  FieldList(v) \in Seq(Octets)
<1> DEFINE n == Len(SortedKeys(v))
           e(i) == FieldCode(v, SortedKeys(v)[i])
<1>1. n \in Nat /\ \A i \in 1..n : e(i) \in Octets
  BY ObjectIs, FieldCodeType
<1>2. FieldList(v) = [i \in 1..n |-> e(i)]
  BY DEF FieldList
<1> HIDE DEF n, e
<1>3. FieldList(v) \in [1..n -> Octets]
  BY <1>1, <1>2
<1> QED BY <1>1, <1>3

LEMMA ValueCode ==
  ASSUME NEW v, Good(v), \A c \in Children(v) : EncodeValue(c) \in Octets
  PROVE  EncodeValue(v) = Join(<<Number(v)>>, Body(v))
<1> DEFINE code == [c \in Children(v) |-> EncodeValue(c)]
<1>1. EncodeValue(v) = Code(v, code)
  BY PartCodes DEF Good
<1>2. \A c \in Children(v) : code[c] = EncodeValue(c)
  OBVIOUS
<1>3. v.kind \in EncodableKinds
  BY GoodIs
<1> HIDE DEF code
<1>4. CASE v.kind = "none"
  <2>1. Code(v, code) = <<0>> /\ Number(v) = 0 /\ Body(v) = <<>>
    BY <1>4 DEF Code, Number, Body
  <2>2. <<0>> \in Octets
    BY DEF Octets
  <2>3. Join(<<0>>, <<>>) = <<0>>
    BY <2>2, EmptyOctets
  <2> QED BY <1>1, <2>1, <2>3
<1>5. CASE v.kind = "bool"
  <2> DEFINE b == IF v.bool THEN 1 ELSE 0
  <2>1. Code(v, code) = <<1, b>> /\ Number(v) = 1 /\ Body(v) = <<b>>
    BY <1>5 DEF Code, Number, Body
  <2>2. Join(<<1>>, <<b>>) = <<1, b>>
    <3>1. b \in 0..255 /\ 1 \in 0..255
      OBVIOUS
    <3> HIDE DEF b
    <3> DEFINE p == <<1>>
               q == <<b>>
               t == <<1, b>>
    <3>2. p \in Octets /\ Len(p) = 1 /\ p[1] = 1 /\ q \in Octets /\ Len(q) = 1 /\ q[1] = b
      BY <3>1, OneOctet
    <3>3. t \in Octets /\ Len(t) = 2 /\ t[1] = 1 /\ t[2] = b
      BY <3>1 DEF Octets
    <3> HIDE DEF p, q, t
    <3>4. Join(p, q) \in Octets /\ Len(Join(p, q)) = 1 + 1
      BY <3>2, JoinedType, JoinedLength
    <3>5. Join(p, q)[1] = 1 /\ Join(p, q)[1 + 1] = b
      <4>1. 1 \in 1..Len(p) /\ 1 \in 1..Len(q)
        BY <3>2
      <4> QED BY <3>2, <4>1, JoinedFirst, JoinedSecond
    <3>6. Join(p, q) = t
      <4> DEFINE s == Join(p, q)
      <4>1. s \in Octets /\ Len(s) = 2 /\ s[1] = t[1] /\ s[2] = t[2]
        BY <3>3, <3>4, <3>5
      <4> HIDE DEF s
      <4>2. \A i \in 1..Len(s) : s[i] = t[i]
        BY <4>1
      <4>3. s = t
        BY <3>3, <4>1, <4>2, SameOctets
      <4> QED BY <4>3 DEF s
    <3> QED BY <3>6 DEF p, q, t
  <2> HIDE DEF b
  <2> QED BY <1>1, <2>1, <2>2
<1>6. CASE v.kind = "int"
  <2>1. Code(v, code) = <<2>> \o BigEndian(v.int) /\ Number(v) = 2 /\ Body(v) = BigEndian(v.int)
    BY <1>6 DEF Code, Number, Body
  <2> QED BY <1>1, <2>1 DEF Join
<1>7. CASE v.kind = "number"
  <2>1. /\ Code(v, code) = <<3>> \o BigEndian(Bits(v.num))
        /\ Number(v) = 3 /\ Body(v) = BigEndian(Bits(v.num))
    BY <1>7 DEF Code, Number, Body
  <2> QED BY <1>1, <2>1 DEF Join
<1>8. CASE v.kind = "string"
  <2>1. Code(v, code) = <<4>> \o PushBytes(v.text) /\ Number(v) = 4 /\ Body(v) = PushBytes(v.text)
    BY <1>8 DEF Code, Number, Body
  <2> QED BY <1>1, <2>1 DEF Join
<1>9. CASE v.kind = "bytes"
  <2>1. Code(v, code) = <<5>> \o PushBytes(v.bytes) /\ Number(v) = 5 /\ Body(v) = PushBytes(v.bytes)
    BY <1>9 DEF Code, Number, Body
  <2> QED BY <1>1, <2>1 DEF Join
<1>10. CASE v.kind = "list"
  <2>1. [i \in DOMAIN v.items |-> code[v.items[i]]] = ItemList(v)
    BY <1>2, <1>10, ListIs DEF ItemList
  <2>2. Code(v, code) = <<6>> \o PushLen(Len(v.items)) \o FlattenSeq(ItemList(v))
    BY <1>10, <2>1 DEF Code
  <2>3. Number(v) = 6 /\ Body(v) = Join(PushLen(Len(v.items)), FlattenSeq(ItemList(v)))
    BY <1>10, ListIs DEF Number, Body, Counted
  <2>4. Code(v, code) = Join(Join(<<6>>, PushLen(Len(v.items))), FlattenSeq(ItemList(v)))
    BY <2>2 DEF Join
  <2>5. /\ <<6>> \in Octets /\ PushLen(Len(v.items)) \in Octets
        /\ FlattenSeq(ItemList(v)) \in Octets
    <3>1. 6 \in 0..255
      OBVIOUS
    <3>2. Len(v.items) \in Nat
      BY <1>10, ListIs
    <3>3. ItemList(v) \in Seq(Octets)
      BY <1>10, ItemListType
    <3>4. <<6>> \in Octets
      BY <3>1, OneOctet
    <3>5. PushLen(Len(v.items)) \in Octets
      BY <3>2, PushLenType
    <3> QED BY <3>3, <3>4, <3>5, FlattenType
  <2>6. Join(Join(<<6>>, PushLen(Len(v.items))), FlattenSeq(ItemList(v)))
            = Join(<<6>>, Join(PushLen(Len(v.items)), FlattenSeq(ItemList(v))))
    BY <2>5, JoinedTwice
  <2> QED BY <1>1, <2>3, <2>4, <2>6
<1>11. CASE v.kind = "object"
  <2>1. FieldCodes(v.fields, SortedKeys(v), code) = FieldList(v)
    <3>1. ASSUME NEW i \in 1..Len(SortedKeys(v))
          PROVE  PushBytes(SortedKeys(v)[i]) \o code[v.fields[SortedKeys(v)[i]]]
                     = FieldCode(v, SortedKeys(v)[i])
      <4>1. v.fields[SortedKeys(v)[i]] \in Children(v)
        BY <1>11, ObjectIs
      <4> QED BY <1>2, <4>1 DEF FieldCode, Join
    <3>2. DOMAIN SortedKeys(v) = 1..Len(SortedKeys(v))
      BY <1>11, ObjectIs
    <3> QED BY <3>1, <3>2 DEF FieldCodes, FieldList
  <2>2. Code(v, code) = <<7>> \o PushLen(Len(SortedKeys(v))) \o FlattenSeq(FieldList(v))
    BY <1>11, <2>1 DEF Code
  <2>3. Number(v) = 7 /\ Body(v) = Join(PushLen(Len(SortedKeys(v))), FlattenSeq(FieldList(v)))
    BY <1>11, ObjectIs DEF Number, Body, Counted
  <2>4. Code(v, code) = Join(Join(<<7>>, PushLen(Len(SortedKeys(v)))), FlattenSeq(FieldList(v)))
    BY <2>2 DEF Join
  <2>5. /\ <<7>> \in Octets /\ PushLen(Len(SortedKeys(v))) \in Octets
        /\ FlattenSeq(FieldList(v)) \in Octets
    <3>1. 7 \in 0..255
      OBVIOUS
    <3>2. Len(SortedKeys(v)) \in Nat
      BY <1>11, ObjectIs
    <3>3. FieldList(v) \in Seq(Octets)
      BY <1>11, FieldListType
    <3>4. <<7>> \in Octets
      BY <3>1, OneOctet
    <3>5. PushLen(Len(SortedKeys(v))) \in Octets
      BY <3>2, PushLenType
    <3> QED BY <3>3, <3>4, <3>5, FlattenType
  <2>6. Join(Join(<<7>>, PushLen(Len(SortedKeys(v)))), FlattenSeq(FieldList(v)))
            = Join(<<7>>, Join(PushLen(Len(SortedKeys(v))), FlattenSeq(FieldList(v))))
    BY <2>5, JoinedTwice
  <2> QED BY <1>1, <2>3, <2>4, <2>6
<1> QED BY <1>3, <1>4, <1>5, <1>6, <1>7, <1>8, <1>9, <1>10, <1>11 DEF EncodableKinds

LEMMA BodyType ==
  ASSUME NEW v, Good(v), \A c \in Children(v) : EncodeValue(c) \in Octets
  PROVE  Body(v) \in Octets /\ <<Number(v)>> \in Octets
<1>1. v.kind \in EncodableKinds /\ WellFormed(v)
  BY GoodIs
<1>2. <<Number(v)>> \in Octets
  <2>1. Number(v) \in 0..7
    BY <1>1, NumberTold
  <2>2. Number(v) \in 0..255
    BY <2>1
  <2> QED BY <2>2, OneOctet
<1>3. CASE v.kind = "none"
  <2>1. Body(v) = <<>>
    BY <1>3 DEF Body
  <2> QED BY <1>2, <2>1, EmptyOctets
<1>4. CASE v.kind = "bool"
  <2> DEFINE b == IF v.bool THEN 1 ELSE 0
  <2>1. b \in 0..255 /\ Body(v) = <<b>>
    BY <1>4 DEF Body
  <2> HIDE DEF b
  <2> QED BY <1>2, <2>1, OneOctet
<1>5. CASE v.kind = "int"
  <2>1. v.int \in -Half..Half - 1
    BY <1>1, <1>5, KindsOf
  <2>2. v.int \in Int
    BY <2>1, HalfIsNumber
  <2>3. Body(v) = BigEndian(v.int)
    BY <1>5 DEF Body
  <2>4. BigEndian(v.int) \in Octets
    BY <2>2, BigEndianType
  <2> QED BY <1>2, <2>3, <2>4
<1>6. CASE v.kind = "number"
  <2>1. v.num \in [neg : BOOLEAN, mag : 0..Half - 1]
    BY <1>1, <1>6, KindsOf
  <2>2. Bits(v.num) \in -Half..Half - 1
    BY <2>1, BitsAre
  <2>3. Bits(v.num) \in Int
    BY <2>2, HalfIsNumber
  <2>4. Body(v) = BigEndian(Bits(v.num))
    BY <1>6 DEF Body
  <2>5. BigEndian(Bits(v.num)) \in Octets
    BY <2>3, BigEndianType
  <2> QED BY <1>2, <2>4, <2>5
<1>7. CASE v.kind = "string"
  <2>1. v.text \in Bytes
    BY <1>1, <1>7, KindsOf
  <2>2. Body(v) = PushBytes(v.text)
    BY <1>7 DEF Body
  <2>3. PushBytes(v.text) \in Octets
    BY <2>1, PushBytesType
  <2> QED BY <1>2, <2>2, <2>3
<1>8. CASE v.kind = "bytes"
  <2>1. v.bytes \in Bytes
    BY <1>1, <1>8, KindsOf
  <2>2. Body(v) = PushBytes(v.bytes)
    BY <1>8 DEF Body
  <2>3. PushBytes(v.bytes) \in Octets
    BY <2>1, PushBytesType
  <2> QED BY <1>2, <2>2, <2>3
<1>9. CASE v.kind = "list"
  <2>1. ItemList(v) \in Seq(Octets)
    BY <1>9, ItemListType
  <2>2. Body(v) = Counted(ItemList(v))
    BY <1>9 DEF Body
  <2>3. Counted(ItemList(v)) \in Octets
    BY <2>1, CountedType
  <2> QED BY <1>2, <2>2, <2>3
<1>10. CASE v.kind = "object"
  <2>1. FieldList(v) \in Seq(Octets)
    BY <1>10, FieldListType
  <2>2. Body(v) = Counted(FieldList(v))
    BY <1>10 DEF Body
  <2>3. Counted(FieldList(v)) \in Octets
    BY <2>1, CountedType
  <2> QED BY <1>2, <2>2, <2>3
<1> QED BY <1>1, <1>3, <1>4, <1>5, <1>6, <1>7, <1>8, <1>9, <1>10 DEF EncodableKinds

LEMMA EncodeValueType ==
  \A v : Good(v) => EncodeValue(v) \in Octets
<1> DEFINE Typed(n) == \A v : Good(v) /\ Flat(v, n) => EncodeValue(v) \in Octets
           D == {n \in 0..MaxDepth : ~Typed(n)}
<1>1. MaxDepth \in Nat /\ MaxDepth \in 0..MaxDepth
  BY ValuesAssumption
<1>2. CASE D = {}
  <2>1. Typed(MaxDepth)
    BY <1>1, <1>2
  <2>2. \A v : Good(v) => Flat(v, MaxDepth)
    BY DEF Good, IsValue, Flat
  <2> QED BY <2>1, <2>2
<1>3. CASE D # {}
  <2>1. D \in SUBSET Nat
    OBVIOUS
  <2>2. PICK n \in D : \A m \in D : n <= m
    <3> HIDE DEF D
    <3> QED BY <1>3, <2>1, LeastNumber
  <2>3. n \in 0..MaxDepth
    OBVIOUS
  <2>4. PICK v : Good(v) /\ Flat(v, n) /\ EncodeValue(v) \notin Octets
    BY <2>2
  <2>5. ASSUME NEW c \in Children(v) PROVE EncodeValue(c) \in Octets
    <3>1. n \in 1..MaxDepth /\ n - 1 \in 0..MaxDepth /\ Flat(c, n - 1)
      BY <2>3, <2>4, FlatChild
    <3>2. ~(n <= n - 1)
      BY <3>1
    <3>3. Typed(n - 1)
      BY <2>2, <3>1, <3>2
    <3>4. Good(c)
      BY <2>4, GoodIs
    <3> QED BY <3>1, <3>3, <3>4
  <2>6. EncodeValue(v) = Join(<<Number(v)>>, Body(v))
    BY <2>4, <2>5, ValueCode
  <2>7. Body(v) \in Octets /\ <<Number(v)>> \in Octets
    BY <2>4, <2>5, BodyType
  <2> QED BY <2>4, <2>6, <2>7, JoinedType
<1> QED BY <1>2, <1>3

\* Two values whose codes are told apart, and the same when nobody sees what
\* differs.
Told(v, w) ==
    /\ Apart(EncodeValue(v), EncodeValue(w))
    /\ EncodeValue(v) = EncodeValue(w) <=> Plain(v) = Plain(w)

PlainItems(v) == [i \in 1..Len(v.items) |-> Plain(v.items[i])]
PlainOf(v) == [key \in DOMAIN v.fields |-> Plain(v.fields[key])]

LEMMA PlainIs ==
  ASSUME NEW v, Good(v)
  PROVE  /\ v.kind = "list" => Plain(v) = [kind |-> "list", items |-> PlainItems(v)]
         /\ v.kind = "object" => Plain(v) = [kind |-> "object", fields |-> PlainOf(v)]
         /\ v.kind = "number" => Plain(v) = [kind |-> "number", num |-> PlainNumber(v.num)]
         /\ v.kind \notin {"list", "object", "number"} => Plain(v) = v
         /\ Plain(v).kind = v.kind
<1> DEFINE plain == [c \in Children(v) |-> Plain(c)]
<1>1. Plain(v) = PlainFrom(v, plain)
  BY PartCodes DEF Good
<1>2. \A c \in Children(v) : plain[c] = Plain(c)
  OBVIOUS
<1> HIDE DEF plain
<1>3. CASE v.kind = "list"
  <2>1. [i \in DOMAIN v.items |-> plain[v.items[i]]] = PlainItems(v)
    BY <1>2, <1>3, ListIs DEF PlainItems
  <2>2. Plain(v) = [kind |-> "list", items |-> PlainItems(v)]
    BY <1>1, <1>3, <2>1 DEF PlainFrom
  <2> QED BY <1>3, <2>2
<1>4. CASE v.kind = "object"
  <2>1. [key \in DOMAIN v.fields |-> plain[v.fields[key]]] = PlainOf(v)
    BY <1>2, <1>4, ObjectIs DEF PlainOf
  <2>2. Plain(v) = [kind |-> "object", fields |-> PlainOf(v)]
    BY <1>1, <1>4, <2>1 DEF PlainFrom
  <2> QED BY <1>4, <2>2
<1>5. CASE v.kind = "number"
  <2>1. Plain(v) = [kind |-> "number", num |-> PlainNumber(v.num)]
    BY <1>1, <1>5 DEF PlainFrom
  <2> QED BY <1>5, <2>1
<1>6. CASE v.kind \notin {"list", "object", "number"}
  <2>1. Plain(v) = v
    BY <1>1, <1>6 DEF PlainFrom
  <2> QED BY <1>6, <2>1
<1> QED BY <1>3, <1>4, <1>5, <1>6

LEMMA ListsTold ==
  ASSUME NEW v, Good(v), v.kind = "list", NEW w, Good(w), w.kind = "list",
         \A c \in Children(v), d \in Children(w) : Told(c, d)
  PROVE  /\ Apart(Body(v), Body(w))
         /\ Body(v) = Body(w) <=> Plain(v) = Plain(w)
<1> DEFINE s == ItemList(v)
           t == ItemList(w)
           m == Len(v.items)
           n == Len(w.items)
<1>1. s \in Seq(Octets) /\ t \in Seq(Octets)
  BY EncodeValueType, GoodIs, ItemListType
<1>2. /\ m \in Nat /\ n \in Nat /\ Len(s) = m /\ Len(t) = n /\ m \in Sizes /\ n \in Sizes
      /\ \A i \in 1..m : v.items[i] \in Children(v) /\ s[i] = EncodeValue(v.items[i])
      /\ \A i \in 1..n : w.items[i] \in Children(w) /\ t[i] = EncodeValue(w.items[i])
  BY ListIs
<1>3. Body(v) = Counted(s) /\ Body(w) = Counted(t)
  BY DEF Body
<1>4. Plain(v) = Plain(w) <=> PlainItems(v) = PlainItems(w)
  BY PlainIs
<1>5. ASSUME m = n, NEW i \in 1..m
      PROVE  Apart(s[i], t[i]) /\ (s[i] = t[i] <=> Plain(v.items[i]) = Plain(w.items[i]))
  BY <1>2, <1>5 DEF Told
<1> HIDE DEF s, t
<1>6. Apart(Counted(s), Counted(t)) /\ (Counted(s) = Counted(t) <=> s = t)
  BY <1>1, <1>2, <1>5, CountedApart
<1>7. PlainItems(v) = PlainItems(w) <=> (m = n /\ \A i \in 1..m : Plain(v.items[i]) = Plain(w.items[i]))
  <2> DEFINE p(i) == Plain(v.items[i])
             q(i) == Plain(w.items[i])
  <2>1. PlainItems(v) = [i \in 1..m |-> p(i)] /\ PlainItems(w) = [i \in 1..n |-> q(i)]
    BY DEF PlainItems
  <2>2. m = n <=> 1..m = 1..n
    <3> HIDE DEF m, n
    <3>1. 1..m = 1..n => m = n
      BY <1>2
    <3> QED BY <3>1
  <2> HIDE DEF p, q, m, n
  <2>3. PlainItems(v) = PlainItems(w) <=> (m = n /\ \A i \in 1..m : p(i) = q(i))
    BY <2>1, <2>2
  <2> QED BY <2>3 DEF p, q
<1>8. s = t <=> (m = n /\ \A i \in 1..m : s[i] = t[i])
  <2>1. ASSUME m = n, \A i \in 1..m : s[i] = t[i] PROVE s = t
    BY <1>1, <1>2, <2>1, SeqEqual
  <2> QED BY <1>2, <2>1
<1>9. s = t <=> PlainItems(v) = PlainItems(w)
  BY <1>5, <1>7, <1>8
<1> QED BY <1>3, <1>4, <1>6, <1>9

LEMMA ObjectsTold ==
  ASSUME NEW v, Good(v), v.kind = "object", NEW w, Good(w), w.kind = "object",
         \A c \in Children(v), d \in Children(w) : Told(c, d)
  PROVE  /\ Apart(Body(v), Body(w))
         /\ Body(v) = Body(w) <=> Plain(v) = Plain(w)
<1> DEFINE s == FieldList(v)
           t == FieldList(w)
           k == SortedKeys(v)
           l == SortedKeys(w)
           m == Len(k)
           n == Len(l)
           key(i) == PushBytes(k[i])
           lab(i) == PushBytes(l[i])
           code(i) == EncodeValue(v.fields[k[i]])
           coed(i) == EncodeValue(w.fields[l[i]])
<1>1. s \in Seq(Octets) /\ t \in Seq(Octets)
  BY EncodeValueType, GoodIs, FieldListType
<1>2. /\ m \in Nat /\ n \in Nat /\ Len(s) = m /\ Len(t) = n /\ m \in Sizes /\ n \in Sizes
      /\ k \in Seq(Bytes) /\ l \in Seq(Bytes)
      /\ ToSet(k) = DOMAIN v.fields /\ ToSet(l) = DOMAIN w.fields
      /\ DOMAIN k = 1..m /\ DOMAIN l = 1..n
  BY ObjectIs
<1>3. \A i \in 1..m : /\ k[i] \in Bytes /\ v.fields[k[i]] \in Children(v)
                      /\ s[i] = Join(key(i), code(i))
  BY ObjectIs DEF FieldCode
<1>4. \A i \in 1..n : /\ l[i] \in Bytes /\ w.fields[l[i]] \in Children(w)
                      /\ t[i] = Join(lab(i), coed(i))
  BY ObjectIs DEF FieldCode
<1>5. Body(v) = Counted(s) /\ Body(w) = Counted(t)
  BY DEF Body
<1>6. Plain(v) = Plain(w) <=> PlainOf(v) = PlainOf(w)
  BY PlainIs
<1>7. ASSUME m = n, NEW i \in 1..m
      PROVE  /\ Apart(s[i], t[i])
             /\ s[i] = t[i] <=> /\ k[i] = l[i]
                                /\ Plain(v.fields[k[i]]) = Plain(w.fields[l[i]])
  <2>1. i \in 1..n
    BY <1>7
  <2>2. key(i) \in Octets /\ lab(i) \in Octets /\ Apart(key(i), lab(i)) /\ (key(i) = lab(i) <=> k[i] = l[i])
    BY <1>3, <1>4, <2>1, PushBytesType, BytesApart, PushBytesTold
  <2>3. code(i) \in Octets /\ coed(i) \in Octets
    BY <1>3, <1>4, <2>1, EncodeValueType, GoodIs
  <2>4. Told(v.fields[k[i]], w.fields[l[i]])
    BY <1>3, <1>4, <2>1
  <2>5. /\ Apart(code(i), coed(i))
        /\ code(i) = coed(i) <=> Plain(v.fields[k[i]]) = Plain(w.fields[l[i]])
    BY <2>4 DEF Told
  <2>6. s[i] = Join(key(i), code(i)) /\ t[i] = Join(lab(i), coed(i))
    BY <1>3, <1>4, <2>1
  <2> HIDE DEF s, t, k, l, m, n, key, lab, code, coed
  <2>7. Apart(s[i], t[i])
    BY <2>2, <2>3, <2>5, <2>6, JoinApart
  <2>8. s[i] = t[i] <=> key(i) = lab(i) /\ code(i) = coed(i)
    BY <2>2, <2>3, <2>6, JoinTold
  <2> QED BY <2>2, <2>5, <2>7, <2>8
<1> HIDE DEF s, t, k, l
<1>8. Apart(Counted(s), Counted(t)) /\ (Counted(s) = Counted(t) <=> s = t)
  BY <1>1, <1>2, <1>7, CountedApart
<1>9. s = t <=> (m = n /\ \A i \in 1..m : s[i] = t[i])
  <2>1. ASSUME m = n, \A i \in 1..m : s[i] = t[i] PROVE s = t
    BY <1>1, <1>2, <2>1, SeqEqual
  <2> QED BY <1>2, <2>1
<1>10. ASSUME s = t PROVE PlainOf(v) = PlainOf(w)
  <2>1. m = n /\ \A i \in 1..m : k[i] = l[i] /\ Plain(v.fields[k[i]]) = Plain(w.fields[l[i]])
    BY <1>7, <1>9, <1>10
  <2>2. k = l
    BY <1>2, <2>1, SeqEqual
  <2>3. DOMAIN v.fields = DOMAIN w.fields
    BY <1>2, <2>2
  <2>4. ASSUME NEW name \in DOMAIN v.fields PROVE Plain(v.fields[name]) = Plain(w.fields[name])
    <3>1. PICK i \in 1..m : name = k[i]
      BY <1>2 DEF ToSet
    <3> QED BY <2>1, <3>1
  <2> DEFINE p(name) == Plain(v.fields[name])
             q(name) == Plain(w.fields[name])
             S == DOMAIN v.fields
  <2>5. PlainOf(v) = [name \in S |-> p(name)] /\ PlainOf(w) = [name \in S |-> q(name)]
    BY <2>3 DEF PlainOf
  <2>6. \A name \in S : p(name) = q(name)
    BY <2>4
  <2> HIDE DEF p, q, S
  <2> QED BY <2>5, <2>6
<1>11. ASSUME PlainOf(v) = PlainOf(w) PROVE s = t
  <2> DEFINE p(name) == Plain(v.fields[name])
             q(name) == Plain(w.fields[name])
             S == DOMAIN v.fields
             T == DOMAIN w.fields
  <2>1. PlainOf(v) = [name \in S |-> p(name)] /\ PlainOf(w) = [name \in T |-> q(name)]
    BY DEF PlainOf
  <2>2. S = T /\ \A name \in S : p(name) = q(name)
    <3> HIDE DEF p, q, S, T
    <3>1. DOMAIN PlainOf(v) = S /\ DOMAIN PlainOf(w) = T
      BY <2>1
    <3>2. S = T
      BY <1>11, <3>1
    <3>3. \A name \in S : PlainOf(v)[name] = p(name) /\ PlainOf(w)[name] = q(name)
      BY <2>1, <3>2
    <3> QED BY <1>11, <3>2, <3>3
  <2>3. k = l
    BY <2>2 DEF k, l, SortedKeys
  <2>4. m = n
    BY <2>3
  <2>5. ASSUME NEW i \in 1..m PROVE s[i] = t[i]
    <3>1. k[i] \in S /\ k[i] = l[i]
      BY <1>2, <2>3 DEF ToSet
    <3>2. Plain(v.fields[k[i]]) = Plain(w.fields[l[i]])
      BY <2>2, <3>1
    <3> QED BY <1>7, <2>4, <3>1, <3>2
  <2> QED BY <1>9, <2>4, <2>5
<1> QED BY <1>5, <1>6, <1>8, <1>10, <1>11

LEMMA BodiesTold ==
  ASSUME NEW v, Good(v), NEW w, Good(w), v.kind = w.kind,
         \A c \in Children(v), d \in Children(w) : Told(c, d)
  PROVE  /\ Apart(Body(v), Body(w))
         /\ Body(v) = Body(w) <=> Plain(v) = Plain(w)
<1>1. v.kind \in EncodableKinds /\ WellFormed(v) /\ WellFormed(w)
  BY GoodIs
<1>2. Body(v) \in Octets /\ Body(w) \in Octets
  BY GoodIs, BodyType, EncodeValueType
<1>3. v.kind \notin {"list", "object", "number"} => Plain(v) = v /\ Plain(w) = w
  BY PlainIs
<1>4. CASE v.kind = "none"
  <2>1. Body(v) = <<>> /\ Body(w) = <<>>
    BY <1>4 DEF Body
  <2>2. v = w
    BY <1>1, <1>4, KindsOf
  <2> QED BY <1>2, <2>1, <2>2, SameApart
<1>5. CASE v.kind = "bool"
  <2> DEFINE a == IF v.bool THEN 1 ELSE 0
             b == IF w.bool THEN 1 ELSE 0
  <2>1. Body(v) = <<a>> /\ Body(w) = <<b>>
    BY <1>5 DEF Body
  <2>2. /\ v.bool \in BOOLEAN /\ v = [kind |-> "bool", bool |-> v.bool]
        /\ w.bool \in BOOLEAN /\ w = [kind |-> "bool", bool |-> w.bool]
    BY <1>1, <1>5, KindsOf
  <2>3. a = b <=> v.bool = w.bool
    BY <2>2
  <2>4. a \in 0..255 /\ b \in 0..255
    OBVIOUS
  <2> HIDE DEF a, b
  <2>5. Len(<<a>>) = Len(<<b>>) /\ (<<a>> = <<b>> <=> a = b)
    OBVIOUS
  <2>6. Apart(Body(v), Body(w))
    BY <1>2, <2>1, <2>5, SameLengthApart
  <2>7. v = w <=> v.bool = w.bool
    BY <2>2
  <2> QED BY <1>3, <1>5, <2>1, <2>3, <2>5, <2>6, <2>7
<1>6. CASE v.kind = "int"
  <2>1. /\ v = [kind |-> "int", int |-> v.int] /\ v.int \in -Half..Half - 1
        /\ w = [kind |-> "int", int |-> w.int] /\ w.int \in -Half..Half - 1
    BY <1>1, <1>6, KindsOf
  <2>2. v.int \in Int /\ w.int \in Int
    BY <2>1, HalfIsNumber
  <2>3. Body(v) = BigEndian(v.int) /\ Body(w) = BigEndian(w.int)
    BY <1>6 DEF Body
  <2>4. Len(Body(v)) = Len(Body(w))
    BY <2>2, <2>3, BigEndianType
  <2>5. Apart(Body(v), Body(w))
    BY <1>2, <2>4, SameLengthApart
  <2>6. BigEndian(v.int) = BigEndian(w.int) <=> v.int = w.int
    BY <2>1, BigEndianTold
  <2>7. v = w <=> v.int = w.int
    BY <2>1
  <2> QED BY <1>3, <1>6, <2>3, <2>5, <2>6, <2>7
<1>7. CASE v.kind = "number"
  <2>1. /\ v.num \in [neg : BOOLEAN, mag : 0..Half - 1]
        /\ w.num \in [neg : BOOLEAN, mag : 0..Half - 1]
    BY <1>1, <1>7, KindsOf
  <2> DEFINE a == Bits(v.num)
             b == Bits(w.num)
  <2>2. a \in -Half..Half - 1 /\ b \in -Half..Half - 1
        /\ (a = b <=> PlainNumber(v.num) = PlainNumber(w.num))
    BY <2>1, BitsAre
  <2>3. a \in Int /\ b \in Int
    <3> HIDE DEF a, b
    <3> QED BY <2>2, HalfIsNumber
  <2>4. Body(v) = BigEndian(a) /\ Body(w) = BigEndian(b)
    BY <1>7 DEF Body
  <2> HIDE DEF a, b
  <2>5. Len(Body(v)) = Len(Body(w))
    BY <2>3, <2>4, BigEndianType
  <2>6. Apart(Body(v), Body(w))
    BY <1>2, <2>5, SameLengthApart
  <2>7. BigEndian(a) = BigEndian(b) <=> a = b
    BY <2>2, BigEndianTold
  <2>8. Plain(v) = [kind |-> "number", num |-> PlainNumber(v.num)]
        /\ Plain(w) = [kind |-> "number", num |-> PlainNumber(w.num)]
    BY <1>7, PlainIs
  <2>9. Plain(v) = Plain(w) <=> PlainNumber(v.num) = PlainNumber(w.num)
    BY <2>8
  <2> QED BY <2>2, <2>4, <2>6, <2>7, <2>9
<1>8. CASE v.kind = "string"
  <2>1. /\ v = [kind |-> "string", text |-> v.text] /\ v.text \in Bytes
        /\ w = [kind |-> "string", text |-> w.text] /\ w.text \in Bytes
    BY <1>1, <1>8, KindsOf
  <2>2. Body(v) = PushBytes(v.text) /\ Body(w) = PushBytes(w.text)
    BY <1>8 DEF Body
  <2>3. Apart(Body(v), Body(w)) /\ (PushBytes(v.text) = PushBytes(w.text) <=> v.text = w.text)
    BY <2>1, <2>2, BytesApart, PushBytesTold
  <2>4. v = w <=> v.text = w.text
    BY <2>1
  <2> QED BY <1>3, <1>8, <2>2, <2>3, <2>4
<1>9. CASE v.kind = "bytes"
  <2>1. /\ v = [kind |-> "bytes", bytes |-> v.bytes] /\ v.bytes \in Bytes
        /\ w = [kind |-> "bytes", bytes |-> w.bytes] /\ w.bytes \in Bytes
    BY <1>1, <1>9, KindsOf
  <2>2. Body(v) = PushBytes(v.bytes) /\ Body(w) = PushBytes(w.bytes)
    BY <1>9 DEF Body
  <2>3. Apart(Body(v), Body(w)) /\ (PushBytes(v.bytes) = PushBytes(w.bytes) <=> v.bytes = w.bytes)
    BY <2>1, <2>2, BytesApart, PushBytesTold
  <2>4. v = w <=> v.bytes = w.bytes
    BY <2>1
  <2> QED BY <1>3, <1>9, <2>2, <2>3, <2>4
<1>10. CASE v.kind = "list"
  BY <1>10, ListsTold
<1>11. CASE v.kind = "object"
  BY <1>11, ObjectsTold
<1> QED BY <1>1, <1>4, <1>5, <1>6, <1>7, <1>8, <1>9, <1>10, <1>11 DEF EncodableKinds

LEMMA CodesTold ==
  ASSUME NEW v, Good(v), NEW w, Good(w), \A c \in Children(v), d \in Children(w) : Told(c, d)
  PROVE  Told(v, w)
<1> DEFINE a == <<Number(v)>>
           b == <<Number(w)>>
           c == Body(v)
           d == Body(w)
<1>1. a \in Octets /\ b \in Octets /\ c \in Octets /\ d \in Octets
  BY GoodIs, BodyType, EncodeValueType
<1>2. EncodeValue(v) = Join(a, c) /\ EncodeValue(w) = Join(b, d)
  BY GoodIs, ValueCode, EncodeValueType
<1>3. a = b <=> v.kind = w.kind
  <2>1. a = b => Number(v) = Number(w)
    OBVIOUS
  <2>2. v.kind = w.kind => Number(v) = Number(w)
    BY DEF Number
  <2> QED BY <2>1, <2>2, GoodIs, NumberTold
<1>4. Len(a) = Len(b)
  OBVIOUS
<1>5. v.kind = w.kind => Apart(c, d) /\ (c = d <=> Plain(v) = Plain(w))
  BY BodiesTold
<1>6. Plain(v) = Plain(w) => v.kind = w.kind
  BY PlainIs
<1> HIDE DEF a, b, c, d
<1>7. Apart(a, b)
  BY <1>1, <1>4, SameLengthApart
<1>8. Apart(Join(a, c), Join(b, d))
  BY <1>1, <1>3, <1>5, <1>7, JoinApart
<1>9. Join(a, c) = Join(b, d) <=> a = b /\ c = d
  BY <1>1, <1>7, JoinTold
<1> QED BY <1>2, <1>3, <1>5, <1>6, <1>8, <1>9 DEF Told

LEMMA ValuesTold ==
  \A v, w : Good(v) /\ Good(w) => Told(v, w)
<1> DEFINE All(n) == \A v, w : Good(v) /\ Good(w) /\ Flat(v, n) => Told(v, w)
           D == {n \in 0..MaxDepth : ~All(n)}
<1>1. MaxDepth \in Nat /\ MaxDepth \in 0..MaxDepth
  BY ValuesAssumption
<1>2. CASE D = {}
  <2>1. All(MaxDepth)
    BY <1>1, <1>2
  <2>2. \A v : Good(v) => Flat(v, MaxDepth)
    BY DEF Good, IsValue, Flat
  <2> QED BY <2>1, <2>2
<1>3. CASE D # {}
  <2>1. D \in SUBSET Nat
    OBVIOUS
  <2>2. PICK n \in D : \A m \in D : n <= m
    <3> HIDE DEF D
    <3> QED BY <1>3, <2>1, LeastNumber
  <2>3. n \in 0..MaxDepth
    OBVIOUS
  <2>4. PICK v, w : Good(v) /\ Good(w) /\ Flat(v, n) /\ ~Told(v, w)
    BY <2>2
  <2>5. ASSUME NEW c \in Children(v), NEW d \in Children(w) PROVE Told(c, d)
    <3>1. n \in 1..MaxDepth /\ n - 1 \in 0..MaxDepth /\ Flat(c, n - 1)
      BY <2>3, <2>4, FlatChild
    <3>2. ~(n <= n - 1)
      BY <3>1
    <3>3. All(n - 1)
      BY <2>2, <3>1, <3>2
    <3>4. Good(c) /\ Good(d)
      BY <2>4, GoodIs
    <3> QED BY <3>1, <3>3, <3>4
  <2> QED BY <2>4, <2>5, CodesTold
<1> QED BY <1>2, <1>3

\* What a value holds further down is what its children hold.
LEMMA LayersOfChildren ==
  ASSUME NEW v, NEW n \in 0..(MaxDepth - 1)
  PROVE  Layers(v)[n + 1] = UNION {Layers(c)[n] : c \in Children(v)}
<1> DEFINE Deeper(k) == Layers(v)[k + 1] = UNION {Layers(c)[k] : c \in Children(v)}
           D == {k \in 0..(MaxDepth - 1) : ~Deeper(k)}
<1>1. MaxDepth \in Nat
  BY ValuesAssumption
<1>2. SUFFICES ASSUME D # {} PROVE FALSE
  OBVIOUS
<1>3. D \in SUBSET Nat
  BY <1>1
<1>4. PICK k \in D : \A m \in D : k <= m
  <2> HIDE DEF D
  <2> QED BY <1>2, <1>3, LeastNumber
<1>5. k \in 0..(MaxDepth - 1) /\ k + 1 \in 1..MaxDepth /\ (k + 1) - 1 = k /\ ~Deeper(k)
  BY <1>1
<1>6. Layers(v)[k + 1] = UNION {Children(w) : w \in Layers(v)[k]}
  BY <1>5, LayersAre
<1>7. CASE k = 0
  <2>1. Layers(v)[k] = {v} /\ \A c : Layers(c)[k] = {c}
    BY <1>7, LayersAre
  <2>2. Deeper(k)
    BY <1>6, <2>1
  <2> QED BY <1>5, <2>2
<1>8. CASE k # 0
  <2>1. k - 1 \in 0..(MaxDepth - 1) /\ ~(k <= k - 1) /\ k \in 1..MaxDepth /\ (k - 1) + 1 = k
    BY <1>1, <1>5, <1>8
  <2>2. Layers(v)[k] = UNION {Layers(c)[k - 1] : c \in Children(v)}
    <3>1. k - 1 \notin D
      BY <1>4, <2>1
    <3> QED BY <2>1, <3>1
  <2>3. \A c : Layers(c)[k] = UNION {Children(w) : w \in Layers(c)[k - 1]}
    BY <2>1, LayersAre
  <2>4. Deeper(k)
    BY <1>6, <2>2, <2>3
  <2> QED BY <1>5, <2>4
<1> QED BY <1>7, <1>8

LEMMA PartsAre ==
  ASSUME NEW v, NEW w \in Parts(v)
  PROVE  w = v \/ \E c \in Children(v) : w \in Parts(c)
<1>1. PICK n \in 0..MaxDepth : w \in Layers(v)[n]
  BY DEF Parts
<1>2. CASE n = 0
  BY <1>1, <1>2, LayersAre
<1>3. CASE n # 0
  <2>1. n - 1 \in 0..(MaxDepth - 1) /\ n - 1 \in 0..MaxDepth /\ (n - 1) + 1 = n
    BY <1>3, ValuesAssumption
  <2>2. PICK c \in Children(v) : w \in Layers(c)[n - 1]
    BY <1>1, <2>1, LayersOfChildren
  <2> QED BY <2>1, <2>2 DEF Parts
<1> QED BY <1>2, <1>3

LEMMA CallIs ==
  ASSUME NEW tool, NEW v
  PROVE  LET said == Call(tool, v)
             text == [kind |-> "string", text |-> tool]
         IN /\ said.kind = "object" /\ DOMAIN said.fields = {<<97>>, <<116>>}
            /\ said.fields[<<97>>] = v /\ said.fields[<<116>>] = text
            /\ Children(said) = {v, text} /\ Children(text) = {}
<1> DEFINE said == Call(tool, v)
           text == [kind |-> "string", text |-> tool]
           fields == [key \in {<<97>>, <<116>>} |-> IF key = <<97>> THEN v ELSE text]
<1>1. said.kind = "object" /\ said.fields = fields
  BY DEF Call
<1>2. <<97>> # <<116>>
  OBVIOUS
<1>3. text.kind = "string"
  OBVIOUS
<1>4. Children(text) = {}
  <2> HIDE DEF text
  <2> QED BY <1>3 DEF Children
<1> HIDE DEF text
<1>5. /\ DOMAIN fields = {<<97>>, <<116>>}
      /\ fields[<<97>>] = v /\ fields[<<116>>] = text
  BY <1>2
<1> HIDE DEF said, fields
<1>6. Children(said) = {fields[key] : key \in DOMAIN fields}
  BY <1>1 DEF Children
<1>7. Children(said) = {v, text}
  BY <1>5, <1>6
<1> QED BY <1>1, <1>4, <1>5, <1>7 DEF said, text

LEMMA CallIsGood ==
  ASSUME NEW tool, NEW v, IsValue(Call(tool, v)), Encodable(v)
  PROVE  Good(Call(tool, v)) /\ Good(v)
<1> DEFINE said == Call(tool, v)
           text == [kind |-> "string", text |-> tool]
<1>1. said.kind = "object" /\ Children(said) = {v, text} /\ Children(text) = {}
  BY CallIs
<1>2. ASSUME NEW w \in Parts(said) PROVE w.kind \notin {"artifact", "nonfinite"}
  <2>1. CASE w = said
    <3> HIDE DEF said
    <3> QED BY <1>1, <2>1
  <2>2. CASE w \in Parts(v)
    BY <2>2 DEF Encodable
  <2>3. CASE w \in Parts(text)
    <3>1. w = text
      <4> HIDE DEF text
      <4> QED BY <1>1, <2>3, PartsAre
    <3> QED BY <3>1
  <2>4. w = said \/ w \in Parts(v) \/ w \in Parts(text)
    <3> HIDE DEF said, text
    <3> QED BY <1>1, PartsAre
  <2> QED BY <2>1, <2>2, <2>3, <2>4
<1>3. Good(said)
  BY <1>2 DEF Good, Encodable
<1>4. IsValue(v)
  <2> HIDE DEF said
  <2> QED BY <1>1, <1>3, ChildIsValue DEF Good
<1> QED BY <1>3, <1>4 DEF Good

LEMMA DomainsOfValues == DomainArgs \in Domains /\ DomainBatch \in Domains
  BY DEF DomainArgs, DomainBatch, Domains

(* authorization.rs command_args_digest: whatever the values and the tools *)
(* are, the digest of a call is that of no other tool and of no other      *)
(* arguments, but for the sign of a zero.                                  *)
LEMMA ValuesAreToldApart ==
  ASSUME NEW tool, NEW other, NEW v, NEW w,
         IsValue(Call(tool, v)), IsValue(Call(other, w))
  PROVE  ValuesToldApart(tool, v, other, w)
<1> SUFFICES ASSUME Encodable(v), Encodable(w)
             PROVE  (CommandArgsDigest(tool, v) = CommandArgsDigest(other, w))
                        <=> (tool = other /\ Plain(v) = Plain(w))
  BY DEF ValuesToldApart
<1> DEFINE a == Call(tool, v)
           b == Call(other, w)
           s == [kind |-> "string", text |-> tool]
           t == [kind |-> "string", text |-> other]
<1>1. Good(a) /\ Good(b) /\ Good(v) /\ Good(w)
  BY CallIsGood
<1>2. /\ a.kind = "object" /\ DOMAIN a.fields = {<<97>>, <<116>>}
      /\ a.fields[<<97>>] = v /\ a.fields[<<116>>] = s /\ Children(a) = {v, s}
      /\ b.kind = "object" /\ DOMAIN b.fields = {<<97>>, <<116>>}
      /\ b.fields[<<97>>] = w /\ b.fields[<<116>>] = t /\ Children(b) = {w, t}
  BY CallIs
<1>3. s.kind = "string" /\ t.kind = "string" /\ (s = t <=> tool = other)
  OBVIOUS
<1>4. CommandArgsDigest(tool, v) = Framed(DomainArgs, EncodeValue(a))
      /\ CommandArgsDigest(other, w) = Framed(DomainArgs, EncodeValue(b))
  BY DEF CommandArgsDigest, ValueDigest
<1> HIDE DEF a, b, s, t
<1>5. EncodeValue(a) \in Octets /\ EncodeValue(b) \in Octets
  BY <1>1, EncodeValueType
<1>6. Framed(DomainArgs, EncodeValue(a)) = Framed(DomainArgs, EncodeValue(b))
          <=> EncodeValue(a) = EncodeValue(b)
  BY <1>5, FramedTold, DomainsOfValues
<1>7. EncodeValue(a) = EncodeValue(b) <=> Plain(a) = Plain(b)
  BY <1>1, ValuesTold DEF Told
<1>8. Plain(s) = s /\ Plain(t) = t
  <2>1. Good(s) /\ Good(t)
    BY <1>1, <1>2, GoodIs
  <2> QED BY <1>3, <2>1, PlainIs
<1>9. Plain(a) = Plain(b) <=> PlainOf(a) = PlainOf(b)
  BY <1>1, <1>2, PlainIs
<1>10. /\ DOMAIN PlainOf(a) = {<<97>>, <<116>>} /\ DOMAIN PlainOf(b) = {<<97>>, <<116>>}
       /\ PlainOf(a)[<<97>>] = Plain(v) /\ PlainOf(a)[<<116>>] = s
       /\ PlainOf(b)[<<97>>] = Plain(w) /\ PlainOf(b)[<<116>>] = t
       /\ PlainOf(a) = [key \in {<<97>>, <<116>>} |-> PlainOf(a)[key]]
       /\ PlainOf(b) = [key \in {<<97>>, <<116>>} |-> PlainOf(b)[key]]
  BY <1>2, <1>8 DEF PlainOf
<1>11. PlainOf(a) = PlainOf(b) <=> (Plain(v) = Plain(w) /\ s = t)
  BY <1>10
<1> QED BY <1>3, <1>4, <1>6, <1>7, <1>9, <1>11

-----------------------------------------------------------------------------
(* Batches: items in order, each told apart from the others.               *)

Items == [id : Bytes, context : [1..6 -> Bytes], deps : Lists, command : [1..3 -> Bytes]]
View(i) == [id |-> i.id, context |-> i.context, command |-> i.command, deps |-> Sorted(i.deps)]

LEMMA AllApart ==
  ASSUME NEW a \in Seq(Bytes), NEW b \in Seq(Bytes), Len(a) = Len(b)
  PROVE  /\ Apart(PushAll(a), PushAll(b))
         /\ PushAll(a) = PushAll(b) <=> a = b
<1>1. ASSUME NEW x \in Octets, NEW y \in Octets, Join(PushAll(a), x) = Join(PushAll(b), y)
      PROVE  a = b /\ x = y
  BY <1>1, PushAllTold
<1>2. Apart(PushAll(a), PushAll(b))
  BY <1>1 DEF Apart
<1>3. ASSUME PushAll(a) = PushAll(b) PROVE a = b
  <2>1. <<>> \in Octets /\ Join(PushAll(a), <<>>) = Join(PushAll(b), <<>>)
    BY <1>3, EmptyOctets
  <2> QED BY <1>1, <2>1
<1> QED BY <1>2, <1>3

LEMMA ListApart ==
  ASSUME NEW a \in Lists, NEW b \in Lists
  PROVE  /\ Apart(PushList(a), PushList(b))
         /\ PushList(a) = PushList(b) <=> a = b
<1>1. ASSUME NEW x \in Octets, NEW y \in Octets, Join(PushList(a), x) = Join(PushList(b), y)
      PROVE  a = b /\ x = y
  BY <1>1, PushListTold
<1>2. Apart(PushList(a), PushList(b))
  BY <1>1 DEF Apart
<1> QED BY <1>2, PushListApart

LEMMA TextsOf ==
  ASSUME NEW n \in Nat, NEW texts \in [1..n -> Bytes]
  PROVE  texts \in Seq(Bytes) /\ Len(texts) = n /\ PushAll(texts) \in Octets
<1>1. texts \in Seq(Bytes) /\ Len(texts) = n
  OBVIOUS
<1> QED BY <1>1, PushAllType

LEMMA ItemIs ==
  ASSUME NEW i \in Items
  PROVE  /\ i.id \in Bytes /\ PushBytes(i.id) \in Octets
         /\ i.context \in Seq(Bytes) /\ Len(i.context) = 6 /\ PushAll(i.context) \in Octets
         /\ Sorted(i.deps) \in Lists /\ PushList(Sorted(i.deps)) \in Octets
         /\ i.command \in Seq(Bytes) /\ Len(i.command) = 3 /\ PushAll(i.command) \in Octets
         /\ PushItem(i) = Join(PushBytes(i.id),
                               Join(PushAll(i.context),
                                    Join(PushList(Sorted(i.deps)), PushAll(i.command))))
         /\ PushItem(i) \in Octets
<1> DEFINE a == PushBytes(i.id)
           b == PushAll(i.context)
           c == PushList(Sorted(i.deps))
           d == PushAll(i.command)
<1>1. i.id \in Bytes /\ i.context \in [1..6 -> Bytes] /\ i.deps \in Lists /\ i.command \in [1..3 -> Bytes]
  BY DEF Items
<1>2. a \in Octets
  BY <1>1, PushBytesType
<1>3. i.context \in Seq(Bytes) /\ Len(i.context) = 6 /\ b \in Octets
  BY <1>1, TextsOf
<1>4. Sorted(i.deps) \in Lists /\ c \in Octets
  BY <1>1, SortedList, PushListIs
<1>5. i.command \in Seq(Bytes) /\ Len(i.command) = 3 /\ d \in Octets
  BY <1>1, TextsOf
<1>6. PushItem(i) = Join(Join(Join(a, b), c), d)
  BY DEF PushItem, Join
<1> HIDE DEF a, b, c, d
<1>7. Join(a, b) \in Octets /\ Join(c, d) \in Octets
  BY <1>2, <1>3, <1>4, <1>5, JoinedType
<1>8. Join(Join(Join(a, b), c), d) = Join(Join(a, b), Join(c, d))
  BY <1>4, <1>5, <1>7, JoinedTwice
<1>9. Join(Join(a, b), Join(c, d)) = Join(a, Join(b, Join(c, d)))
  BY <1>2, <1>3, <1>7, JoinedTwice
<1>10. Join(b, Join(c, d)) \in Octets
  BY <1>3, <1>7, JoinedType
<1>11. Join(a, Join(b, Join(c, d))) \in Octets
  BY <1>2, <1>10, JoinedType
<1> QED BY <1>1, <1>2, <1>3, <1>4, <1>5, <1>6, <1>8, <1>9, <1>11 DEF a, b, c, d

LEMMA ItemsTold ==
  ASSUME NEW i \in Items, NEW j \in Items
  PROVE  /\ Apart(PushItem(i), PushItem(j))
         /\ PushItem(i) = PushItem(j) <=> View(i) = View(j)
<1> DEFINE a == PushBytes(i.id)
           b == PushAll(i.context)
           c == PushList(Sorted(i.deps))
           d == PushAll(i.command)
           e == PushBytes(j.id)
           f == PushAll(j.context)
           g == PushList(Sorted(j.deps))
           h == PushAll(j.command)
<1>1. Apart(a, e) /\ (a = e <=> i.id = j.id)
  BY ItemIs, BytesApart, PushBytesTold
<1>2. Apart(b, f) /\ (b = f <=> i.context = j.context)
  BY ItemIs, AllApart
<1>3. Apart(c, g) /\ (c = g <=> Sorted(i.deps) = Sorted(j.deps))
  BY ItemIs, ListApart
<1>4. Apart(d, h) /\ (d = h <=> i.command = j.command)
  BY ItemIs, AllApart
<1>5. /\ a \in Octets /\ b \in Octets /\ c \in Octets /\ d \in Octets
      /\ PushItem(i) = Join(a, Join(b, Join(c, d)))
  BY ItemIs
<1>6. /\ e \in Octets /\ f \in Octets /\ g \in Octets /\ h \in Octets
      /\ PushItem(j) = Join(e, Join(f, Join(g, h)))
  BY ItemIs
<1> HIDE DEF a, b, c, d, e, f, g, h
<1>7. Join(c, d) \in Octets /\ Join(g, h) \in Octets /\ Apart(Join(c, d), Join(g, h))
      /\ (Join(c, d) = Join(g, h) <=> c = g /\ d = h)
  BY <1>3, <1>4, <1>5, <1>6, JoinedType, JoinApart, JoinTold
<1> DEFINE p == Join(c, d)
           q == Join(g, h)
<1>8. p \in Octets /\ q \in Octets /\ Apart(p, q) /\ (p = q <=> c = g /\ d = h)
  BY <1>7
<1> HIDE DEF p, q
<1>9. Join(b, p) \in Octets /\ Join(f, q) \in Octets /\ Apart(Join(b, p), Join(f, q))
      /\ (Join(b, p) = Join(f, q) <=> b = f /\ p = q)
  BY <1>2, <1>5, <1>6, <1>8, JoinedType, JoinApart, JoinTold
<1> DEFINE r == Join(b, p)
           s == Join(f, q)
<1>10. r \in Octets /\ s \in Octets /\ Apart(r, s) /\ (r = s <=> b = f /\ p = q)
  BY <1>9
<1> HIDE DEF r, s
<1>11. Apart(Join(a, r), Join(e, s)) /\ (Join(a, r) = Join(e, s) <=> a = e /\ r = s)
  BY <1>1, <1>5, <1>6, <1>10, JoinApart, JoinTold
<1>12. PushItem(i) = Join(a, r) /\ PushItem(j) = Join(e, s)
  BY <1>5, <1>6 DEF r, s, p, q
<1>13. PushItem(i) = PushItem(j)
           <=> /\ i.id = j.id /\ i.context = j.context
               /\ Sorted(i.deps) = Sorted(j.deps) /\ i.command = j.command
  BY <1>1, <1>2, <1>3, <1>4, <1>8, <1>10, <1>11, <1>12
<1>14. View(i) = View(j)
           <=> /\ i.id = j.id /\ i.context = j.context
               /\ Sorted(i.deps) = Sorted(j.deps) /\ i.command = j.command
  BY DEF View
<1> QED BY <1>11, <1>12, <1>13, <1>14

\* What is in order, each text once, is so in one way only.
Ascends(s) == \A i, j \in 1..Len(s) : i < j => Precedes(s[i].id, s[j].id)

LEMMA AgreeAt ==
  ASSUME NEW V, \A x \in V : x.id \in Octets, NEW a \in Seq(V), NEW b \in Seq(V),
         Ascends(a), Ascends(b), ToSet(a) \subseteq ToSet(b),
         NEW i \in 1..Len(a), i <= Len(b), a[i] # b[i], \A k \in 1..i - 1 : a[k] = b[k]
  PROVE  Precedes(b[i].id, a[i].id)
<1>1. /\ Len(a) \in Nat /\ Len(b) \in Nat
      /\ DOMAIN a = 1..Len(a) /\ DOMAIN b = 1..Len(b)
      /\ \A k \in 1..Len(a) : a[k] \in V
  BY LenProperties, ElementOfSeq
<1>2. PICK j \in 1..Len(b) : a[i] = b[j]
  BY <1>1 DEF ToSet
<1>3. CASE j < i
  <2>1. a[j] = b[j] /\ j \in 1..Len(a)
    BY <1>1, <1>3
  <2>2. Precedes(a[j].id, a[i].id)
    BY <1>3, <2>1 DEF Ascends
  <2> QED BY <1>1, <1>2, <2>1, <2>2, PrecedesNotItself
<1>4. CASE i < j
  <2>1. i \in 1..Len(b)
    BY <1>1
  <2> QED BY <1>2, <1>4, <2>1 DEF Ascends
<1>5. j # i
  BY <1>2
<1> QED BY <1>1, <1>3, <1>4, <1>5

LEMMA NoLonger ==
  ASSUME NEW V, \A x \in V : x.id \in Octets, NEW a \in Seq(V), NEW b \in Seq(V),
         Ascends(b), ToSet(b) \subseteq ToSet(a),
         \A k \in 1..Len(a) : k <= Len(b) => a[k] = b[k]
  PROVE  Len(b) <= Len(a)
<1>1. /\ Len(a) \in Nat /\ Len(b) \in Nat
      /\ DOMAIN a = 1..Len(a) /\ DOMAIN b = 1..Len(b)
      /\ \A k \in 1..Len(b) : b[k] \in V
  BY LenProperties, ElementOfSeq
<1> SUFFICES ASSUME Len(a) < Len(b) PROVE FALSE
  BY <1>1
<1> DEFINE i == Len(a) + 1
<1>2. i \in 1..Len(b)
  BY <1>1
<1>3. PICK j \in 1..Len(a) : b[i] = a[j]
  BY <1>1, <1>2 DEF ToSet
<1>4. j \in 1..Len(b) /\ j < i /\ a[j] = b[j]
  BY <1>1
<1>5. Precedes(b[j].id, b[i].id)
  BY <1>2, <1>4 DEF Ascends
<1>6. b[j] = b[i] /\ b[i].id \in Octets
  BY <1>1, <1>2, <1>3, <1>4
<1> QED BY <1>5, <1>6, PrecedesNotItself

LEMMA OneOrder ==
  ASSUME NEW V, \A x \in V : x.id \in Octets, NEW a \in Seq(V), NEW b \in Seq(V),
         Ascends(a), Ascends(b), ToSet(a) = ToSet(b)
  PROVE  a = b
<1>1. /\ Len(a) \in Nat /\ Len(b) \in Nat
      /\ \A k \in 1..Len(a) : a[k] \in V
      /\ \A k \in 1..Len(b) : b[k] \in V
  BY LenProperties, ElementOfSeq
<1> DEFINE D == {i \in 1..Len(a) : i <= Len(b) /\ a[i] # b[i]}
<1>2. D = {}
  <2> SUFFICES ASSUME D # {} PROVE FALSE
    OBVIOUS
  <2>1. D \in SUBSET Nat
    OBVIOUS
  <2>2. PICK i \in D : \A k \in D : i <= k
    <3> HIDE DEF D
    <3> QED BY <2>1, LeastNumber
  <2>3. i \in 1..Len(a) /\ i \in 1..Len(b) /\ i <= Len(a) /\ i <= Len(b) /\ a[i] # b[i]
    BY <1>1
  <2>4. \A k \in 1..i - 1 : a[k] = b[k]
    <3>1. ASSUME NEW k \in 1..i - 1 PROVE a[k] = b[k]
      <4>1. k \in 1..Len(a) /\ k <= Len(b) /\ ~(i <= k)
        BY <1>1, <2>3
      <4>2. k \notin D
        BY <2>2, <4>1
      <4> QED BY <4>1, <4>2
    <3> QED BY <3>1
  <2> HIDE DEF D
  <2>5. Precedes(b[i].id, a[i].id)
    BY <2>3, <2>4, AgreeAt
  <2>6. Precedes(a[i].id, b[i].id)
    <3>1. b[i] # a[i] /\ \A k \in 1..i - 1 : b[k] = a[k]
      BY <2>3, <2>4
    <3> QED BY <2>3, <3>1, AgreeAt
  <2>7. a[i].id \in Octets /\ b[i].id \in Octets
    BY <1>1, <2>3
  <2> QED BY <2>5, <2>6, <2>7, PrecedesOneWay
<1>3. /\ \A k \in 1..Len(a) : k <= Len(b) => a[k] = b[k]
      /\ \A k \in 1..Len(b) : k <= Len(a) => b[k] = a[k]
  <2>1. \A k \in 1..Len(a) : k <= Len(b) => a[k] = b[k]
    BY <1>2
  <2>2. \A k \in 1..Len(b) : k <= Len(a) => k \in 1..Len(a) /\ k <= Len(b)
    BY <1>1
  <2> QED BY <2>1, <2>2
<1> HIDE DEF D
<1>4. Len(b) <= Len(a)
  BY <1>3, NoLonger
<1>5. Len(a) <= Len(b)
  BY <1>3, NoLonger
<1>6. Len(a) = Len(b)
  BY <1>1, <1>4, <1>5
<1> QED BY <1>1, <1>3, <1>6, SeqEqual

InOrder(items) == SortedBy(items, [item \in ToSet(items) |-> item.id])
Pushed(items) == [i \in 1..Len(InOrder(items)) |-> PushItem(InOrder(items)[i])]
Views(items) == [i \in 1..Len(InOrder(items)) |-> View(InOrder(items)[i])]
ViewSet == {View(i) : i \in Items}

LEMMA InOrderIs ==
  ASSUME NEW head, NEW items, IsBatch(head, items)
  PROVE  /\ Len(items) \in Sizes /\ items \in Seq(Items)
         /\ InOrder(items) \in Seq(Items) /\ Len(InOrder(items)) = Len(items)
         /\ ToSet(InOrder(items)) = ToSet(items)
         /\ Ascends(InOrder(items))
<1> DEFINE s == InOrder(items)
           n == Len(items)
           key == [item \in ToSet(items) |-> item.id]
<1>1. /\ n \in Sizes /\ items \in Seq(Items)
      /\ \A i, j \in DOMAIN items : items[i].id = items[j].id => i = j
  BY DEF IsBatch, Items
<1>2. n \in Nat /\ DOMAIN items = 1..n /\ \A i \in 1..n : items[i] \in Items
  BY <1>1, LenProperties, ElementOfSeq
<1>3. \A item \in Items : item.id \in Octets
  BY DEF Items, Bytes
<1>4. \A i \in 1..n : items[i] \in ToSet(items)
  BY <1>2 DEF ToSet
<1>5. \A item \in ToSet(items) : key[item] = item.id
  OBVIOUS
<1> HIDE DEF key, n
<1>6. \A i \in 1..n : key[items[i]] \in Octets
  BY <1>2, <1>3, <1>4, <1>5
<1>7. /\ s \in Reorderings(items)
      /\ \A i, j \in DOMAIN s : i < j => ~Precedes(key[s[j]], key[s[i]])
  BY <1>2, <1>6, SortedByIs DEF InOrder, key
<1> HIDE DEF s
<1>8. s \in Seq(Items) /\ Len(s) = Len(items) /\ ToSet(s) = ToSet(items)
  BY <1>1, <1>7, ReorderedIs
<1>9. Len(s) = n
  BY <1>8 DEF n
<1>10. PICK p \in [1..n -> 1..n] : IsInjective(p) /\ s = [i \in 1..n |-> items[p[i]]]
  BY <1>2, <1>7 DEF Reorderings
<1>11. ASSUME NEW i \in 1..n, NEW j \in 1..n, i < j
       PROVE  Precedes(s[i].id, s[j].id)
  <2>1. p[i] \in 1..n /\ p[j] \in 1..n /\ s[i] = items[p[i]] /\ s[j] = items[p[j]] /\ DOMAIN s = 1..n
    BY <1>10
  <2>2. p[i] # p[j]
    <3>1. i # j
      BY <1>11
    <3> QED BY <1>10, <3>1 DEF IsInjective
  <2>3. s[i].id # s[j].id
    BY <1>1, <1>2, <2>1, <2>2
  <2>4. s[i].id \in Octets /\ s[j].id \in Octets
    BY <1>2, <1>3, <2>1
  <2>5. ~Precedes(s[j].id, s[i].id)
    <3>1. key[s[i]] = s[i].id /\ key[s[j]] = s[j].id
      BY <1>4, <1>5, <2>1
    <3> QED BY <1>7, <1>11, <2>1, <3>1
  <2> QED BY <2>3, <2>4, <2>5, PrecedesTotal
<1>12. Ascends(s)
  BY <1>9, <1>11 DEF Ascends
<1> QED BY <1>1, <1>8, <1>12 DEF s, n

LEMMA BatchIs ==
  ASSUME NEW head, NEW items, IsBatch(head, items)
  PROVE  /\ head \in Seq(Bytes) /\ Len(head) = 4 /\ PushAll(head) \in Octets
         /\ Pushed(items) \in Seq(Octets) /\ Len(Pushed(items)) = Len(items)
         /\ Counted(Pushed(items)) \in Octets
         /\ BatchDigest(head, items) = Framed(DomainBatch, Join(PushAll(head), Counted(Pushed(items))))
         /\ Join(PushAll(head), Counted(Pushed(items))) \in Octets
<1> DEFINE s == InOrder(items)
           n == Len(items)
           e(i) == PushItem(s[i])
<1>1. /\ n \in Sizes /\ s \in Seq(Items) /\ Len(s) = n
  BY InOrderIs
<1>2. n \in Nat /\ DOMAIN s = 1..n /\ \A i \in 1..n : s[i] \in Items
  BY <1>1, LenProperties, ElementOfSeq
<1>3. head \in Seq(Bytes) /\ Len(head) = 4 /\ PushAll(head) \in Octets
  BY TextsOf DEF IsBatch
<1>4. Pushed(items) = [i \in 1..n |-> e(i)]
  BY <1>1 DEF Pushed
<1>5. \A i \in 1..n : e(i) \in Octets
  BY <1>2, ItemIs
<1>6. Pushed(items) \in Seq(Octets) /\ Len(Pushed(items)) = n
  <2> HIDE DEF e, n
  <2>1. Pushed(items) \in [1..n -> Octets]
    BY <1>4, <1>5
  <2> QED BY <1>2, <2>1
<1>7. Counted(Pushed(items)) \in Octets
  BY <1>6, CountedType
<1>8. BatchDigest(head, items)
        = Framed(DomainBatch, Join(Join(PushAll(head), PushLen(n)), FlattenSeq(Pushed(items))))
  <2>1. [i \in DOMAIN s |-> PushItem(s[i])] = Pushed(items)
    BY <1>2, <1>4
  <2> QED BY <2>1 DEF BatchDigest, InOrder, Join
<1>9. PushLen(n) \in Octets /\ FlattenSeq(Pushed(items)) \in Octets
  BY <1>2, <1>6, PushLenType, FlattenType
<1>10. Join(Join(PushAll(head), PushLen(n)), FlattenSeq(Pushed(items)))
         = Join(PushAll(head), Join(PushLen(n), FlattenSeq(Pushed(items))))
  BY <1>3, <1>9, JoinedTwice
<1>11. Counted(Pushed(items)) = Join(PushLen(n), FlattenSeq(Pushed(items)))
  BY <1>6 DEF Counted
<1> QED BY <1>3, <1>6, <1>7, <1>8, <1>10, <1>11, JoinedType

LEMMA ViewsAre ==
  ASSUME NEW head, NEW items, IsBatch(head, items)
  PROVE  /\ Views(items) \in Seq(ViewSet) /\ Len(Views(items)) = Len(items)
         /\ Ascends(Views(items))
         /\ ToSet(Views(items)) = {View(i) : i \in ToSet(items)}
<1> DEFINE s == InOrder(items)
           n == Len(items)
           e(i) == View(s[i])
           t == Views(items)
<1>1. /\ s \in Seq(Items) /\ Len(s) = n /\ ToSet(s) = ToSet(items) /\ Ascends(s)
  BY InOrderIs
<1>2. n \in Nat /\ DOMAIN s = 1..n /\ \A i \in 1..n : s[i] \in Items
  BY <1>1, LenProperties, ElementOfSeq
<1>3. t = [i \in 1..n |-> e(i)]
  BY <1>1 DEF Views
<1>4. \A i \in 1..n : e(i) \in ViewSet /\ e(i).id = s[i].id
  BY <1>2 DEF ViewSet, View
<1>5. t \in Seq(ViewSet) /\ Len(t) = n /\ DOMAIN t = 1..n /\ \A i \in 1..n : t[i] = e(i)
  <2> HIDE DEF e, n, t
  <2>1. t \in [1..n -> ViewSet]
    BY <1>3, <1>4
  <2> QED BY <1>2, <1>3, <2>1
<1> HIDE DEF t
<1>6. Ascends(t)
  BY <1>1, <1>4, <1>5 DEF Ascends
<1>7. ToSet(t) = {View(i) : i \in ToSet(s)}
  <2>1. ToSet(t) = {t[i] : i \in 1..n} /\ ToSet(s) = {s[i] : i \in 1..n}
    BY <1>2, <1>5 DEF ToSet
  <2> QED BY <1>5, <2>1
<1> QED BY <1>1, <1>5, <1>6, <1>7 DEF t

\* The items of two batches come to the same when they look the same.
LEMMA PushedTold ==
  ASSUME NEW head, NEW items, IsBatch(head, items),
         NEW other, NEW others, IsBatch(other, others)
  PROVE  /\ Len(items) = Len(others) =>
                \A i \in 1..Len(items) : Apart(Pushed(items)[i], Pushed(others)[i])
         /\ Pushed(items) = Pushed(others) <=> Views(items) = Views(others)
<1> DEFINE s == InOrder(items)
           t == InOrder(others)
           m == Len(items)
           n == Len(others)
<1>1. /\ s \in Seq(Items) /\ Len(s) = m /\ t \in Seq(Items) /\ Len(t) = n
  BY InOrderIs
<1>2. /\ m \in Nat /\ n \in Nat
      /\ \A i \in 1..m : s[i] \in Items
      /\ \A i \in 1..n : t[i] \in Items
  BY <1>1, LenProperties, ElementOfSeq
<1>3. /\ \A i \in 1..m : Pushed(items)[i] = PushItem(s[i]) /\ Views(items)[i] = View(s[i])
      /\ \A i \in 1..n : Pushed(others)[i] = PushItem(t[i]) /\ Views(others)[i] = View(t[i])
  BY <1>1 DEF Pushed, Views
<1>4. /\ Pushed(items) \in Seq(Octets) /\ Len(Pushed(items)) = m
      /\ Pushed(others) \in Seq(Octets) /\ Len(Pushed(others)) = n
  BY BatchIs
<1>5. /\ Views(items) \in Seq(ViewSet) /\ Len(Views(items)) = m
      /\ Views(others) \in Seq(ViewSet) /\ Len(Views(others)) = n
  BY ViewsAre
<1>6. ASSUME m = n, NEW i \in 1..m
      PROVE  /\ Apart(Pushed(items)[i], Pushed(others)[i])
             /\ Pushed(items)[i] = Pushed(others)[i] <=> Views(items)[i] = Views(others)[i]
  <2>1. i \in 1..n
    BY <1>6
  <2>2. s[i] \in Items /\ t[i] \in Items
    BY <1>2, <2>1
  <2> HIDE DEF s, t, m, n
  <2> QED BY <1>3, <2>1, <2>2, ItemsTold
<1> HIDE DEF s, t, m, n
<1>7. Pushed(items) = Pushed(others)
          <=> (m = n /\ \A i \in 1..m : Pushed(items)[i] = Pushed(others)[i])
  BY <1>4, SeqEqual
<1>8. Views(items) = Views(others)
          <=> (m = n /\ \A i \in 1..m : Views(items)[i] = Views(others)[i])
  BY <1>5, SeqEqual
<1> QED BY <1>6, <1>7, <1>8 DEF m, n

LEMMA BatchesAreToldApart ==
  ASSUME NEW head, NEW items, IsBatch(head, items),
         NEW other, NEW others, IsBatch(other, others)
  PROVE  BatchesToldApart(head, items, other, others)
<1> DEFINE a == PushAll(head)
           b == PushAll(other)
           s == Pushed(items)
           t == Pushed(others)
           c == Counted(s)
           d == Counted(t)
<1>1. /\ a \in Octets /\ b \in Octets /\ c \in Octets /\ d \in Octets
      /\ Join(a, c) \in Octets /\ Join(b, d) \in Octets
      /\ BatchDigest(head, items) = Framed(DomainBatch, Join(a, c))
      /\ BatchDigest(other, others) = Framed(DomainBatch, Join(b, d))
  BY BatchIs
<1>2. Apart(a, b) /\ (a = b <=> head = other)
  BY BatchIs, AllApart
<1>3. c = d <=> s = t
  <2>1. /\ s \in Seq(Octets) /\ t \in Seq(Octets)
        /\ Len(s) = Len(items) /\ Len(t) = Len(others)
        /\ Len(items) \in Sizes /\ Len(others) \in Sizes
    BY BatchIs, InOrderIs
  <2>2. Len(s) = Len(t) => \A i \in 1..Len(s) : Apart(s[i], t[i])
    BY <2>1, PushedTold
  <2> HIDE DEF s, t
  <2> QED BY <2>1, <2>2, CountedApart
<1>4. s = t <=> Views(items) = Views(others)
  BY PushedTold
<1>5. Views(items) = Views(others)
          <=> {View(i) : i \in ToSet(items)} = {View(i) : i \in ToSet(others)}
  <2> DEFINE u == Views(items)
             w == Views(others)
  <2>1. /\ u \in Seq(ViewSet) /\ Ascends(u) /\ ToSet(u) = {View(i) : i \in ToSet(items)}
        /\ w \in Seq(ViewSet) /\ Ascends(w) /\ ToSet(w) = {View(i) : i \in ToSet(others)}
    BY ViewsAre
  <2>2. \A x \in ViewSet : x.id \in Octets
    BY DEF ViewSet, View, Items, Bytes
  <2> HIDE DEF u, w
  <2>3. ToSet(u) = ToSet(w) => u = w
    BY <2>1, <2>2, OneOrder
  <2> QED BY <2>1, <2>3 DEF u, w
<1> HIDE DEF a, b, c, d, s, t
<1>6. Framed(DomainBatch, Join(a, c)) = Framed(DomainBatch, Join(b, d)) <=> Join(a, c) = Join(b, d)
  BY <1>1, FramedTold, DomainsOfValues
<1>7. Join(a, c) = Join(b, d) <=> a = b /\ c = d
  BY <1>1, <1>2, JoinTold
<1>8. BatchDigest(head, items) = BatchDigest(other, others)
          <=> /\ head = other
              /\ {View(i) : i \in ToSet(items)} = {View(i) : i \in ToSet(others)}
  BY <1>1, <1>2, <1>3, <1>4, <1>5, <1>6, <1>7
<1> QED BY <1>8 DEF BatchesToldApart, View

LEMMA DomainsOfChunks ==
  {DomainTool, DomainQuery} \subseteq Domains \ {DomainIpfs}
<1>1. DomainTool \in Domains /\ DomainQuery \in Domains
  BY DEF DomainTool, DomainQuery, Domains
<1>2. DomainTool # DomainIpfs /\ DomainQuery # DomainIpfs
  BY DEF DomainTool, DomainQuery, DomainIpfs
<1> QED BY <1>1, <1>2

-----------------------------------------------------------------------------
(* Curp: what is computed has the shape that is asked for, its digits give *)
(* back the date, and its code is in the catalogue.                        *)

\* The function that the definition of Without recurs by.
Kept(s, x, dropped) == IF x \in dropped THEN s ELSE Append(s, x)
Keeps(f, n, seq, dropped) ==
    f = [i \in 0..n |-> IF i = 0 THEN <<>> ELSE Kept(f[i - 1], seq[i], dropped)]

LEMMA WithoutIs ==
  ASSUME NEW seq, NEW dropped
  PROVE  Without(seq, dropped) = (CHOOSE f : Keeps(f, Len(seq), seq, dropped))[Len(seq)]
  BY DEF Without, Keeps, Kept

LEMMA KeepsExist ==
  ASSUME NEW n \in Nat, NEW seq, NEW dropped
  PROVE  \E f : Keeps(f, n, seq, dropped)
<1> USE DEF Keeps
<1> DEFINE After(s, i) == Kept(s, seq[i], dropped)
           Upto(f, m) == f = [i \in 0..m |-> IF i = 0 THEN <<>> ELSE After(f[i - 1], i)]
           D == {m \in 0..n : ~ \E f : Upto(f, m)}
<1>1. CASE D = {}
  <2>1. n \in 0..n
    OBVIOUS
  <2> QED BY <1>1, <2>1
<1>2. CASE D # {}
  <2>1. D \in SUBSET Nat
    OBVIOUS
  <2>2. PICK m \in D : \A k \in D : m <= k
    <3> HIDE DEF D
    <3> QED BY <1>2, <2>1, LeastNumber
  <2>3. m \in 0..n /\ m \in Nat
    OBVIOUS
  <2> HIDE DEF After
  <2>4. CASE m = 0
    <3>1. Upto([i \in 0..0 |-> <<>>], 0)
      OBVIOUS
    <3> QED BY <2>4, <3>1
  <2>5. CASE m # 0
    <3>1. m - 1 \in 0..n /\ ~(m <= m - 1)
      BY <2>3, <2>5
    <3>2. PICK g : Upto(g, m - 1)
      <4>1. m - 1 \notin D
        BY <2>2, <3>1
      <4> QED BY <3>1, <4>1
    <3> DEFINE h == [i \in 0..m |-> IF i = m THEN After(g[m - 1], m) ELSE g[i]]
    <3>3. ASSUME NEW i \in 0..m
          PROVE  h[i] = IF i = 0 THEN <<>> ELSE After(h[i - 1], i)
      <4>1. CASE i = 0
        BY <2>3, <2>5, <3>2, <4>1
      <4>2. CASE i = m
        <5>1. h[i - 1] = g[m - 1] /\ h[i] = After(g[m - 1], m)
          BY <2>3, <2>5, <4>2
        <5> QED BY <2>5, <4>2, <5>1
      <4>3. CASE i # 0 /\ i # m
        <5>1. i \in 0..(m - 1) /\ i - 1 \in 0..m /\ i - 1 # m
          BY <2>3, <4>3
        <5>2. h[i] = g[i] /\ h[i - 1] = g[i - 1]
          BY <4>3, <5>1
        <5>3. g[i] = IF i = 0 THEN <<>> ELSE After(g[i - 1], i)
          BY <3>2, <5>1
        <5> QED BY <5>2, <5>3
      <4> QED BY <4>1, <4>2, <4>3
    <3>4. h = [i \in 0..m |-> h[i]]
      OBVIOUS
    <3> HIDE DEF h
    <3>5. Upto(h, m)
      BY <3>3, <3>4
    <3> QED BY <3>5
  <2> QED BY <2>4, <2>5
<1> QED BY <1>1, <1>2 DEF Keeps

LEMMA WithoutType ==
  ASSUME NEW S, NEW seq \in Seq(S), NEW dropped
  PROVE  Without(seq, dropped) \in Seq(S \ dropped)
<1> DEFINE f == CHOOSE g : Keeps(g, Len(seq), seq, dropped)
           Texts == Seq(S \ dropped)
           D == {n \in 0..Len(seq) : f[n] \notin Texts}
<1>1. Len(seq) \in Nat /\ \A n \in 1..Len(seq) : seq[n] \in S
  OBVIOUS
<1>2. Keeps(f, Len(seq), seq, dropped)
  <2>1. \E g : Keeps(g, Len(seq), seq, dropped)
    BY <1>1, KeepsExist
  <2> QED BY <2>1
<1> HIDE DEF f
<1>3. f[0] = <<>>
  <2>1. 0 \in 0..Len(seq)
    BY <1>1
  <2> QED BY <1>2, <2>1 DEF Keeps
<1>4. \A n \in 1..Len(seq) :
         f[n] = IF seq[n] \in dropped THEN f[n - 1] ELSE Append(f[n - 1], seq[n])
  <2>1. \A n \in 0..Len(seq) :
           f[n] = IF n = 0 THEN <<>>
                  ELSE IF seq[n] \in dropped THEN f[n - 1] ELSE Append(f[n - 1], seq[n])
    BY <1>2, Zenon DEF Keeps, Kept
  <2>2. \A n \in 1..Len(seq) : n \in 0..Len(seq) /\ n # 0
    BY <1>1
  <2> QED BY <2>1, <2>2, Zenon
<1>5. CASE D = {}
  <2>1. f[Len(seq)] \in Texts
    BY <1>1, <1>5
  <2> QED BY <2>1, WithoutIs DEF f
<1>6. CASE D # {}
  <2>1. D \in SUBSET Nat
    OBVIOUS
  <2>2. PICK n \in D : \A k \in D : n <= k
    <3> HIDE DEF D
    <3> QED BY <1>6, <2>1, LeastNumber
  <2>3. n \in 0..Len(seq) /\ f[n] \notin Texts
    OBVIOUS
  <2>4. n # 0
    <3>1. <<>> \in Texts
      OBVIOUS
    <3> HIDE DEF Texts
    <3> QED BY <1>3, <2>3, <3>1
  <2>5. n \in 1..Len(seq) /\ n - 1 \in 0..Len(seq) /\ ~(n <= n - 1)
    BY <1>1, <2>3, <2>4
  <2>6. f[n - 1] \in Texts
    BY <2>2, <2>5
  <2>7. seq[n] \notin dropped => Append(f[n - 1], seq[n]) \in Texts
    BY <1>1, <2>5, <2>6
  <2> HIDE DEF Texts
  <2> QED BY <1>4, <2>3, <2>5, <2>6, <2>7
<1> QED BY <1>5, <1>6

LEMMA FirstType ==
  ASSUME NEW S, NEW seq \in Seq(S), NEW skipped, NEW default
  PROVE  First(seq, skipped, default) \in (S \ skipped) \union {default}
<1> DEFINE rest == Without(seq, skipped)
<1>1. rest \in Seq(S \ skipped)
  BY WithoutType
<1> HIDE DEF rest
<1>2. rest # <<>> => Head(rest) \in S \ skipped
  BY <1>1
<1> QED BY <1>2 DEF First, rest

-----------------------------------------------------------------------------
\* No character is twice in the alphabet.
LEMMA Spelt ==
  ASSUME NEW k \in 1..37, NEW i \in 1..37, Alphabet[k] = Alphabet[i]
  PROVE  i = k
  BY DEF Alphabet

LEMMA AlphabetSize == DOMAIN Alphabet = 1..37
  BY DEF Alphabet

LEMMA ValueTold ==
  ASSUME NEW k \in 1..37
  PROVE  ChecksumValue(Alphabet[k]) = k - 1
  BY Spelt, AlphabetSize DEF ChecksumValue

LEMMA Kinds ==
  /\ {"X", "H", "M", "U"} \subseteq Letters
  /\ "0" \in Digits /\ "A" \in CenturyLetters
  /\ Vowels \subseteq Letters /\ CenturyLetters \subseteq Letters
<1>1. /\ Alphabet[1] = "0" /\ Alphabet[11] = "A" /\ Alphabet[15] = "E" /\ Alphabet[18] = "H"
      /\ Alphabet[19] = "I" /\ Alphabet[23] = "M" /\ Alphabet[25] = "&" /\ Alphabet[26] = "O"
      /\ Alphabet[32] = "U" /\ Alphabet[35] = "X"
  BY DEF Alphabet
<1>3. \A i \in 11..37 : i # 25 => Alphabet[i] \in Letters
  <2>1. ASSUME NEW i \in 11..37, i # 25 PROVE Alphabet[i] # "&"
    <3>1. i \in 1..37 /\ 25 \in 1..37
      OBVIOUS
    <3> QED BY <1>1, <2>1, <3>1, Spelt
  <2> QED BY <2>1 DEF Letters
<1>4. {"A", "E", "I", "O", "U", "X", "H", "M"} \subseteq Letters
  <2>1. /\ Alphabet[11] \in Letters /\ Alphabet[15] \in Letters /\ Alphabet[18] \in Letters
        /\ Alphabet[19] \in Letters /\ Alphabet[23] \in Letters /\ Alphabet[26] \in Letters
        /\ Alphabet[32] \in Letters /\ Alphabet[35] \in Letters
    BY <1>3
  <2> QED BY <1>1, <2>1
<1>5. "0" \in Digits /\ "A" \in CenturyLetters
  BY <1>1 DEF Digits, CenturyLetters
<1>6. CenturyLetters \subseteq Letters
  BY <1>3 DEF CenturyLetters
<1> QED BY <1>4, <1>5, <1>6 DEF Vowels

LEMMA NoEmptyLetter == "" \notin Letters
<1>1. ASSUME NEW i \in 1..37
      PROVE  Alphabet[i] # ""
  <2> DEFINE all == {"0", "1", "2", "3", "4", "5", "6", "7", "8", "9", "A", "B", "C", "D",
                     "E", "F", "G", "H", "I", "J", "K", "L", "M", "N", "&", "O", "P", "Q",
                     "R", "S", "T", "U", "V", "W", "X", "Y", "Z"}
  <2>1. Alphabet[i] \in all
    BY DEF Alphabet
  <2>2. "" \notin all
    BY Zenon
  <2> HIDE DEF all
  <2> QED BY <2>1, <2>2
<1>2. \A i \in 11..37 : i \in 1..37
  OBVIOUS
<1> QED BY <1>1, <1>2, Zenon DEF Letters

LEMMA KindsApart == Digits \intersect CenturyLetters = {}
  BY Spelt DEF Digits, CenturyLetters

Symbols == Digits \union Letters

LEMMA SymbolValue ==
  ASSUME NEW c \in Symbols
  PROVE  ChecksumValue(c) \in Int
<1>1. PICK k \in 1..37 : c = Alphabet[k]
  BY DEF Symbols, Digits, Letters
<1> QED BY <1>1, ValueTold

\* Both digits of a number give it back.
LEMMA DigitsTold ==
  ASSUME NEW n \in 0..99
  PROVE  /\ Alphabet[1 + (n \div 10)] \in Digits /\ Alphabet[1 + (n % 10)] \in Digits
         /\ 10 * ChecksumValue(Alphabet[1 + (n \div 10)])
                + ChecksumValue(Alphabet[1 + (n % 10)]) = n
<1> DEFINE a == n \div 10
           b == n % 10
<1>1. a \in 0..9 /\ b \in 0..9 /\ 10 * a + b = n
  OBVIOUS
<1> HIDE DEF a, b
<1>2. 1 + a \in 1..10 /\ 1 + b \in 1..10 /\ 1 + a \in 1..37 /\ 1 + b \in 1..37
  BY <1>1
<1>3. Alphabet[1 + a] \in Digits /\ Alphabet[1 + b] \in Digits
  BY <1>2 DEF Digits
<1>4. ChecksumValue(Alphabet[1 + a]) = a /\ ChecksumValue(Alphabet[1 + b]) = b
  <2>1. ChecksumValue(Alphabet[1 + a]) = (1 + a) - 1 /\ ChecksumValue(Alphabet[1 + b]) = (1 + b) - 1
    BY <1>2, ValueTold
  <2> QED BY <1>1, <2>1
<1>5. 10 * ChecksumValue(Alphabet[1 + a]) + ChecksumValue(Alphabet[1 + b]) = n
  BY <1>1, <1>4
<1> QED BY <1>3, <1>5 DEF a, b

LEMMA CheckDigitType ==
  ASSUME NEW text, \A i \in 1..17 : text[i] \in Symbols
  PROVE  CheckDigit(text) \in Digits
<1> DEFINE f == [i \in 1..17 |-> ChecksumValue(text[i]) * (19 - i)]
           sum == SumFunction(f)
<1>1. \A i \in 1..17 : f[i] \in Int
  BY SymbolValue
<1>2. sum = SumFunctionOnSet(f, 1..17)
  BY DEF SumFunction
<1>3. sum \in Int
  <2>1. 1 \in Int /\ 17 \in Int
    OBVIOUS
  <2>2. IsFiniteSet(1..17)
    BY <2>1, FS_Interval, Zenon
  <2> HIDE DEF f
  <2> QED BY <1>1, <1>2, <2>2, SumType
<1>4. CheckDigit(text) = Alphabet[1 + ((10 - (sum % 10)) % 10)]
  BY DEF CheckDigit
<1> HIDE DEF sum
<1>5. 1 + ((10 - (sum % 10)) % 10) \in 1..10
  BY <1>3
<1> QED BY <1>4, <1>5 DEF Digits

-----------------------------------------------------------------------------
LEMMA NormalType ==
  ASSUME NEW ch
  PROVE  Normal(ch) \in Letters \union {""}
  BY Kinds DEF Normal

LEMMA NormalWordsType ==
  ASSUME NEW Char, NEW name \in Seq(Seq(Char))
  PROVE  NormalWords(name) \in Seq(Seq(Letters) \ {<<>>})
<1> DEFINE typed(i) == [j \in DOMAIN name[i] |-> Normal(name[i][j])]
           word(i) == Without(typed(i), {""})
           words == [i \in DOMAIN name |-> word(i)]
<1>1. ASSUME NEW i \in DOMAIN name
      PROVE  word(i) \in Seq(Letters)
  <2>1. name[i] \in Seq(Char)
    OBVIOUS
  <2>2. typed(i) \in Seq(Letters \union {""})
    <3> DEFINE S == Letters \union {""}
    <3>1. DOMAIN name[i] = 1..Len(name[i]) /\ Len(name[i]) \in Nat
      BY <2>1
    <3>2. \A c : Normal(c) \in S
      BY NormalType
    <3> HIDE DEF S
    <3>3. typed(i) \in [1..Len(name[i]) -> S]
      BY <3>1, <3>2
    <3> DEFINE n == Len(name[i])
               t == typed(i)
    <3> HIDE DEF n, t
    <3>4. n \in Nat /\ t \in [1..n -> S]
      BY <3>1, <3>3 DEF n, t
    <3>5. t \in Seq(S)
      BY <3>4
    <3> QED BY <3>5 DEF S, t
  <2>3. word(i) \in Seq((Letters \union {""}) \ {""})
    <3> HIDE DEF typed
    <3> QED BY <2>2, WithoutType
  <2>4. (Letters \union {""}) \ {""} = Letters
    BY NoEmptyLetter
  <2> HIDE DEF word
  <2> QED BY <2>3, <2>4
<1>2. words \in Seq(Seq(Letters))
  <2> HIDE DEF word
  <2> QED BY <1>1
<1>3. NormalWords(name) = Without(words, {<<>>})
  BY DEF NormalWords
<1> HIDE DEF words
<1> QED BY <1>2, <1>3, WithoutType

LEMMA SignificantWordType ==
  ASSUME NEW words \in Seq(Seq(Letters) \ {<<>>})
  PROVE  SignificantWord(words) \in Seq(Letters)
<1> DEFINE Words == Seq(Letters) \ {<<>>}
           default == IF words = <<>> THEN <<>> ELSE words[1]
<1>1. default \in Seq(Letters)
  OBVIOUS
<1> HIDE DEF default
<1>2. SignificantWord(words) = First(words, Connectors, default)
  BY DEF SignificantWord, default
<1>3. First(words, Connectors, default) \in (Words \ Connectors) \union {default}
  <2> HIDE DEF Words
  <2>1. words \in Seq(Words)
    BY DEF Words
  <2> QED BY <2>1, FirstType
<1> QED BY <1>1, <1>2, <1>3

LEMMA LettersOfWord ==
  ASSUME NEW word \in Seq(Letters), word # <<>>
  PROVE  /\ word[1] \in Letters
         /\ InternalVowel(word) \in Letters /\ InternalConsonant(word) \in Letters
<1>1. word[1] \in Letters
  OBVIOUS
<1>2. Tail(word) \in Seq(Letters)
  OBVIOUS
<1>3. InternalVowel(word) \in (Letters \ (Letters \ Vowels)) \union {"X"}
  BY <1>2, FirstType DEF InternalVowel
<1>4. InternalConsonant(word) \in (Letters \ Vowels) \union {"X"}
  BY <1>2, FirstType DEF InternalConsonant
<1> QED BY <1>1, <1>3, <1>4, Kinds

LEMMA DateBounds ==
  ASSUME NEW year, NEW month, NEW day, IsRealDate(year, month, day)
  PROVE  month \in 1..12 /\ day \in 1..31
<1>1. month \in 1..12
  BY DEF IsRealDate
<1>2. PICK feb \in {28, 29} :
         day \in 1..<<31, feb, 31, 30, 31, 30, 31, 31, 30, 31, 30, 31>>[month]
  BY DEF IsRealDate
<1>3. <<31, feb, 31, 30, 31, 30, 31, 31, 30, 31, 30, 31>>[month] \in 28..31
  BY <1>1
<1> QED BY <1>1, <1>2, <1>3

\* The years that position 17 tells apart.
Years == 1900..2099

LEMMA YearTold ==
  ASSUME NEW year \in Years
  PROVE  /\ year % 100 \in 0..99
         /\ (IF year < 2000 THEN 1900 ELSE 2000) + (year % 100) = year
  BY DEF Years

\* What ComputeCurp puts together.
Together(start, year, month, day, sexo, code, end) ==
    start \o TwoDigits(year % 100) \o TwoDigits(month) \o TwoDigits(day) \o <<sexo>> \o code \o end
Checked(text) == Append(text, CheckDigit(text))

\* The letters of a CURP: of its start, of the entity and of its end.
Starts == Letters \X Letters \X Letters \X Letters
Codes == Letters \X Letters
Consonants == Letters \X Letters \X Letters

LEMMA BuiltIsValid ==
  ASSUME NEW start \in Starts,
         NEW year \in Years, NEW month, NEW day, IsRealDate(year, month, day),
         NEW sexo \in {"H", "M"},
         NEW code \in Codes, EntidadCode(code) # {},
         NEW rest \in Consonants,
         NEW z, ValidDifferentiator(z, year)
  PROVE  ValidFor(Checked(Together(start, year, month, day, sexo, code,
                                   <<rest[1], rest[2], rest[3], z>>)), year, month, day)
<1> DEFINE a == start[1]
           b == start[2]
           c == start[3]
           d == start[4]
           g == code[1]
           h == code[2]
           u == rest[1]
           v == rest[2]
           w == rest[3]
<1>0. /\ start = <<a, b, c, d>> /\ a \in Letters /\ b \in Letters /\ c \in Letters /\ d \in Letters
      /\ code = <<g, h>> /\ g \in Letters /\ h \in Letters
      /\ u \in Letters /\ v \in Letters /\ w \in Letters
  BY DEF Starts, Codes, Consonants
<1>a. EntidadCode(<<g, h>>) # {}
  BY <1>0, Zenon
<1> HIDE DEF a, b, c, d, g, h, u, v, w
<1> DEFINE y == year % 100
           y1 == Alphabet[1 + (y \div 10)]
           y2 == Alphabet[1 + (y % 10)]
           m1 == Alphabet[1 + (month \div 10)]
           m2 == Alphabet[1 + (month % 10)]
           d1 == Alphabet[1 + (day \div 10)]
           d2 == Alphabet[1 + (day % 10)]
           text == <<a, b, c, d>> \o TwoDigits(y) \o TwoDigits(month)
                         \o TwoDigits(day) \o <<sexo>> \o <<g, h>> \o <<u, v, w, z>>
           t == <<a, b, c, d, y1, y2, m1, m2, d1, d2, sexo, g, h, u, v, w, z>>
           digit == CheckDigit(t)
           curp == Append(t, digit)
<1>1. y \in 0..99 /\ month \in 0..99 /\ day \in 0..99
  BY DateBounds, YearTold
<1>2. /\ y1 \in Digits /\ y2 \in Digits /\ 10 * ChecksumValue(y1) + ChecksumValue(y2) = y
      /\ m1 \in Digits /\ m2 \in Digits /\ 10 * ChecksumValue(m1) + ChecksumValue(m2) = month
      /\ d1 \in Digits /\ d2 \in Digits /\ 10 * ChecksumValue(d1) + ChecksumValue(d2) = day
  <2> HIDE DEF y
  <2> QED BY <1>1, DigitsTold
<1>3. text = t
  <2> DEFINE s == <<a, b, c, d>> \o <<y1, y2>> \o <<m1, m2>> \o <<d1, d2>> \o <<sexo>>
                      \o <<g, h>> \o <<u, v, w, z>>
  <2>2. text = s
    BY Zenon DEF TwoDigits
  <2> HIDE DEF text, y, y1, y2, m1, m2, d1, d2
  <2>3. \A i \in 1..17 : s[i] = t[i]
    OBVIOUS
  <2>4. s = [i \in 1..17 |-> s[i]]
    OBVIOUS
  <2>5. t = [i \in 1..17 |-> t[i]]
    OBVIOUS
  <2> HIDE DEF s, t
  <2> QED BY <2>2, <2>3, <2>4, <2>5
<1> HIDE DEF text, y, y1, y2, m1, m2, d1, d2
<1>4. z \in IF year < 2000 THEN Digits ELSE CenturyLetters
  BY DEF ValidDifferentiator
<1>5. sexo \in Letters /\ z \in Symbols
  <2>1. sexo \in Letters
    BY Kinds
  <2>2. z \in Digits \/ z \in CenturyLetters
    BY <1>4
  <2>3. CenturyLetters \subseteq Letters
    BY Kinds
  <2>4. z \in Symbols
    BY <2>2, <2>3, Zenon DEF Symbols
  <2> QED BY <2>1, <2>4
<1>6. /\ {a, b, c, d, g, h, u, v, w, sexo, z} \subseteq Symbols
      /\ {y1, y2, m1, m2, d1, d2} \subseteq Symbols
  BY <1>0, <1>2, <1>5 DEF Symbols
<1>7. \A i \in 1..17 : t[i] \in Symbols
  BY <1>6
<1>8. digit \in Digits
  <2> HIDE DEF t
  <2> QED BY <1>7, CheckDigitType
<1> HIDE DEF digit
<1> DEFINE full == <<a, b, c, d, y1, y2, m1, m2, d1, d2, sexo, g, h, u, v, w, z, digit>>
<1>9. curp = full
  <2>1. \A i \in 1..18 : curp[i] = full[i]
    OBVIOUS
  <2>2. curp = [i \in 1..18 |-> curp[i]]
    OBVIOUS
  <2>3. full = [i \in 1..18 |-> full[i]]
    OBVIOUS
  <2> HIDE DEF curp, full
  <2> QED BY <2>1, <2>2, <2>3
<1>10. SubSeq(full, 1, 17) = t
  <2>1. \A i \in 1..17 : SubSeq(full, 1, 17)[i] = t[i]
    OBVIOUS
  <2>2. SubSeq(full, 1, 17) = [i \in 1..17 |-> SubSeq(full, 1, 17)[i]]
    OBVIOUS
  <2>3. t = [i \in 1..17 |-> t[i]]
    OBVIOUS
  <2> HIDE DEF full, t
  <2> QED BY <2>1, <2>2, <2>3
<1>11. SubSeq(full, 12, 13) = <<g, h>>
  <2>1. \A i \in 1..2 : SubSeq(full, 12, 13)[i] = <<g, h>>[i]
    OBVIOUS
  <2>2. SubSeq(full, 12, 13) = [i \in 1..2 |-> SubSeq(full, 12, 13)[i]]
    OBVIOUS
  <2>3. <<g, h>> = [i \in 1..2 |-> <<g, h>>[i]]
    OBVIOUS
  <2> DEFINE gh == <<g, h>>
  <2> HIDE DEF full, gh
  <2>4. /\ \A i \in 1..2 : SubSeq(full, 12, 13)[i] = gh[i]
        /\ gh = [i \in 1..2 |-> gh[i]]
    BY <2>1, <2>3 DEF gh
  <2>5. SubSeq(full, 12, 13) = gh
    BY <2>2, <2>4
  <2> QED BY <2>5 DEF gh
<1>12. ValidShape(full)
  <2>1. Len(full) = 18
    OBVIOUS
  <2> DEFINE Kind(i) == CASE i \in 5..10 \union {18} -> Digits
                          [] i = 11 -> {"H", "M"}
                          [] i = 17 -> Digits \union CenturyLetters
                          [] OTHER -> Letters
  <2>2. z \in Digits \union CenturyLetters
    BY <1>4
  <2>3. ASSUME NEW i \in 1..18 PROVE full[i] \in Kind(i)
    <3>1. CASE i \in 5..10 \union {18}
      <4>1. full[i] \in Digits
        BY <1>2, <1>8, <3>1
      <4> QED BY <3>1, <4>1
    <3>2. CASE i = 11
      BY <3>2
    <3>3. CASE i = 17
      BY <2>2, <3>3
    <3>4. CASE i \in {1, 2, 3, 4, 12, 13, 14, 15, 16}
      <4>1. full[i] \in Letters
        BY <1>0, <3>4
      <4> QED BY <3>4, <4>1
    <3> QED BY <3>1, <3>2, <3>3, <3>4
  <2> HIDE DEF full
  <2> QED BY <2>1, <2>3 DEF ValidShape
<1>13. /\ full[17] = z /\ full[18] = digit
       /\ NumberAt(full, 5) = y /\ NumberAt(full, 7) = month /\ NumberAt(full, 9) = day
  BY <1>2 DEF NumberAt
<1>14. (IF z \in Digits THEN 1900 ELSE 2000) + y = year
  <2>1. z \in Digits <=> year < 2000
    BY <1>4, KindsApart
  <2> QED BY <2>1, YearTold DEF y
<1> HIDE DEF full, t, curp
<1>15. ValidFor(full, year, month, day)
  <2>1. YearOf(full) = year
    BY <1>13, <1>14 DEF YearOf
  <2>2. IsRealDate(YearOf(full), NumberAt(full, 7), NumberAt(full, 9))
    BY <1>13, <2>1
  <2>3. CheckDigit(SubSeq(full, 1, 17)) = full[18]
    BY <1>10, <1>13, Zenon DEF digit
  <2>4. EntidadCode(SubSeq(full, 12, 13)) # {}
    BY <1>a, <1>11, Zenon
  <2>5. ValidCurp(full)
    BY <1>12, <2>2, <2>3, <2>4, Zenon DEF ValidCurp
  <2> QED BY <1>13, <2>1, <2>5 DEF ValidFor
<1>16. ValidFor(Append(text, CheckDigit(text)), year, month, day)
  BY <1>3, <1>9, <1>15 DEF curp, digit
<1>17. ValidFor(Checked(Together(<<a, b, c, d>>, year, month, day, sexo, <<g, h>>,
                                 <<u, v, w, z>>)), year, month, day)
  BY <1>16, Zenon DEF text, y, Together, Checked
<1> QED BY <1>0, <1>17, Zenon DEF u, v, w

LEMMA CodeHasTwoLetters ==
  ASSUME NEW value, NEW code \in EntidadCode(value)
  PROVE  code \in Codes /\ EntidadCode(code) # {}
<1>1. PICK e \in Catalogue : code = e[2]
  BY DEF EntidadCode
<1>2. code \in Seq(Letters) /\ Len(code) = 2
  BY <1>1, CatalogueAssumption
<1>3. EntidadCode(code) # {}
  BY <1>1, <1>2 DEF EntidadCode
<1>4. code[1] \in Letters /\ code[2] \in Letters
  BY <1>2
<1>5. code = <<code[1], code[2]>>
  <2> DEFINE pair == <<code[1], code[2]>>
  <2>1. pair = [i \in 1..2 |-> pair[i]] /\ \A i \in 1..2 : pair[i] = code[i]
    OBVIOUS
  <2>2. code = [i \in 1..2 |-> code[i]]
    BY <1>2
  <2> HIDE DEF pair
  <2>3. code = pair
    BY <2>1, <2>2
  <2> QED BY <2>3 DEF pair
<1> QED BY <1>3, <1>4, <1>5 DEF Codes

(* lib.rs compute_curp against validate_curp_encoded: whatever the names, the *)
(* date and the catalogue of entities, as long as codes have two letters, a   *)
(* CURP that is computed for a year that position 17 tells apart is valid.    *)
THEOREM ComputedIsValid ==
  ASSUME NEW Char, NEW p, {p.nombre, p.paterno, p.materno} \subseteq Seq(Seq(Char))
  PROVE  RoundTrips(p)
<1> SUFFICES ASSUME p.year \in Years, ComputeCurp(p).ok
             PROVE  ValidFor(ComputeCurp(p).curp, p.year, p.month, p.day)
  BY DEF RoundTrips, Years
<1> DEFINE nombre == SignificantWord(NormalWords(p.nombre))
           paterno == SignificantWord(NormalWords(p.paterno))
           materno == SignificantWord(NormalWords(p.materno))
           entity == EntidadCode(p.entidad)
           code == CHOOSE c \in entity : TRUE
           last == IF p.differentiator # "" THEN p.differentiator
                   ELSE IF p.year < 2000 THEN "0" ELSE "A"
           third == IF materno = <<>> THEN "X" ELSE materno[1]
           fifth == IF materno = <<>> THEN "X" ELSE InternalConsonant(materno)
           four == <<paterno[1], InternalVowel(paterno), third, nombre[1]>>
           start == IF four \in Inconvenient THEN [four EXCEPT ![2] = "X"] ELSE four
           end == <<InternalConsonant(paterno), fifth, InternalConsonant(nombre), last>>
           text(first, place) == Together(first, p.year, p.month, p.day, p.sexo, place, end)
           possible == /\ paterno # <<>> /\ nombre # <<>>
                       /\ IsRealDate(p.year, p.month, p.day)
                       /\ p.sexo \in {"H", "M"}
                       /\ entity # {}
                       /\ ValidDifferentiator(last, p.year)
<1>1. possible /\ ComputeCurp(p).curp = Checked(text(start, code))
  <2>1. ComputeCurp(p) = IF possible THEN [ok |-> TRUE, curp |-> Checked(text(start, code))]
                         ELSE NoCurp
    BY Zenon DEF ComputeCurp, Together, Checked
  <2> HIDE DEF possible, text
  <2>2. NoCurp.ok = FALSE
    BY DEF NoCurp
  <2>3. possible
    BY <2>1, <2>2
  <2> QED BY <2>1, <2>3
\* The letters of the names.
<1>2. \A name \in {p.nombre, p.paterno, p.materno} :
         SignificantWord(NormalWords(name)) \in Seq(Letters)
  BY NormalWordsType, SignificantWordType
<1>3. /\ nombre \in Seq(Letters) /\ paterno \in Seq(Letters) /\ materno \in Seq(Letters)
      /\ nombre # <<>> /\ paterno # <<>>
  BY <1>1, <1>2
<1> HIDE DEF nombre, paterno, materno
<1>4. /\ paterno[1] \in Letters /\ InternalVowel(paterno) \in Letters
      /\ InternalConsonant(paterno) \in Letters
  BY <1>3, LettersOfWord
<1>5. nombre[1] \in Letters /\ InternalConsonant(nombre) \in Letters
  BY <1>3, LettersOfWord
<1>6. third \in Letters /\ fifth \in Letters
  <2>1. "X" \in Letters
    BY Kinds
  <2>2. materno # <<>> => materno[1] \in Letters /\ InternalConsonant(materno) \in Letters
    BY <1>3, LettersOfWord
  <2> QED BY <2>1, <2>2
<1> HIDE DEF third, fifth
<1>7. start \in Starts
  <2>1. CASE four \in Inconvenient
    <3>1. start = <<paterno[1], "X", third, nombre[1]>>
      BY <2>1
    <3>2. "X" \in Letters
      BY Kinds
    <3> QED BY <1>4, <1>5, <1>6, <3>1, <3>2 DEF Starts
  <2>2. CASE four \notin Inconvenient
    BY <1>4, <1>5, <1>6, <2>2 DEF Starts
  <2> QED BY <2>1, <2>2
<1>8. /\ IsRealDate(p.year, p.month, p.day) /\ p.sexo \in {"H", "M"}
      /\ ValidDifferentiator(last, p.year) /\ entity # {}
  BY <1>1
<1> HIDE DEF last
<1>9. code \in EntidadCode(p.entidad)
  BY <1>8
<1> HIDE DEF start, code
<1>10. code \in Codes /\ EntidadCode(code) # {}
  BY <1>9, CodeHasTwoLetters
<1> DEFINE rest == <<InternalConsonant(paterno), fifth, InternalConsonant(nombre)>>
<1>11. rest \in Consonants /\ end = <<rest[1], rest[2], rest[3], last>>
  BY <1>4, <1>5, <1>6 DEF Consonants
<1> HIDE DEF rest, end
<1>12. ValidFor(Checked(Together(start, p.year, p.month, p.day, p.sexo, code,
                                 <<rest[1], rest[2], rest[3], last>>)),
                p.year, p.month, p.day)
  <2>1. rest \in Consonants
    BY <1>11
  <2>2. \A z : ValidDifferentiator(z, p.year) =>
            ValidFor(Checked(Together(start, p.year, p.month, p.day, p.sexo, code,
                                      <<rest[1], rest[2], rest[3], z>>)),
                     p.year, p.month, p.day)
    BY <1>7, <1>8, <1>10, <2>1, BuiltIsValid
  <2> QED BY <1>8, <2>2
<1> QED BY <1>1, <1>11, <1>12

-----------------------------------------------------------------------------
(* CommandLine: blanks at the ends, and words.                             *)

\* The first k characters are blank, and no more.
Leads(t, blanks, k) ==
    /\ k \in 0..Len(t)
    /\ \A i \in 1..k : t[i] \in blanks
    /\ k < Len(t) => t[k + 1] \notin blanks

\* The first k characters go up to the last that is not blank.
Ends(t, blanks, k) ==
    /\ k \in 0..Len(t)
    /\ \A i \in (k + 1)..Len(t) : t[i] \in blanks
    /\ k > 0 => t[k] \notin blanks

LEMMA LeadExists ==
  ASSUME NEW t \in Text, NEW blanks
  PROVE  \E k \in 0..Len(t) : Leads(t, blanks, k)
<1> DEFINE D == {i \in 1..Len(t) : t[i] \notin blanks}
<1>1. Len(t) \in Nat
  BY TextIs
<1>2. CASE D = {}
  <2>1. Leads(t, blanks, Len(t))
    BY <1>1, <1>2 DEF Leads
  <2> QED BY <1>1, <2>1
<1>3. CASE D # {}
  <2>1. D \in SUBSET Nat
    BY <1>1
  <2>2. PICK n \in D : \A m \in D : n <= m
    <3> HIDE DEF D
    <3> QED BY <1>3, <2>1, LeastNumber
  <2>3. n \in 1..Len(t) /\ n - 1 \in 0..Len(t) /\ (n - 1) + 1 = n
    BY <1>1
  <2>4. \A i \in 1..n - 1 : i \in 1..Len(t) /\ ~(n <= i)
    BY <1>1, <2>3
  <2>5. Leads(t, blanks, n - 1)
    BY <2>2, <2>3, <2>4 DEF Leads
  <2> QED BY <2>3, <2>5
<1> QED BY <1>2, <1>3

LEMMA TrimStartIs ==
  ASSUME NEW t \in Text, NEW blanks, NEW k, Leads(t, blanks, k)
  PROVE  TrimStart(t, blanks) = SubSeq(t, k + 1, Len(t))
<1>1. Len(t) \in Nat /\ k \in 0..Len(t)
  BY TextIs DEF Leads
<1>2. CASE k = Len(t)
  <2>1. ToSet(t) \subseteq blanks
    BY <1>2, AllIn DEF Leads
  <2>2. SubSeq(t, k + 1, Len(t)) = <<>>
    BY <1>1, <1>2, SubSeqEmpty
  <2> QED BY <2>1, <2>2 DEF TrimStart
<1>3. CASE k # Len(t)
  <2> DEFINE IsFirst(i) == /\ i \in DOMAIN t
                         /\ t[i] \notin blanks /\ ToSet(SubSeq(t, 1, i - 1)) \subseteq blanks
  <2>1. k + 1 \in 1..Len(t) /\ k < Len(t)
    BY <1>1, <1>3
  <2>2. t[k + 1] \notin blanks
    BY <2>1 DEF Leads
  <2>3. ~(ToSet(t) \subseteq blanks)
    BY <2>1, <2>2, AllIn
  <2>4. ASSUME NEW i \in 1..Len(t)
        PROVE  ToSet(SubSeq(t, 1, i - 1)) \subseteq blanks <=> \A j \in 1..i - 1 : t[j] \in blanks
    <3>1. 0 \in 0..Len(t) /\ i - 1 \in 0..Len(t) /\ 0 + 1 = 1 /\ (i - 1) - 0 = i - 1
      BY <1>1
    <3>2. /\ SubSeq(t, 1, i - 1) \in Text /\ Len(SubSeq(t, 1, i - 1)) = i - 1
          /\ \A j \in 1..i - 1 : SubSeq(t, 1, i - 1)[j] = t[0 + j]
      BY <3>1, CutIs
    <3>3. \A j \in 1..i - 1 : 0 + j = j
      OBVIOUS
    <3> QED BY <3>2, <3>3, AllIn
  <2>5. ASSUME NEW i, IsFirst(i)
        PROVE  i = k + 1
    <3>1. i \in 1..Len(t) /\ t[i] \notin blanks /\ \A j \in 1..i - 1 : t[j] \in blanks
      BY <2>4, <2>5, TextIs
    <3>2. ~(i <= k)
      BY <1>1, <3>1 DEF Leads
    <3>3. ~(k + 1 <= i - 1)
      BY <1>1, <2>1, <2>2, <3>1
    <3> QED BY <1>1, <3>1, <3>2, <3>3
  <2>6. IsFirst(k + 1)
    <3>1. k + 1 \in DOMAIN t /\ (k + 1) - 1 = k
      BY <1>1, <2>1, TextIs
    <3>2. \A j \in 1..k : t[j] \in blanks
      BY DEF Leads
    <3> QED BY <2>1, <2>2, <2>4, <3>1, <3>2
  <2>7. (CHOOSE i : IsFirst(i)) = k + 1
    <3> HIDE DEF IsFirst
    <3> QED BY <2>5, <2>6
  <2>8. TrimStart(t, blanks) = SubSeq(t, CHOOSE i : IsFirst(i), Len(t))
    BY <2>3 DEF TrimStart
  <2> QED BY <2>7, <2>8
<1> QED BY <1>2, <1>3

LEMMA ReverseIs ==
  ASSUME NEW t \in Text
  PROVE  /\ Reverse(t) \in Text /\ Len(Reverse(t)) = Len(t)
         /\ \A i \in 1..Len(t) : Reverse(t)[i] = t[(Len(t) - i) + 1]
<1>1. Len(t) \in Nat /\ \A i \in 1..Len(t) : (Len(t) - i) + 1 \in 1..Len(t)
  BY TextIs
<1>2. \A i \in 1..Len(t) : t[(Len(t) - i) + 1] \in Int
  BY <1>1, TextIs
<1>3. Reverse(t) = [i \in 1..Len(t) |-> t[(Len(t) - i) + 1]]
  BY DEF Reverse
<1>4. Reverse(t) \in [1..Len(t) -> Int]
  BY <1>2, <1>3
<1>5. Reverse(t) \in Seq(Int)
  BY <1>1, <1>4
<1>6. Len(Reverse(t)) = Len(t)
  BY <1>1, <1>3, <1>5, LenProperties
<1> QED BY <1>3, <1>5, <1>6 DEF Text

LEMMA EndExists ==
  ASSUME NEW t \in Text, NEW blanks
  PROVE  \E k \in 0..Len(t) : Ends(t, blanks, k)
<1>1. Len(t) \in Nat
  BY TextIs
<1>2. PICK k \in 0..Len(t) : Leads(Reverse(t), blanks, k)
  BY ReverseIs, LeadExists
<1> DEFINE n == Len(t) - k
<1>3. n \in 0..Len(t)
  BY <1>1
<1>4. ASSUME NEW i \in (n + 1)..Len(t) PROVE t[i] \in blanks
  <2>1. (Len(t) - i) + 1 \in 1..k /\ (Len(t) - i) + 1 \in 1..Len(t)
        /\ (Len(t) - ((Len(t) - i) + 1)) + 1 = i
    BY <1>1, <1>4
  <2>2. Reverse(t)[(Len(t) - i) + 1] = t[i]
    BY <2>1, ReverseIs
  <2> QED BY <1>2, <2>1, <2>2 DEF Leads
<1>5. ASSUME n > 0 PROVE t[n] \notin blanks
  <2>1. k + 1 \in 1..Len(t) /\ k < Len(t) /\ (Len(t) - (k + 1)) + 1 = n
    BY <1>1, <1>5
  <2>2. Reverse(t)[k + 1] = t[n] /\ Len(Reverse(t)) = Len(t)
    BY <2>1, ReverseIs
  <2> QED BY <1>2, <2>1, <2>2 DEF Leads
<1>6. Ends(t, blanks, n)
  BY <1>3, <1>4, <1>5 DEF Ends
<1> QED BY <1>3, <1>6

LEMMA TrimEndIs ==
  ASSUME NEW t \in Text, NEW blanks, NEW k, Ends(t, blanks, k)
  PROVE  TrimEnd(t, blanks) = SubSeq(t, 1, k)
<1> DEFINE r == Reverse(t)
           n == Len(t) - k
           u == TrimStart(r, blanks)
<1>1. Len(t) \in Nat /\ k \in 0..Len(t) /\ n \in 0..Len(t)
  BY TextIs DEF Ends
<1>2. r \in Text /\ Len(r) = Len(t) /\ \A i \in 1..Len(t) : r[i] = t[(Len(t) - i) + 1]
  BY ReverseIs
<1>3. Leads(r, blanks, n)
  <2>1. ASSUME NEW i \in 1..n PROVE r[i] \in blanks
    <3>1. i \in 1..Len(t) /\ (Len(t) - i) + 1 \in (k + 1)..Len(t)
      BY <1>1
    <3> QED BY <1>2, <3>1 DEF Ends
  <2>2. ASSUME n < Len(t) PROVE r[n + 1] \notin blanks
    <3>1. n + 1 \in 1..Len(t) /\ (Len(t) - (n + 1)) + 1 = k /\ k > 0
      BY <1>1, <2>2
    <3> QED BY <1>2, <3>1 DEF Ends
  <2> HIDE DEF r
  <2> QED BY <1>1, <1>2, <2>1, <2>2 DEF Leads
<1>4. u = SubSeq(r, n + 1, Len(r))
  BY <1>2, <1>3, TrimStartIs
<1>5. u \in Text /\ Len(u) = k /\ \A i \in 1..k : u[i] = r[n + i]
  <2>1. n \in 0..Len(r) /\ Len(r) \in n..Len(r) /\ Len(r) - n = k
    BY <1>1, <1>2
  <2> HIDE DEF r, u, n
  <2> QED BY <1>2, <1>4, <2>1, CutIs
<1>6. Reverse(u) \in Text /\ Len(Reverse(u)) = k
      /\ \A i \in 1..k : Reverse(u)[i] = u[(k - i) + 1]
  BY <1>5, ReverseIs
<1>7. SubSeq(t, 1, k) \in Text /\ Len(SubSeq(t, 1, k)) = k
      /\ \A i \in 1..k : SubSeq(t, 1, k)[i] = t[i]
  <2>1. 0 \in 0..Len(t) /\ k \in 0..Len(t) /\ k - 0 = k /\ 0 + 1 = 1 /\ \A i \in 1..k : 0 + i = i
    BY <1>1
  <2> QED BY <2>1, CutIs
<1>8. ASSUME NEW i \in 1..k PROVE Reverse(u)[i] = t[i]
  <2>1. (k - i) + 1 \in 1..k /\ n + ((k - i) + 1) \in 1..Len(t)
        /\ (Len(t) - (n + ((k - i) + 1))) + 1 = i
    BY <1>1
  <2>2. Reverse(u)[i] = u[(k - i) + 1]
    BY <1>6
  <2>3. u[(k - i) + 1] = r[n + ((k - i) + 1)]
    BY <1>5, <2>1
  <2>4. r[n + ((k - i) + 1)] = t[i]
    <3> HIDE DEF r
    <3> QED BY <1>2, <2>1
  <2> QED BY <2>2, <2>3, <2>4
<1>9. TrimEnd(t, blanks) = Reverse(u)
  BY DEF TrimEnd
<1>10. Reverse(u) = SubSeq(t, 1, k)
  <2> HIDE DEF u
  <2> QED BY <1>6, <1>7, <1>8, SameTexts
<1> QED BY <1>9, <1>10

\* The first n characters are a word, and the next is none of it.
IsWord(t, n) ==
    /\ n \in 0..Len(t)
    /\ \A i \in 1..n : t[i] \notin Blank
    /\ n < Len(t) => t[n + 1] \in Blank

LEMMA WordLenIs ==
  ASSUME NEW t \in Text, NEW n, IsWord(t, n)
  PROVE  WordLen(t) = n
<1> DEFINE IsFirst(m) ==
             /\ ToSet(SubSeq(t, 1, m)) \intersect Blank = {}
             /\ m = Len(t) \/ t[m + 1] \in Blank
<1>1. Len(t) \in Nat /\ n \in 0..Len(t)
  BY TextIs DEF IsWord
<1>2. ASSUME NEW m \in 0..Len(t)
      PROVE  ToSet(SubSeq(t, 1, m)) \intersect Blank = {} <=> \A i \in 1..m : t[i] \notin Blank
  <2>1. 0 \in 0..Len(t) /\ m - 0 = m /\ 0 + 1 = 1 /\ \A i \in 1..m : 0 + i = i
    BY <1>1
  <2>2. SubSeq(t, 1, m) \in Text /\ Len(SubSeq(t, 1, m)) = m
        /\ \A i \in 1..m : SubSeq(t, 1, m)[i] = t[i]
    BY <2>1, CutIs
  <2>3. ToSet(SubSeq(t, 1, m)) = {SubSeq(t, 1, m)[i] : i \in 1..m}
    BY <2>2, TextIs DEF ToSet
  <2> QED BY <2>2, <2>3
<1>3. IsFirst(n)
  <2>1. n = Len(t) \/ n < Len(t)
    BY <1>1
  <2> QED BY <1>1, <1>2, <2>1 DEF IsWord
<1>4. ASSUME NEW m \in 0..Len(t), IsFirst(m) PROVE m = n
  <2>1. \A i \in 1..m : t[i] \notin Blank
    BY <1>2, <1>4
  <2>2. ~(n < m)
    <3>1. n < m => n + 1 \in 1..m /\ n < Len(t)
      BY <1>1
    <3> QED BY <2>1, <3>1 DEF IsWord
  <2>3. ~(m < n)
    <3>1. m < n => m + 1 \in 1..n /\ m # Len(t)
      BY <1>1
    <3> QED BY <1>4, <3>1 DEF IsWord
  <2> QED BY <1>1, <2>2, <2>3
<1>5. WordLen(t) = CHOOSE m \in 0..Len(t) : IsFirst(m)
  BY DEF WordLen
<1> HIDE DEF IsFirst
<1> QED BY <1>1, <1>3, <1>4, <1>5

LEMMA WordExists ==
  ASSUME NEW t \in Text
  PROVE  \E n \in 0..Len(t) : IsWord(t, n)
<1> DEFINE others == {c \in Int : c \notin Blank}
<1>1. PICK n \in 0..Len(t) : Leads(t, others, n)
  BY LeadExists
<1>2. Len(t) \in Nat /\ \A i \in 1..n : i \in 1..Len(t) /\ t[i] \in Int
  BY TextIs
<1>3. n < Len(t) => t[n + 1] \in Int
  BY <1>2, TextIs
<1>4. IsWord(t, n)
  BY <1>1, <1>2, <1>3 DEF Leads, IsWord
<1> QED BY <1>4

-----------------------------------------------------------------------------
(* classify_line.                                                          *)

\* A line with no blank at either end.
Bare(t) == t # <<>> => t[1] \notin AnyBlank /\ t[Len(t)] \notin AnyBlank

LEMMA TrimIs ==
  ASSUME NEW typed \in Text
  PROVE  Trim(typed) \in Text /\ Bare(Trim(typed))
<1> DEFINE s == TrimStart(typed, AnyBlank)
<1>1. PICK k \in 0..Len(typed) : Leads(typed, AnyBlank, k)
  BY LeadExists
<1>2. Len(typed) \in Nat /\ Len(typed) \in k..Len(typed)
  BY TextIs
<1>3. s = SubSeq(typed, k + 1, Len(typed))
  BY <1>1, TrimStartIs
<1>4. s \in Text /\ Len(s) = Len(typed) - k /\ \A i \in 1..Len(typed) - k : s[i] = typed[k + i]
  <2> HIDE DEF s
  <2> QED BY <1>2, <1>3, CutIs
<1>5. Len(s) > 0 => s[1] \notin AnyBlank
  <2> SUFFICES ASSUME Len(s) > 0 PROVE s[1] \notin AnyBlank
    OBVIOUS
  <2>1. 1 \in 1..Len(typed) - k /\ k < Len(typed)
    BY <1>2, <1>4
  <2> QED BY <1>1, <1>4, <2>1 DEF Leads
<1> HIDE DEF s
<1>6. PICK n \in 0..Len(s) : Ends(s, AnyBlank, n)
  BY <1>4, EndExists
<1>7. Trim(typed) = SubSeq(s, 1, n)
  BY <1>4, <1>6, TrimEndIs DEF Trim, s
<1>8. Len(s) \in Nat /\ 0 \in 0..Len(s) /\ n - 0 = n /\ 0 + 1 = 1 /\ \A i \in 1..n : 0 + i = i
  BY <1>4, TextIs
<1>9. SubSeq(s, 1, n) \in Text /\ Len(SubSeq(s, 1, n)) = n /\ \A i \in 1..n : SubSeq(s, 1, n)[i] = s[i]
  BY <1>4, <1>8, CutIs
<1>10. ASSUME SubSeq(s, 1, n) # <<>>
       PROVE  SubSeq(s, 1, n)[1] \notin AnyBlank /\ SubSeq(s, 1, n)[n] \notin AnyBlank
  <2>1. n > 0 /\ 1 \in 1..n /\ n \in 1..n /\ Len(s) > 0
    BY <1>8, <1>9, <1>10, TextIs
  <2> QED BY <1>5, <1>6, <1>9, <2>1 DEF Ends
<1> QED BY <1>7, <1>9, <1>10 DEF Bare

LEMMA TrimBare ==
  ASSUME NEW t \in Text, t # <<>>, Bare(t)
  PROVE  Trim(t) = t
<1>1. Len(t) \in Nat /\ Len(t) > 0
  BY TextIs
<1>2. Leads(t, AnyBlank, 0)
  BY <1>1 DEF Leads, Bare
<1>3. Ends(t, AnyBlank, Len(t))
  BY <1>1 DEF Ends, Bare
<1>4. SubSeq(t, 1, Len(t)) = t
  BY SubSeqFull DEF Text
<1>5. TrimStart(t, AnyBlank) = t
  <2>1. TrimStart(t, AnyBlank) = SubSeq(t, 0 + 1, Len(t))
    BY <1>2, TrimStartIs
  <2>2. 0 + 1 = 1
    OBVIOUS
  <2> QED BY <1>4, <2>1, <2>2
<1>6. TrimEnd(t, AnyBlank) = t
  BY <1>3, <1>4, TrimEndIs
<1> QED BY <1>5, <1>6 DEF Trim

LowerChar(c) == IF c \in Upper THEN c + 32 ELSE c

LEMMA LowerCharIs ==
  ASSUME NEW c \in Int
  PROVE  /\ LowerChar(c) \in Int /\ LowerChar(LowerChar(c)) = LowerChar(c)
         /\ LowerChar(c) \in Blank <=> c \in Blank
         /\ LowerChar(c) \in AnyBlank <=> c \in AnyBlank
         /\ LowerChar(c) = Slash <=> c = Slash
BY DEF LowerChar, Upper, Blank, AnyBlank, Slash

LEMMA AsciiLowerIs ==
  ASSUME NEW t \in Text
  PROVE  /\ AsciiLower(t) \in Text /\ Len(AsciiLower(t)) = Len(t)
         /\ \A i \in 1..Len(t) : AsciiLower(t)[i] = LowerChar(t[i])
<1>1. Len(t) \in Nat /\ DOMAIN t = 1..Len(t) /\ \A i \in 1..Len(t) : LowerChar(t[i]) \in Int
  BY TextIs, LowerCharIs
<1>2. AsciiLower(t) = [i \in 1..Len(t) |-> LowerChar(t[i])]
  BY <1>1 DEF AsciiLower, LowerChar
<1>3. AsciiLower(t) \in [1..Len(t) -> Int]
  BY <1>1, <1>2
<1>4. AsciiLower(t) \in Seq(Int)
  BY <1>1, <1>3
<1>5. Len(AsciiLower(t)) = Len(t)
  BY <1>1, <1>2, <1>4, LenProperties
<1> QED BY <1>2, <1>4, <1>5 DEF Text

\* A command: after the bar, the word first and then rest.
IsCommand(line, first, rest) ==
    /\ line # <<>> /\ line[1] = Slash /\ Tail(line) = first \o rest
    /\ first \o rest # <<>> => (first \o rest)[1] # Slash
    /\ IsWord(first \o rest, Len(first))

\* How a line that is a command is read.
LEMMA CommandRead ==
  ASSUME NEW typed, NEW line \in Text, NEW first \in Text, NEW rest \in Text,
         Trim(typed) = line, IsCommand(line, first, rest)
  PROVE  ClassifyLine(typed) = [kind |-> "command", name |-> AsciiLower(first), rest |-> rest]
<1> DEFINE body == first \o rest
           n == Len(first)
<1>1. /\ line # <<>> /\ line[1] = Slash /\ Tail(line) = body
      /\ (body # <<>> => body[1] # Slash) /\ IsWord(body, n)
  BY DEF IsCommand
<1>2. body \in Text /\ SubSeq(body, 1, n) = first /\ SubSeq(body, n + 1, Len(body)) = rest
  BY JoinIs, JoinCut
<1> HIDE DEF body, n
<1>3. Head(line) = Slash
  BY <1>1, TailIs
<1>4. body # <<>> => Head(body) = body[1]
  BY <1>2, TailIs
<1>5. WordLen(body) = n
  BY <1>1, <1>2, WordLenIs
<1>6. ~(line = <<>> \/ Head(line) # Slash) /\ ~(body # <<>> /\ Head(body) = Slash)
  BY <1>1, <1>3, <1>4
<1>7. ClassifyLine(typed) =
          [kind |-> "command", name |-> AsciiLower(SubSeq(body, 1, WordLen(body))),
           rest |-> SubSeq(body, WordLen(body) + 1, Len(body))]
  BY <1>1, <1>6 DEF ClassifyLine
<1> QED BY <1>2, <1>5, <1>7

LEMMA EscapedRead ==
  ASSUME NEW line \in Text, Bare(line), line # <<>>, line[1] = Slash
  PROVE  ClassifyLine(<<Slash>> \o line) = [kind |-> "escaped", text |-> line]
<1> DEFINE t == <<Slash>> \o line
<1>1. Slash \in Int /\ Slash \notin AnyBlank
  BY DEF Slash, AnyBlank
<1>2. <<Slash>> \in Text /\ Len(<<Slash>>) = 1 /\ <<Slash>>[1] = Slash
  BY <1>1, OneChar
<1>3. Len(line) \in Nat /\ Len(line) > 0
  BY TextIs
<1>4. /\ t \in Text /\ Len(t) = 1 + Len(line) /\ t[1] = Slash
      /\ \A i \in 1..Len(line) : t[1 + i] = line[i]
  BY <1>2, JoinIs
<1> HIDE DEF t
<1>5. t # <<>> /\ t[Len(t)] = line[Len(line)]
  <2>1. Len(line) \in 1..Len(line)
    BY <1>3
  <2>2. t[1 + Len(line)] = line[Len(line)]
    BY <1>4, <2>1
  <2>3. Len(t) # 0
    BY <1>3, <1>4
  <2> QED BY <1>4, <2>2, <2>3, TextIs
<1>6. Trim(t) = t
  BY <1>1, <1>4, <1>5, TrimBare DEF Bare
<1>7. Tail(t) = line /\ Head(t) = Slash /\ Head(line) = Slash
  <2>1. /\ Tail(t) \in Text /\ Len(Tail(t)) = Len(t) - 1
        /\ \A i \in 1..Len(t) - 1 : Tail(t)[i] = t[i + 1]
        /\ Head(t) = t[1]
    BY <1>4, <1>5, TailIs
  <2>2. Len(t) - 1 = Len(line) /\ \A i \in 1..Len(line) : i + 1 = 1 + i
    BY <1>3, <1>4
  <2>3. Tail(t) = line
    <3>1. Tail(t) \in Text /\ Len(Tail(t)) = Len(line)
      BY <2>1, <2>2
    <3>2. \A i \in 1..Len(line) : Tail(t)[i] = line[i]
      BY <1>4, <2>1, <2>2
    <3> QED BY <3>1, <3>2, SameTexts
  <2>4. Head(line) = Slash
    BY TailIs
  <2> QED BY <1>4, <2>1, <2>3, <2>4
<1>8. ClassifyLine(t) = [kind |-> "escaped", text |-> line]
  BY <1>5, <1>6, <1>7 DEF ClassifyLine
<1> QED BY <1>8 DEF t
-----------------------------------------------------------------------------
(* Texts alike but for capitals.                                           *)

LEMMA LowerJoin ==
  ASSUME NEW a \in Text, NEW b \in Text
  PROVE  AsciiLower(a \o b) = AsciiLower(a) \o AsciiLower(b)
<1> DEFINE t == a \o b
           x == AsciiLower(a)
           y == AsciiLower(b)
<1>1. /\ t \in Text /\ Len(t) = Len(a) + Len(b)
      /\ \A i \in 1..Len(a) : t[i] = a[i]
      /\ \A i \in 1..Len(b) : t[Len(a) + i] = b[i]
  BY JoinIs
<1>2. x \in Text /\ Len(x) = Len(a) /\ \A i \in 1..Len(a) : x[i] = LowerChar(a[i])
  BY AsciiLowerIs
<1>3. y \in Text /\ Len(y) = Len(b) /\ \A i \in 1..Len(b) : y[i] = LowerChar(b[i])
  BY AsciiLowerIs
<1>4. /\ x \o y \in Text /\ Len(x \o y) = Len(x) + Len(y)
      /\ \A i \in 1..Len(x) : (x \o y)[i] = x[i]
      /\ \A i \in 1..Len(y) : (x \o y)[Len(x) + i] = y[i]
  <2> HIDE DEF x, y
  <2> QED BY <1>2, <1>3, JoinIs
<1> HIDE DEF t, x, y
<1>5. /\ AsciiLower(t) \in Text /\ Len(AsciiLower(t)) = Len(t)
      /\ \A i \in 1..Len(t) : AsciiLower(t)[i] = LowerChar(t[i])
  BY <1>1, AsciiLowerIs
<1>6. Len(a) \in Nat /\ Len(b) \in Nat
  BY TextIs
<1>7. ASSUME NEW i \in 1..Len(t) PROVE AsciiLower(t)[i] = (x \o y)[i]
  <2>1. CASE i <= Len(a)
    <3>1. i \in 1..Len(a)
      BY <1>1, <1>6, <2>1
    <3>2. AsciiLower(t)[i] = LowerChar(a[i])
      BY <1>1, <1>5, <3>1
    <3>3. (x \o y)[i] = LowerChar(a[i])
      BY <1>2, <1>4, <3>1
    <3> QED BY <3>2, <3>3
  <2>2. CASE ~(i <= Len(a))
    <3> DEFINE j == i - Len(a)
    <3>1. j \in 1..Len(b) /\ Len(a) + j = i
      BY <1>1, <1>6, <2>2
    <3> HIDE DEF j
    <3>2. AsciiLower(t)[i] = LowerChar(b[j])
      BY <1>1, <1>5, <3>1
    <3>3. (x \o y)[Len(a) + j] = LowerChar(b[j])
      BY <1>2, <1>3, <1>4, <3>1
    <3> QED BY <3>1, <3>2, <3>3
  <2> QED BY <2>1, <2>2
<1>8. AsciiLower(t) = x \o y
  <2>1. Len(AsciiLower(t)) = Len(x \o y)
    BY <1>1, <1>2, <1>3, <1>4, <1>5
  <2> QED BY <1>4, <1>5, <1>7, <2>1, SameTexts
<1> QED BY <1>8 DEF t, x, y

LEMMA LowerTwice ==
  ASSUME NEW t \in Text
  PROVE  AsciiLower(AsciiLower(t)) = AsciiLower(t)
<1> DEFINE x == AsciiLower(t)
<1>1. x \in Text /\ Len(x) = Len(t) /\ \A i \in 1..Len(t) : x[i] = LowerChar(t[i])
  BY AsciiLowerIs
<1> HIDE DEF x
<1>2. /\ AsciiLower(x) \in Text /\ Len(AsciiLower(x)) = Len(x)
      /\ \A i \in 1..Len(x) : AsciiLower(x)[i] = LowerChar(x[i])
  BY <1>1, AsciiLowerIs
<1>3. ASSUME NEW i \in 1..Len(t) PROVE AsciiLower(x)[i] = x[i]
  <2>1. t[i] \in Int
    BY TextIs
  <2> QED BY <1>1, <1>2, <2>1, LowerCharIs
<1>4. AsciiLower(x) = x
  BY <1>1, <1>2, <1>3, SameTexts
<1> QED BY <1>4 DEF x

\* Texts that differ in capitals only have their blanks and bars in the same
\* places.
LEMMA AlikeIs ==
  ASSUME NEW a \in Text, NEW b \in Text, AsciiLower(a) = AsciiLower(b)
  PROVE  /\ Len(a) = Len(b)
         /\ \A i \in 1..Len(a) : /\ a[i] \in Blank <=> b[i] \in Blank
                                 /\ a[i] \in AnyBlank <=> b[i] \in AnyBlank
                                 /\ a[i] = Slash <=> b[i] = Slash
<1>1. Len(AsciiLower(a)) = Len(a) /\ \A i \in 1..Len(a) : AsciiLower(a)[i] = LowerChar(a[i])
  BY AsciiLowerIs
<1>2. Len(AsciiLower(b)) = Len(b) /\ \A i \in 1..Len(b) : AsciiLower(b)[i] = LowerChar(b[i])
  BY AsciiLowerIs
<1>3. Len(a) = Len(b)
  BY <1>1, <1>2
<1>4. ASSUME NEW i \in 1..Len(a)
      PROVE  /\ a[i] \in Blank <=> b[i] \in Blank
             /\ a[i] \in AnyBlank <=> b[i] \in AnyBlank
             /\ a[i] = Slash <=> b[i] = Slash
  <2>1. a[i] \in Int /\ b[i] \in Int
    BY <1>3, TextIs
  <2>2. LowerChar(a[i]) = LowerChar(b[i])
    BY <1>1, <1>2, <1>3
  <2> QED BY <2>1, <2>2, LowerCharIs
<1> QED BY <1>3, <1>4

LEMMA LowerMark == AsciiLower(<<Slash>>) = <<Slash>> /\ <<Slash>> \in Text /\ Slash \in Int
<1> DEFINE mark == <<Slash>>
<1>1. Slash \in Int /\ LowerChar(Slash) = Slash
  BY DEF Slash, LowerChar, Upper
<1>2. mark \in Text /\ Len(mark) = 1 /\ mark[1] = Slash
  BY <1>1, OneChar
<1> HIDE DEF mark
<1>3. /\ AsciiLower(mark) \in Text /\ Len(AsciiLower(mark)) = Len(mark)
      /\ \A i \in 1..Len(mark) : AsciiLower(mark)[i] = LowerChar(mark[i])
  BY <1>2, AsciiLowerIs
<1>4. \A i \in 1..Len(mark) : AsciiLower(mark)[i] = mark[i]
  BY <1>1, <1>2, <1>3
<1>5. AsciiLower(mark) = mark
  BY <1>2, <1>3, <1>4, SameTexts
<1> QED BY <1>1, <1>2, <1>5 DEF mark

\* A text is its first character and the rest.
LEMMA HeadJoin ==
  ASSUME NEW t \in Text, t # <<>>
  PROVE  t = <<t[1]>> \o Tail(t)
<1> DEFINE u == <<t[1]>> \o Tail(t)
<1>1. Len(t) \in Nat /\ Len(t) > 0 /\ t[1] \in Int
  BY TextIs
<1>2. /\ Tail(t) \in Text /\ Len(Tail(t)) = Len(t) - 1
      /\ \A i \in 1..Len(t) - 1 : Tail(t)[i] = t[i + 1]
  BY TailIs
<1>3. /\ u \in Text /\ Len(u) = 1 + Len(Tail(t)) /\ u[1] = t[1]
      /\ \A i \in 1..Len(Tail(t)) : u[1 + i] = Tail(t)[i]
  BY <1>1, <1>2, TailOfJoin
<1> HIDE DEF u
<1>4. Len(u) = Len(t)
  BY <1>1, <1>2, <1>3
<1>5. ASSUME NEW i \in 1..Len(t) PROVE t[i] = u[i]
  <2>1. CASE i = 1
    BY <1>3, <2>1
  <2>2. CASE i # 1
    <3> DEFINE j == i - 1
    <3>1. j \in 1..Len(t) - 1 /\ 1 + j = i /\ j + 1 = i
      BY <1>1, <2>2
    <3> HIDE DEF j
    <3>2. u[1 + j] = Tail(t)[j]
      BY <1>2, <1>3, <3>1
    <3>3. Tail(t)[j] = t[j + 1]
      BY <1>2, <3>1
    <3> QED BY <3>1, <3>2, <3>3
  <2> QED BY <2>1, <2>2
<1>6. t = u
  BY <1>3, <1>4, <1>5, SameTexts
<1> QED BY <1>6 DEF u

\* A command written with its name as it was read is read the same way.
LEMMA CommandAgain ==
  ASSUME NEW line \in Text, NEW first \in Text, NEW rest \in Text,
         Bare(line), IsCommand(line, first, rest)
  PROVE  /\ AsciiLower(line) = <<Slash>> \o AsciiLower(first) \o AsciiLower(rest)
         /\ ClassifyLine(<<Slash>> \o AsciiLower(first) \o rest) =
                [kind |-> "command", name |-> AsciiLower(first), rest |-> rest]
<1> DEFINE n == Len(first)
           mark == <<Slash>>
           name == AsciiLower(first)
           body == first \o rest
           again == name \o rest
           said == mark \o again
<1>1. mark \in Text /\ AsciiLower(mark) = mark /\ Slash \in Int
  BY LowerMark
<1>2. name \in Text /\ Len(name) = n /\ AsciiLower(name) = name
  BY AsciiLowerIs, LowerTwice
<1>3. body \in Text /\ again \in Text /\ AsciiLower(rest) \in Text
  <2> HIDE DEF name
  <2> QED BY <1>2, JoinIs, AsciiLowerIs
<1>4. AsciiLower(body) = name \o AsciiLower(rest)
  BY LowerJoin
<1>5. AsciiLower(again) = name \o AsciiLower(rest)
  <2>1. AsciiLower(again) = AsciiLower(name) \o AsciiLower(rest)
    <3> HIDE DEF name
    <3> QED BY <1>2, LowerJoin
  <2> HIDE DEF name, again
  <2> QED BY <1>2, <2>1
<1>6. line # <<>> /\ line[1] = Slash /\ Tail(line) = body /\ (body # <<>> => body[1] # Slash)
      /\ IsWord(body, n)
  BY DEF IsCommand
<1> HIDE DEF n, mark, name, body, again, said
<1>7. line = mark \o body
  BY <1>6, HeadJoin DEF mark
<1>8. AsciiLower(line) = mark \o AsciiLower(body)
  <2>1. AsciiLower(mark \o body) = AsciiLower(mark) \o AsciiLower(body)
    BY <1>1, <1>3, LowerJoin
  <2> QED BY <1>1, <1>7, <2>1
<1>9. AsciiLower(said) = AsciiLower(line)
  <2>1. AsciiLower(mark \o again) = AsciiLower(mark) \o AsciiLower(again)
    BY <1>1, <1>3, LowerJoin
  <2> QED BY <1>1, <1>4, <1>5, <1>8, <2>1 DEF said
<1>10. /\ said \in Text /\ Len(said) = 1 + Len(again) /\ said # <<>>
       /\ Tail(said) = again /\ said[1] = Slash
  BY <1>1, <1>3, TailOfJoin DEF said, mark
<1>11. Bare(said)
  <2>1. /\ Len(said) = Len(line)
        /\ \A i \in 1..Len(said) : said[i] \in AnyBlank <=> line[i] \in AnyBlank
    BY <1>9, <1>10, AlikeIs
  <2>2. Len(line) \in Nat /\ Len(line) > 0
    BY <1>6, TextIs
  <2>3. 1 \in 1..Len(said) /\ Len(line) \in 1..Len(said)
    BY <2>1, <2>2
  <2>4. line[1] \notin AnyBlank /\ line[Len(line)] \notin AnyBlank
    BY <1>6 DEF Bare
  <2>5. said[1] \notin AnyBlank /\ said[Len(line)] \notin AnyBlank
    BY <2>1, <2>3, <2>4
  <2> QED BY <2>1, <2>5 DEF Bare
<1>12. IsCommand(said, name, rest)
  <2>1. /\ Len(again) = Len(body)
        /\ \A i \in 1..Len(again) : /\ again[i] \in Blank <=> body[i] \in Blank
                                    /\ again[i] = Slash <=> body[i] = Slash
    BY <1>3, <1>4, <1>5, AlikeIs
  <2>2. Len(again) \in Nat /\ (again = <<>> <=> Len(again) = 0) /\ (body = <<>> <=> Len(body) = 0)
    BY <1>3, TextIs
  <2>3. again # <<>> => body # <<>> /\ 1 \in 1..Len(again)
    BY <2>1, <2>2
  <2>4. again # <<>> => again[1] # Slash
    BY <1>6, <2>1, <2>3
  <2>5. n \in 0..Len(body)
    BY <1>6 DEF IsWord
  <2>6. \A i \in 1..n : i \in 1..Len(again)
    BY <2>1, <2>2, <2>5
  <2>7. n < Len(again) => n + 1 \in 1..Len(again)
    BY <2>1, <2>2, <2>5
  <2>8. IsWord(again, n)
    BY <1>6, <2>1, <2>5, <2>6, <2>7 DEF IsWord
  <2> QED BY <1>2, <1>10, <2>4, <2>8 DEF IsCommand, again
<1>13. ClassifyLine(said) = [kind |-> "command", name |-> AsciiLower(name), rest |-> rest]
  <2>1. Trim(said) = said
    BY <1>10, <1>11, TrimBare
  <2> QED BY <1>2, <1>10, <1>12, <2>1, CommandRead
<1>14. said = (mark \o name) \o rest
  BY <1>1, <1>2, JoinAssoc DEF said, again
<1>15. AsciiLower(line) = (mark \o name) \o AsciiLower(rest)
  <2>1. (mark \o name) \o AsciiLower(rest) = mark \o (name \o AsciiLower(rest))
    <3> DEFINE low == AsciiLower(rest)
    <3>1. low \in Text
      BY <1>3
    <3> HIDE DEF low
    <3>2. (mark \o name) \o low = mark \o (name \o low)
      BY <1>1, <1>2, <3>1, JoinAssoc
    <3> QED BY <3>2 DEF low
  <2> QED BY <1>4, <1>8, <2>1
<1> QED BY <1>2, <1>13, <1>14, <1>15 DEF mark, name

\* Nothing typed is lost, whatever it is.
LEMMA EveryLineKept ==
  ASSUME NEW typed \in Text
  PROVE  LineKept(typed)
<1> DEFINE line == Trim(typed)
           body == Tail(line)
<1>1. line \in Text /\ Bare(line)
  BY TrimIs
<1> HIDE DEF line
<1>2. CASE line = <<>> \/ line[1] # Slash
  <2>1. line = <<>> \/ Head(line) # Slash
    BY <1>1, <1>2, TailIs
  <2>2. ClassifyLine(typed) = [kind |-> "plain"]
    BY <2>1 DEF ClassifyLine, line
  <2>3. ClassifyLine(typed).kind = "plain" /\ "plain" # "command"
    BY <2>2
  <2> HIDE DEF body
  <2> QED BY <2>1, <2>3 DEF LineKept, line
<1>3. CASE line # <<>> /\ line[1] = Slash
  <2>1. Head(line) = Slash /\ body \in Text
    BY <1>1, <1>3, TailIs
  <2>2. ClassifyLine(<<Slash>> \o line) = [kind |-> "escaped", text |-> line]
    BY <1>1, <1>3, EscapedRead
  <2>3. CASE body # <<>> /\ body[1] = Slash
    <3>1. Head(body) = Slash
      BY <2>1, <2>3, TailIs
    <3>2. ClassifyLine(typed) = [kind |-> "escaped", text |-> body]
      BY <1>3, <2>1, <2>3, <3>1 DEF ClassifyLine, line
    <3>3. ClassifyLine(typed).kind = "escaped" /\ "escaped" # "plain" /\ "escaped" # "command"
      BY <3>2
    <3> HIDE DEF body
    <3> QED BY <1>3, <2>1, <2>2, <3>3 DEF LineKept, line
  <2>4. CASE body # <<>> => body[1] # Slash
    <3>1. PICK n \in 0..Len(body) : IsWord(body, n)
      BY <2>1, WordExists
    <3> DEFINE first == SubSeq(body, 1, n)
               name == AsciiLower(first)
               rest == SubSeq(body, n + 1, Len(body))
    <3>2. first \in Text /\ rest \in Text /\ Len(first) = n /\ body = first \o rest
      <4> HIDE DEF body
      <4> QED BY <2>1, SplitIs
    <3>3. IsCommand(line, first, rest)
      <4>1. Tail(line) = body
        OBVIOUS
      <4> HIDE DEF body, first, rest
      <4>2. Tail(line) = first \o rest
        BY <3>2, <4>1
      <4>3. first \o rest # <<>> => (first \o rest)[1] # Slash
        BY <2>4, <3>2
      <4>4. IsWord(first \o rest, Len(first))
        BY <3>1, <3>2
      <4> QED BY <1>3, <4>2, <4>3, <4>4 DEF IsCommand
    <3> HIDE DEF first, rest
    <3>5. /\ AsciiLower(line) = <<Slash>> \o name \o AsciiLower(rest)
          /\ ClassifyLine(<<Slash>> \o name \o rest) =
                 [kind |-> "command", name |-> name, rest |-> rest]
      BY <1>1, <3>2, <3>3, CommandAgain
    <3>6. ClassifyLine(typed) = [kind |-> "command", name |-> name, rest |-> rest]
      BY <1>1, <3>2, <3>3, CommandRead DEF line
    <3> HIDE DEF name
    <3>4. /\ ClassifyLine(typed).kind = "command" /\ "command" # "plain"
          /\ ClassifyLine(typed).name = name /\ ClassifyLine(typed).rest = rest
      BY <3>6
    <3> HIDE DEF body
    <3> QED BY <1>3, <2>1, <2>2, <3>4, <3>5, <3>6 DEF LineKept, line
  <2> QED BY <2>3, <2>4
<1> QED BY <1>2, <1>3

-----------------------------------------------------------------------------
(* Blanks and words, of texts that are joined.                             *)

Blanks(t) == \A i \in 1..Len(t) : t[i] \in Blank
NoBlanks(t) == \A i \in 1..Len(t) : t[i] \notin Blank
Clean(t) == t # <<>> => t[1] \notin Blank
Stops(t) == t # <<>> => t[1] \in Blank
Closed(t) == t # <<>> => t[Len(t)] \notin Blank

LEMMA EmptyJoin ==
  ASSUME NEW t \in Text
  PROVE  /\ <<>> \in Text /\ Len(<<>>) = 0 /\ <<>> \o t = t /\ t \o <<>> = t
         /\ Blanks(<<>>) /\ NoBlanks(<<>>) /\ Clean(<<>>) /\ Stops(<<>>) /\ Closed(<<>>)
<1>1. <<>> \o t = t /\ t \o <<>> = t
  BY NothingJoined
<1> QED BY <1>1, NoChars DEF Blanks, NoBlanks, Clean, Stops, Closed

LEMMA FirstOfJoin ==
  ASSUME NEW a \in Text, NEW b \in Text, a # <<>>
  PROVE  a \o b \in Text /\ a \o b # <<>> /\ (a \o b)[1] = a[1]
<1>1. Len(a) \in Nat /\ Len(a) > 0 /\ Len(b) \in Nat
  BY TextIs
<1>2. 1 \in 1..Len(a)
  BY <1>1
<1>3. a \o b \in Text /\ Len(a \o b) = Len(a) + Len(b) /\ (a \o b)[1] = a[1]
  BY <1>2, JoinIs
<1>4. Len(a \o b) # 0
  BY <1>1, <1>3
<1> QED BY <1>3, <1>4, TextIs

LEMMA CleanJoin ==
  ASSUME NEW a \in Text, NEW b \in Text, Clean(a), a # <<>>
  PROVE  Clean(a \o b) /\ a \o b # <<>>
BY FirstOfJoin DEF Clean

LEMMA StopsJoin ==
  ASSUME NEW a \in Text, NEW b \in Text, Stops(a), a # <<>>
  PROVE  Stops(a \o b) /\ a \o b # <<>>
BY FirstOfJoin DEF Stops

LEMMA BlanksJoin ==
  ASSUME NEW a \in Text, NEW b \in Text, Blanks(a), Blanks(b)
  PROVE  Blanks(a \o b)
<1>1. Len(a) \in Nat /\ Len(b) \in Nat
  BY TextIs
<1>2. Len(a \o b) = Len(a) + Len(b)
  BY JoinIs
<1>3. ASSUME NEW i \in 1..Len(a \o b) PROVE (a \o b)[i] \in Blank
  <2>1. CASE i <= Len(a)
    <3>1. i \in 1..Len(a)
      BY <1>1, <1>2, <2>1
    <3>2. (a \o b)[i] = a[i]
      BY <3>1, JoinIs
    <3> QED BY <3>1, <3>2 DEF Blanks
  <2>2. CASE ~(i <= Len(a))
    <3> DEFINE j == i - Len(a)
    <3>1. j \in 1..Len(b) /\ Len(a) + j = i
      BY <1>1, <1>2, <2>2
    <3> HIDE DEF j
    <3>2. (a \o b)[Len(a) + j] = b[j]
      BY <3>1, JoinIs
    <3> QED BY <3>1, <3>2 DEF Blanks
  <2> QED BY <2>1, <2>2
<1> QED BY <1>3 DEF Blanks

\* Blanks before a text are trimmed, and what is left is clean.
LEMMA TrimJoin ==
  ASSUME NEW a \in Text, NEW b \in Text, Blanks(a), Clean(b)
  PROVE  TrimStart(a \o b, Blank) = b
<1> DEFINE t == a \o b
<1>1. Len(a) \in Nat /\ Len(b) \in Nat /\ (b = <<>> <=> Len(b) = 0)
  BY TextIs
<1>2. /\ t \in Text /\ Len(t) = Len(a) + Len(b)
      /\ \A i \in 1..Len(a) : t[i] = a[i]
      /\ \A i \in 1..Len(b) : t[Len(a) + i] = b[i]
  BY JoinIs
<1>3. SubSeq(t, Len(a) + 1, Len(t)) = b
  BY JoinCut
<1> HIDE DEF t
<1>4. Leads(t, Blank, Len(a))
  <2>1. \A i \in 1..Len(a) : t[i] \in Blank
    BY <1>2 DEF Blanks
  <2>2. Len(a) < Len(t) => t[Len(a) + 1] \notin Blank
    <3>1. Len(a) < Len(t) => b # <<>> /\ 1 \in 1..Len(b)
      BY <1>1, <1>2
    <3> QED BY <1>2, <3>1 DEF Clean
  <2>3. Len(a) \in 0..Len(t)
    BY <1>1, <1>2
  <2> QED BY <2>1, <2>2, <2>3 DEF Leads
<1>5. TrimStart(t, Blank) = b
  BY <1>2, <1>3, <1>4, TrimStartIs
<1> QED BY <1>5 DEF t

LEMMA TrimSplit ==
  ASSUME NEW t \in Text
  PROVE  \E a, b \in Text : t = a \o b /\ Blanks(a) /\ Clean(b) /\ TrimStart(t, Blank) = b
<1>1. PICK k \in 0..Len(t) : Leads(t, Blank, k)
  BY LeadExists
<1> DEFINE a == SubSeq(t, 1, k)
           b == SubSeq(t, k + 1, Len(t))
<1>2. /\ a \in Text /\ Len(a) = k /\ \A i \in 1..k : a[i] = t[i]
      /\ b \in Text /\ Len(b) = Len(t) - k /\ \A i \in 1..Len(t) - k : b[i] = t[k + i]
      /\ t = a \o b
  BY SplitIs
<1> HIDE DEF a, b
<1>3. Blanks(a)
  BY <1>1, <1>2 DEF Blanks, Leads
<1>4. Clean(b)
  <2>1. Len(t) \in Nat
    BY TextIs
  <2>2. b # <<>> => k < Len(t) /\ 1 \in 1..Len(t) - k
    BY <1>2, <2>1, TextIs
  <2> QED BY <1>1, <1>2, <2>2 DEF Clean, Leads
<1>5. TrimStart(t, Blank) = b
  BY <1>2, <1>3, <1>4, TrimJoin
<1> QED BY <1>2, <1>3, <1>4, <1>5

\* A word ends at the first blank.
LEMMA WordJoin ==
  ASSUME NEW a \in Text, NEW b \in Text, NoBlanks(a), Stops(b)
  PROVE  /\ WordLen(a \o b) = Len(a) /\ SubSeq(a \o b, 1, Len(a)) = a
         /\ SubSeq(a \o b, Len(a) + 1, Len(a \o b)) = b
<1> DEFINE t == a \o b
<1>1. Len(a) \in Nat /\ Len(b) \in Nat /\ (b = <<>> <=> Len(b) = 0)
  BY TextIs
<1>2. /\ t \in Text /\ Len(t) = Len(a) + Len(b)
      /\ \A i \in 1..Len(a) : t[i] = a[i]
      /\ \A i \in 1..Len(b) : t[Len(a) + i] = b[i]
  BY JoinIs
<1>3. SubSeq(t, 1, Len(a)) = a /\ SubSeq(t, Len(a) + 1, Len(t)) = b
  BY JoinCut
<1> HIDE DEF t
<1>4. IsWord(t, Len(a))
  <2>1. \A i \in 1..Len(a) : t[i] \notin Blank
    BY <1>2 DEF NoBlanks
  <2>2. Len(a) < Len(t) => t[Len(a) + 1] \in Blank
    <3>1. Len(a) < Len(t) => b # <<>> /\ 1 \in 1..Len(b)
      BY <1>1, <1>2
    <3> QED BY <1>2, <3>1 DEF Stops
  <2>3. Len(a) \in 0..Len(t)
    BY <1>1, <1>2
  <2> QED BY <2>1, <2>2, <2>3 DEF IsWord
<1>5. WordLen(t) = Len(a)
  BY <1>2, <1>4, WordLenIs
<1> QED BY <1>3, <1>5 DEF t

LEMMA WordSplit ==
  ASSUME NEW t \in Text
  PROVE  \E a, b \in Text : t = a \o b /\ NoBlanks(a) /\ Stops(b) /\ (Clean(t) /\ t # <<>> => a # <<>>)
<1>1. PICK k \in 0..Len(t) : IsWord(t, k)
  BY WordExists
<1> DEFINE a == SubSeq(t, 1, k)
           b == SubSeq(t, k + 1, Len(t))
<1>2. /\ a \in Text /\ Len(a) = k /\ \A i \in 1..k : a[i] = t[i]
      /\ b \in Text /\ Len(b) = Len(t) - k /\ \A i \in 1..Len(t) - k : b[i] = t[k + i]
      /\ t = a \o b
  BY SplitIs
<1> HIDE DEF a, b
<1>3. NoBlanks(a)
  BY <1>1, <1>2 DEF NoBlanks, IsWord
<1>4. Stops(b)
  <2>1. Len(t) \in Nat
    BY TextIs
  <2>2. b # <<>> => k < Len(t) /\ 1 \in 1..Len(t) - k
    BY <1>2, <2>1, TextIs
  <2> QED BY <1>1, <1>2, <2>2 DEF Stops, IsWord
<1>5. ASSUME Clean(t), t # <<>> PROVE a # <<>>
  <2>1. Len(t) \in Nat /\ Len(t) > 0
    BY <1>5, TextIs
  <2>2. k # 0
    <3>1. k = 0 => k < Len(t) /\ k + 1 = 1
      BY <2>1
    <3> QED BY <1>1, <1>5, <3>1 DEF IsWord, Clean
  <2> QED BY <1>2, <2>2, TextIs
<1> QED BY <1>2, <1>3, <1>4, <1>5

\* Blanks after a text are trimmed.
LEMMA EndJoin ==
  ASSUME NEW a \in Text, NEW b \in Text, Closed(a), Blanks(b)
  PROVE  TrimEnd(a \o b, Blank) = a
<1> DEFINE t == a \o b
<1>1. Len(a) \in Nat /\ Len(b) \in Nat /\ (a = <<>> <=> Len(a) = 0)
  BY TextIs
<1>2. /\ t \in Text /\ Len(t) = Len(a) + Len(b)
      /\ \A i \in 1..Len(a) : t[i] = a[i]
      /\ \A i \in 1..Len(b) : t[Len(a) + i] = b[i]
  BY JoinIs
<1>3. SubSeq(t, 1, Len(a)) = a
  BY JoinCut
<1> HIDE DEF t
<1>4. Ends(t, Blank, Len(a))
  <2>1. ASSUME NEW i \in (Len(a) + 1)..Len(t) PROVE t[i] \in Blank
    <3> DEFINE j == i - Len(a)
    <3>1. j \in 1..Len(b) /\ Len(a) + j = i
      BY <1>1, <1>2
    <3> HIDE DEF j
    <3> QED BY <1>2, <3>1 DEF Blanks
  <2>2. Len(a) > 0 => t[Len(a)] \notin Blank
    <3>1. Len(a) > 0 => a # <<>> /\ Len(a) \in 1..Len(a)
      BY <1>1
    <3> QED BY <1>2, <3>1 DEF Closed
  <2>3. Len(a) \in 0..Len(t)
    BY <1>1, <1>2
  <2> QED BY <2>1, <2>2, <2>3 DEF Ends
<1>5. TrimEnd(t, Blank) = a
  BY <1>2, <1>3, <1>4, TrimEndIs
<1> QED BY <1>5 DEF t

LEMMA EndSplit ==
  ASSUME NEW t \in Text
  PROVE  \E a, b \in Text : t = a \o b /\ Closed(a) /\ Blanks(b) /\ (Clean(t) /\ t # <<>> => a # <<>>)
<1>1. PICK k \in 0..Len(t) : Ends(t, Blank, k)
  BY EndExists
<1> DEFINE a == SubSeq(t, 1, k)
           b == SubSeq(t, k + 1, Len(t))
<1>2. /\ a \in Text /\ Len(a) = k /\ \A i \in 1..k : a[i] = t[i]
      /\ b \in Text /\ Len(b) = Len(t) - k /\ \A i \in 1..Len(t) - k : b[i] = t[k + i]
      /\ t = a \o b
  BY SplitIs
<1> HIDE DEF a, b
<1>3. Len(t) \in Nat
  BY TextIs
<1>4. Closed(a)
  <2>1. a # <<>> => k > 0 /\ k \in 1..k
    BY <1>2, <1>3, TextIs
  <2> QED BY <1>1, <1>2, <2>1 DEF Closed, Ends
<1>5. Blanks(b)
  <2>1. \A i \in 1..Len(t) - k : k + i \in (k + 1)..Len(t)
    BY <1>3
  <2> QED BY <1>1, <1>2, <2>1 DEF Blanks, Ends
<1>6. ASSUME Clean(t), t # <<>> PROVE a # <<>>
  <2>1. Len(t) > 0
    BY <1>3, <1>6, TextIs
  <2>2. k # 0
    <3>1. k = 0 => 1 \in (k + 1)..Len(t)
      BY <1>3, <2>1
    <3> QED BY <1>1, <1>6, <3>1 DEF Ends, Clean
  <2> QED BY <1>2, <2>2, TextIs
<1> QED BY <1>2, <1>4, <1>5, <1>6

-----------------------------------------------------------------------------
(* parse_args: what is left of the line after each argument.               *)

\* What may be written for an argument.
Fits(arg, t) ==
    t \in Text /\ t # <<>> /\ Clean(t) /\ Closed(t) /\ (~arg.rest => NoBlanks(t))

\* What may come after it.
Follows(arg, t) == t \in Text /\ IF arg.rest THEN Blanks(t) ELSE Stops(t)

LEMMA WordIsClosed ==
  ASSUME NEW t \in Text, NoBlanks(t)
  PROVE  Clean(t) /\ Closed(t)
<1>1. t # <<>> => 1 \in 1..Len(t) /\ Len(t) \in 1..Len(t)
  BY TextIs
<1> QED BY <1>1 DEF NoBlanks, Clean, Closed

LEMMA TakenJoin ==
  ASSUME NEW arg, NEW t, Fits(arg, t), NEW b, Follows(arg, b)
  PROVE  /\ Taken(arg, t \o b) = t
         /\ Left(arg, t \o b) = IF arg.rest THEN <<>> ELSE TrimStart(b, Blank)
<1>1. t \in Text /\ b \in Text
  BY DEF Fits, Follows
<1>2. CASE arg.rest
  <2>1. TrimEnd(t \o b, Blank) = t
    BY <1>1, <1>2, EndJoin DEF Fits, Follows
  <2> QED BY <1>2, <2>1 DEF Taken, Left
<1>3. CASE ~arg.rest
  <2>1. /\ WordLen(t \o b) = Len(t) /\ SubSeq(t \o b, 1, Len(t)) = t
        /\ SubSeq(t \o b, Len(t) + 1, Len(t \o b)) = b
    BY <1>1, <1>3, WordJoin DEF Fits, Follows
  <2> QED BY <1>3, <2>1 DEF Taken, Left
<1> QED BY <1>2, <1>3

LEMMA TakenSplit ==
  ASSUME NEW arg, NEW c \in Text, Clean(c), c # <<>>
  PROVE  \E t, b : c = t \o b /\ Fits(arg, t) /\ Follows(arg, b)
<1>1. CASE arg.rest
  <2>1. PICK a \in Text, b \in Text : c = a \o b /\ Closed(a) /\ Blanks(b) /\ a # <<>>
    BY EndSplit
  <2>2. c[1] = a[1]
    BY <2>1, FirstOfJoin
  <2>3. Clean(a)
    BY <2>2 DEF Clean
  <2>4. Fits(arg, a) /\ Follows(arg, b)
    BY <1>1, <2>1, <2>3 DEF Fits, Follows
  <2> QED BY <2>1, <2>4
<1>2. CASE ~arg.rest
  <2>1. PICK a \in Text, b \in Text : c = a \o b /\ NoBlanks(a) /\ Stops(b) /\ a # <<>>
    BY WordSplit
  <2>2. Fits(arg, a) /\ Follows(arg, b)
    BY <1>2, <2>1, WordIsClosed DEF Fits, Follows
  <2> QED BY <2>1, <2>2
<1> QED BY <1>1, <1>2

LEMMA TrimType ==
  ASSUME NEW t \in Text
  PROVE  TrimStart(t, Blank) \in Text /\ Clean(TrimStart(t, Blank))
BY TrimSplit

LEMMA TrimClean ==
  ASSUME NEW t \in Text, Clean(t)
  PROVE  TrimStart(t, Blank) = t
<1>1. <<>> \in Text /\ Blanks(<<>>) /\ <<>> \o t = t
  BY EmptyJoin
<1>2. TrimStart(<<>> \o t, Blank) = t
  BY <1>1, TrimJoin
<1> QED BY <1>1, <1>2

LEMMA TrimBlanks ==
  ASSUME NEW t \in Text, Blanks(t)
  PROVE  TrimStart(t, Blank) = <<>>
<1>1. <<>> \in Text /\ Clean(<<>>) /\ t \o <<>> = t
  BY EmptyJoin
<1>2. TrimStart(t \o <<>>, Blank) = <<>>
  BY <1>1, TrimJoin
<1> QED BY <1>1, <1>2

LEMMA LeftEmpty ==
  ASSUME NEW arg
  PROVE  Left(arg, <<>>) = <<>>
<1>1. CASE arg.rest
  BY <1>1 DEF Left
<1>2. CASE ~arg.rest
  <2>1. <<>> \in Text /\ Len(<<>>) = 0 /\ <<>> \o <<>> = <<>> /\ NoBlanks(<<>>) /\ Stops(<<>>) /\ Clean(<<>>)
    BY NoChars, EmptyJoin
  <2>2. SubSeq(<<>>, WordLen(<<>>) + 1, Len(<<>>)) = <<>>
    <3>1. WordLen(<<>> \o <<>>) = Len(<<>>)
      BY <2>1, WordJoin
    <3>2. SubSeq(<<>> \o <<>>, Len(<<>>) + 1, Len(<<>> \o <<>>)) = <<>>
      BY <2>1, WordJoin
    <3> QED BY <2>1, <3>1, <3>2
  <2>3. TrimStart(<<>>, Blank) = <<>>
    BY <2>1, TrimClean
  <2> QED BY <1>2, <2>2, <2>3 DEF Left
<1> QED BY <1>1, <1>2

LEMMA LeftType ==
  ASSUME NEW arg, NEW c \in Text, Clean(c)
  PROVE  Left(arg, c) \in Text /\ Clean(Left(arg, c))
<1>1. <<>> \in Text /\ Clean(<<>>)
  BY NoChars, EmptyJoin
<1>2. CASE c = <<>>
  BY <1>1, <1>2, LeftEmpty
<1>3. CASE c # <<>>
  <2>1. PICK t, b : c = t \o b /\ Fits(arg, t) /\ Follows(arg, b)
    BY <1>3, TakenSplit
  <2>2. Left(arg, c) = IF arg.rest THEN <<>> ELSE TrimStart(b, Blank)
    BY <2>1, TakenJoin
  <2>3. b \in Text
    BY <2>1 DEF Follows
  <2> QED BY <1>1, <2>2, <2>3, TrimType
<1> QED BY <1>2, <1>3

\* Texts that start with no blank.
Cleans == {t \in Text : Clean(t)}

LEMMA CursorsAre ==
  ASSUME NEW args, Len(args) \in Nat, NEW rest \in Text
  PROVE  /\ Cursors(args, rest) \in [0..Len(args) -> Cleans]
         /\ Cursors(args, rest)[0] = TrimStart(rest, Blank)
         /\ \A i \in 1..Len(args) :
                Cursors(args, rest)[i] = Left(args[i], Cursors(args, rest)[i - 1])
<1> DEFINE m == Len(args)
           a == TrimStart(rest, Blank)
           G == [i \in 1..m |-> [c \in Cleans |-> Left(args[i], c)]]
           Runs(f) == f = [i \in 0..m |-> IF i = 0 THEN a ELSE Left(args[i], f[i - 1])]
           cursor == CHOOSE f : Runs(f)
<1>1. m \in Nat /\ a \in Cleans
  BY TrimType DEF Cleans
<1>2. \A i \in 1..m : \A c \in Cleans : Left(args[i], c) \in Cleans
  BY LeftType DEF Cleans
<1>3. G \in [1..m -> [Cleans -> Cleans]]
  BY <1>2
<1>4. PICK f \in [0..m -> Cleans] : Takes(f, a, G, m)
  <2> HIDE DEF m, a, G
  <2> QED BY <1>1, <1>3, StepsExist
<1>5. f[0] = a /\ \A i \in 1..m : f[i] = Left(args[i], f[i - 1])
  <2>1. \A i \in 1..m : i - 1 \in 0..m
    BY <1>1
  <2>2. \A i \in 1..m : f[i - 1] \in Cleans
    BY <2>1
  <2>3. \A i \in 1..m : \A c \in Cleans : G[i][c] = Left(args[i], c)
    OBVIOUS
  <2> HIDE DEF m, a, G
  <2> QED BY <1>4, <2>2, <2>3 DEF Takes
<1>6. Runs(f)
  <2> HIDE DEF m, a
  <2>1. \A i \in 0..m : f[i] = IF i = 0 THEN a ELSE Left(args[i], f[i - 1])
    BY <1>1, <1>5
  <2>2. f = [i \in 0..m |-> f[i]]
    OBVIOUS
  <2> QED BY <2>1, <2>2
<1>7. Runs(cursor)
  <2> HIDE DEF Runs
  <2> QED BY <1>6
<1>8. Cursors(args, rest) = cursor
  BY DEF Cursors
<1> HIDE DEF cursor
<1>9. \A i \in 0..m : cursor[i] = IF i = 0 THEN a ELSE Left(args[i], cursor[i - 1])
  <2> HIDE DEF m, a
  <2> QED BY <1>7
<1>10. cursor[0] = a /\ \A i \in 1..m : cursor[i] = Left(args[i], cursor[i - 1])
  <2>1. 0 \in 0..m /\ \A i \in 1..m : i \in 0..m /\ i # 0
    BY <1>1
  <2> HIDE DEF m, a
  <2> QED BY <1>9, <2>1
<1> HIDE DEF m, a, G, Runs
<1> DEFINE D == {i \in 0..m : cursor[i] \notin Cleans}
<1>11. D = {}
  <2> SUFFICES ASSUME D # {} PROVE FALSE
    OBVIOUS
  <2>1. D \in SUBSET Nat
    BY <1>1
  <2>2. PICK n \in D : \A k \in D : n <= k
    <3> HIDE DEF D
    <3> QED BY <2>1, LeastNumber
  <2>3. n \in 0..m /\ n # 0
    BY <1>1, <1>10
  <2>4. n \in 1..m /\ n - 1 \in 0..m /\ ~(n <= n - 1)
    BY <1>1, <2>3
  <2>5. cursor[n - 1] \in Cleans
    BY <2>2, <2>4
  <2> QED BY <1>2, <1>10, <2>4, <2>5
<1>12. cursor \in [0..m -> Cleans]
  <2>1. cursor = [i \in 0..m |-> cursor[i]]
    <3>1. cursor = [i \in 0..m |-> IF i = 0 THEN a ELSE Left(args[i], cursor[i - 1])]
      BY <1>7 DEF Runs
    <3> QED BY <3>1
  <2> QED BY <1>11, <2>1
<1> QED BY <1>8, <1>10, <1>12 DEF m, a

\* The first k arguments are given.
Given(d, c, k) ==
    /\ k \in 0..Len(d.args)
    /\ \A i \in 1..Len(d.args) : c[i - 1] # <<>> <=> i <= k

\* What comes of the i-th argument.
ValuesAt(d, c, i) == ParseValue(d.args[i], Taken(d.args[i], c[i - 1]))

Refused(d, rest, c, k) ==
    \/ Len(rest) > MaxLineChars
    \/ k < Len(d.args) /\ d.args[k + 1].required
    \/ \E i \in 1..k : ValuesAt(d, c, i) = {}
    \/ c[Len(d.args)] # <<>>

Parsed(d, c, k) ==
    [i \in 1..k |-> [name |-> d.args[i].name, value |-> CHOOSE v \in ValuesAt(d, c, i) : TRUE]]

LEMMA GivenExists ==
  ASSUME NEW d, Len(d.args) \in Nat, NEW rest \in Text
  PROVE  \E k : Given(d, Cursors(d.args, rest), k)
<1> DEFINE m == Len(d.args)
           c == Cursors(d.args, rest)
           D == {i \in 0..m : c[i] = <<>>}
<1>1. m \in Nat /\ \A i \in 1..m : c[i] = Left(d.args[i], c[i - 1])
  BY CursorsAre
<1> HIDE DEF c, m
<1>2. CASE D = {}
  <2>1. \A i \in 1..m : i - 1 \in 0..m /\ i <= m
    BY <1>1
  <2>2. \A i \in 1..m : c[i - 1] # <<>> /\ i <= m
    BY <1>2, <2>1
  <2>3. Given(d, c, m)
    BY <1>1, <2>2 DEF Given, m
  <2> QED BY <2>3 DEF c
<1>3. CASE D # {}
  <2>1. D \in SUBSET Nat
    BY <1>1
  <2>2. PICK k \in D : \A i \in D : k <= i
    <3> HIDE DEF D
    <3> QED BY <1>3, <2>1, LeastNumber
  <2>3. k \in 0..m /\ c[k] = <<>>
    OBVIOUS
  <2>4. ASSUME NEW i \in 1..m, i <= k PROVE c[i - 1] # <<>>
    <3>1. i - 1 \in 0..m /\ ~(k <= i - 1)
      BY <1>1, <2>3, <2>4
    <3> QED BY <2>2, <3>1
  <2> DEFINE E == {i \in 0..m : i >= k /\ c[i] # <<>>}
  <2>5. E = {}
    <3> SUFFICES ASSUME E # {} PROVE FALSE
      OBVIOUS
    <3>1. E \in SUBSET Nat
      BY <1>1
    <3>2. PICK n \in E : \A i \in E : n <= i
      <4> HIDE DEF E
      <4> QED BY <3>1, LeastNumber
    <3>3. n \in 0..m /\ n >= k /\ c[n] # <<>> /\ n # k
      BY <2>3
    <3>4. n \in 1..m /\ n - 1 \in 0..m /\ n - 1 >= k /\ ~(n <= n - 1)
      BY <1>1, <2>3, <3>3
    <3>5. c[n - 1] = <<>>
      BY <3>2, <3>4
    <3>6. c[n] = <<>>
      BY <1>1, <3>4, <3>5, LeftEmpty
    <3> QED BY <3>3, <3>6
  <2>6. ASSUME NEW i \in 1..m, ~(i <= k) PROVE c[i - 1] = <<>>
    <3>1. i - 1 \in 0..m /\ i - 1 >= k
      BY <1>1, <2>3, <2>6
    <3> QED BY <2>5, <3>1
  <2>7. Given(d, c, k)
    BY <2>3, <2>4, <2>6 DEF Given, m
  <2> QED BY <2>7 DEF c
<1> QED BY <1>2, <1>3

LEMMA ParseArgsIs ==
  ASSUME NEW d, Len(d.args) \in Nat, NEW rest, NEW k, Given(d, Cursors(d.args, rest), k)
  PROVE  ParseArgs(d, rest) =
             IF Refused(d, rest, Cursors(d.args, rest), k) THEN {}
             ELSE {Parsed(d, Cursors(d.args, rest), k)}
<1> DEFINE m == Len(d.args)
           c == Cursors(d.args, rest)
           given == {i \in 1..m : c[i - 1] # <<>>}
           parsed == [i \in given |-> ParseValue(d.args[i], Taken(d.args[i], c[i - 1]))]
           stuck == \E i \in 1..m : i \notin given /\ i - 1 \in given \union {0} /\ d.args[i].required
           bad == \/ Len(rest) > MaxLineChars
                  \/ stuck
                  \/ \E i \in given : parsed[i] = {}
                  \/ c[m] # <<>>
           all == [i \in given |-> [name |-> d.args[i].name, value |-> CHOOSE v \in parsed[i] : TRUE]]
<1>1. ParseArgs(d, rest) = IF bad THEN {} ELSE {all}
  BY DEF ParseArgs
<1>2. m \in Nat /\ k \in 0..m /\ \A i \in 1..m : c[i - 1] # <<>> <=> i <= k
  BY DEF Given
<1>3. given = 1..k
  <2> HIDE DEF m, c
  <2> QED BY <1>2
<1>4. \A i \in 1..k : parsed[i] = ValuesAt(d, c, i)
  <2>1. \A i \in given : parsed[i] = ValuesAt(d, c, i)
    BY DEF ValuesAt
  <2> HIDE DEF given, parsed
  <2> QED BY <1>3, <2>1
<1> HIDE DEF c, m, given, parsed
<1>5. stuck <=> k < m /\ d.args[k + 1].required
  <2>1. ASSUME stuck PROVE k < m /\ d.args[k + 1].required
    <3>1. PICK i \in 1..m : i \notin 1..k /\ i - 1 \in (1..k) \union {0} /\ d.args[i].required
      BY <1>3, <2>1
    <3>2. i = k + 1 /\ k < m
      BY <1>2, <3>1
    <3> QED BY <3>1, <3>2
  <2>2. ASSUME k < m, d.args[k + 1].required PROVE stuck
    <3>1. k + 1 \in 1..m /\ k + 1 \notin 1..k /\ (k + 1) - 1 \in (1..k) \union {0}
      BY <1>2, <2>2
    <3> QED BY <1>3, <2>2, <3>1
  <2> QED BY <2>1, <2>2
<1> HIDE DEF stuck
<1>6. bad <=> Refused(d, rest, c, k)
  BY <1>3, <1>4, <1>5 DEF Refused, m
<1>7. all = Parsed(d, c, k)
  BY <1>3, <1>4 DEF Parsed
<1> HIDE DEF bad, all
<1> QED BY <1>1, <1>6, <1>7 DEF c

-----------------------------------------------------------------------------
(* The line with blanks around it.                                         *)

Pad(t) == IF t = <<>> THEN <<>> ELSE t \o <<32>>

LEMMA OneBlank ==
  /\ <<32>> \in Text /\ <<32>> # <<>> /\ Len(<<32>>) = 1 /\ Blanks(<<32>>) /\ Stops(<<32>>)
  /\ <<9>> \in Text /\ <<9>> # <<>> /\ Len(<<9>>) = 1 /\ Blanks(<<9>>)
<1>1. /\ <<32>> \in Text /\ Len(<<32>>) = 1 /\ <<32>>[1] = 32
      /\ <<9>> \in Text /\ Len(<<9>>) = 1 /\ <<9>>[1] = 9
  BY OneChar
<1>2. 32 \in Blank /\ 9 \in Blank
  BY DEF Blank
<1>3. <<32>> # <<>> /\ <<9>> # <<>>
  BY <1>1, TextIs
<1>4. \A i \in 1..1 : i = 1
  OBVIOUS
<1> QED BY <1>1, <1>2, <1>3, <1>4 DEF Blanks, Stops

LEMMA PadTrim ==
  ASSUME NEW t \in Text
  PROVE  TrimStart(t \o <<32>>, Blank) = Pad(TrimStart(t, Blank))
<1> DEFINE s == <<32>>
<1>1. s \in Text /\ Blanks(s)
  BY OneBlank
<1> HIDE DEF s
<1>2. PICK a \in Text, b \in Text : t = a \o b /\ Blanks(a) /\ Clean(b) /\ TrimStart(t, Blank) = b
  BY TrimSplit
<1>3. t \o s = a \o (b \o s)
  BY <1>1, <1>2, JoinAssoc
<1>4. CASE b = <<>>
  <2>1. b \o s = s
    BY <1>1, <1>4, EmptyJoin
  <2>2. Blanks(a \o s) /\ a \o s \in Text
    BY <1>1, <1>2, BlanksJoin, JoinIs
  <2>3. TrimStart(a \o s, Blank) = <<>>
    BY <2>2, TrimBlanks
  <2> QED BY <1>2, <1>3, <1>4, <2>1, <2>3 DEF Pad, s
<1>5. CASE b # <<>>
  <2>1. Clean(b \o s) /\ b \o s \in Text
    BY <1>1, <1>2, <1>5, CleanJoin, JoinIs
  <2>2. TrimStart(a \o (b \o s), Blank) = b \o s
    BY <1>2, <2>1, TrimJoin
  <2> QED BY <1>2, <1>3, <1>5, <2>2 DEF Pad, s
<1> QED BY <1>4, <1>5

LEMMA PadLeft ==
  ASSUME NEW arg, NEW c \in Cleans
  PROVE  /\ Left(arg, Pad(c)) = Pad(Left(arg, c))
         /\ c # <<>> => Taken(arg, Pad(c)) = Taken(arg, c)
<1> DEFINE s == <<32>>
<1>1. s \in Text /\ Blanks(s) /\ Stops(s) /\ c \in Text /\ Clean(c)
  BY OneBlank DEF Cleans
<1>2. CASE c = <<>>
  BY <1>2, LeftEmpty DEF Pad
<1>3. CASE c # <<>>
  <2> HIDE DEF s
  <2>1. PICK t, b : c = t \o b /\ Fits(arg, t) /\ Follows(arg, b)
    BY <1>1, <1>3, TakenSplit
  <2>2. t \in Text /\ b \in Text
    BY <2>1 DEF Fits, Follows
  <2>3. c \o s = t \o (b \o s)
    BY <1>1, <2>1, <2>2, JoinAssoc
  <2>4. Follows(arg, b \o s)
    <3>1. b \o s \in Text
      BY <1>1, <2>2, JoinIs
    <3>2. CASE arg.rest
      BY <1>1, <2>1, <2>2, <3>1, <3>2, BlanksJoin DEF Follows
    <3>3. CASE ~arg.rest
      <4>1. b = <<>> => b \o s = s
        BY <1>1, EmptyJoin
      <4>2. Stops(b)
        BY <2>1, <3>3 DEF Follows
      <4>3. Stops(b \o s)
        BY <1>1, <2>2, <4>1, <4>2, StopsJoin
      <4> QED BY <3>1, <3>3, <4>3 DEF Follows
    <3> QED BY <3>2, <3>3
  <2>5. Taken(arg, c) = t /\ Left(arg, c) = IF arg.rest THEN <<>> ELSE TrimStart(b, Blank)
    BY <2>1, TakenJoin
  <2>6. /\ Taken(arg, t \o (b \o s)) = t
        /\ Left(arg, t \o (b \o s)) = IF arg.rest THEN <<>> ELSE TrimStart(b \o s, Blank)
    BY <2>1, <2>4, TakenJoin
  <2>7. TrimStart(b \o s, Blank) = Pad(TrimStart(b, Blank))
    BY <2>2, PadTrim DEF s
  <2>8. Pad(c) = c \o s /\ Pad(<<>>) = <<>>
    BY <1>3 DEF Pad, s
  <2>9. Left(arg, c \o s) = Pad(Left(arg, c))
    BY <2>3, <2>5, <2>6, <2>7, <2>8
  <2> QED BY <2>3, <2>5, <2>6, <2>8, <2>9
<1> QED BY <1>2, <1>3

LEMMA PadCursors ==
  ASSUME NEW args, Len(args) \in Nat, NEW rest \in Text, NEW i \in 0..Len(args)
  PROVE  Cursors(args, <<9>> \o rest \o <<32>>)[i] = Pad(Cursors(args, rest)[i])
<1> DEFINE m == Len(args)
           tab == <<9>>
           s == <<32>>
           more == tab \o rest \o s
           c == Cursors(args, rest)
           e == Cursors(args, more)
<1>1. tab \in Text /\ s \in Text /\ Blanks(tab)
  BY OneBlank
<1> HIDE DEF tab
<1>2. more \in Text /\ more = tab \o (rest \o s) /\ rest \o s \in Text
  <2> HIDE DEF s
  <2>1. tab \o rest \in Text /\ rest \o s \in Text
    BY <1>1, JoinIs
  <2>2. (tab \o rest) \o s \in Text
    BY <1>1, <2>1, JoinIs
  <2>3. (tab \o rest) \o s = tab \o (rest \o s)
    BY <1>1, JoinAssoc
  <2> QED BY <2>1, <2>2, <2>3
<1>3. TrimStart(more, Blank) = Pad(TrimStart(rest, Blank))
  <2>1. TrimStart(rest \o s, Blank) = Pad(TrimStart(rest, Blank))
    BY PadTrim
  <2> HIDE DEF s, more
  <2>2. PICK a \in Text, b \in Text :
            rest \o s = a \o b /\ Blanks(a) /\ Clean(b) /\ TrimStart(rest \o s, Blank) = b
    BY <1>2, TrimSplit
  <2>3. more = (tab \o a) \o b
    <3>1. (tab \o a) \o b = tab \o (a \o b)
      BY <1>1, JoinAssoc
    <3>2. more = tab \o (a \o b)
      BY <1>2, <2>2
    <3> QED BY <3>1, <3>2
  <2>4. Blanks(tab \o a) /\ tab \o a \in Text
    BY <1>1, <2>2, BlanksJoin, JoinIs
  <2>5. TrimStart((tab \o a) \o b, Blank) = b
    BY <2>2, <2>4, TrimJoin
  <2> QED BY <2>1, <2>2, <2>3, <2>5
<1> HIDE DEF more
<1>4. c \in [0..m -> Cleans] /\ c[0] = TrimStart(rest, Blank)
      /\ \A j \in 1..m : c[j] = Left(args[j], c[j - 1])
  BY CursorsAre
<1>5. e[0] = TrimStart(more, Blank) /\ \A j \in 1..m : e[j] = Left(args[j], e[j - 1])
  BY <1>2, CursorsAre
<1>6. m \in Nat /\ i \in 0..m
  OBVIOUS
<1> HIDE DEF c, e, m
<1> DEFINE D == {j \in 0..m : e[j] # Pad(c[j])}
<1>7. D = {}
  <2> SUFFICES ASSUME D # {} PROVE FALSE
    OBVIOUS
  <2>1. D \in SUBSET Nat
    BY <1>6
  <2>2. PICK n \in D : \A j \in D : n <= j
    <3> HIDE DEF D
    <3> QED BY <2>1, LeastNumber
  <2>3. n \in 0..m /\ n # 0
    BY <1>3, <1>4, <1>5
  <2>4. n \in 1..m /\ n - 1 \in 0..m /\ ~(n <= n - 1)
    BY <1>6, <2>3
  <2>5. e[n - 1] = Pad(c[n - 1]) /\ c[n - 1] \in Cleans
    BY <1>4, <2>2, <2>4
  <2>6. Left(args[n], Pad(c[n - 1])) = Pad(Left(args[n], c[n - 1]))
    BY <2>5, PadLeft
  <2>7. e[n] = Pad(c[n])
    BY <1>4, <1>5, <2>4, <2>5, <2>6
  <2> QED BY <2>7
<1>8. e[i] = Pad(c[i])
  BY <1>6, <1>7
<1> QED BY <1>8 DEF c, e, more, tab, s

LEMMA PaddedArgs ==
  ASSUME NEW d, Len(d.args) \in Nat, NEW rest \in Text, Len(rest) + 2 <= MaxLineChars
  PROVE  ParseArgs(d, <<9>> \o rest \o <<32>>) = ParseArgs(d, rest)
<1> DEFINE m == Len(d.args)
           more == <<9>> \o rest \o <<32>>
           c == Cursors(d.args, rest)
           e == Cursors(d.args, more)
<1>1. m \in Nat /\ \A i \in 0..m : e[i] = Pad(c[i]) /\ c[i] \in Cleans
  BY CursorsAre, PadCursors
<1>2. Len(rest) \in Nat /\ Len(more) = Len(rest) + 2 /\ MaxLineChars \in Nat
  <2> DEFINE tab == <<9>>
             s == <<32>>
  <2>1. tab \in Text /\ s \in Text /\ Len(tab) = 1 /\ Len(s) = 1 /\ Len(rest) \in Nat
    BY OneBlank, TextIs
  <2> HIDE DEF tab, s
  <2>2. tab \o rest \in Text /\ Len(tab \o rest) = 1 + Len(rest)
    <3>1. tab \o rest \in Text /\ Len(tab \o rest) = Len(tab) + Len(rest)
      BY <2>1, JoinIs
    <3> QED BY <2>1, <3>1
  <2>3. Len((tab \o rest) \o s) = (1 + Len(rest)) + 1
    BY <2>1, <2>2, JoinIs
  <2> QED BY <2>1, <2>3 DEF MaxLineChars, tab, s
<1>3. \A t \in Text : Pad(t) = <<>> <=> t = <<>>
  <2>1. \A t \in Text : t # <<>> => t \o <<32>> # <<>>
    BY OneBlank, FirstOfJoin
  <2> QED BY <2>1 DEF Pad
<1>4. PICK k : Given(d, c, k)
  BY GivenExists
<1> HIDE DEF c, e, more
<1>5. \A i \in 0..m : e[i] # <<>> <=> c[i] # <<>>
  BY <1>1, <1>3 DEF Cleans
<1>6. k \in 0..m /\ \A i \in 1..m : c[i - 1] # <<>> <=> i <= k
  BY <1>4 DEF Given
<1>7. Given(d, e, k)
  <2>1. \A i \in 1..m : i - 1 \in 0..m
    BY <1>1
  <2> QED BY <1>5, <1>6, <2>1 DEF Given
<1>8. ASSUME NEW i \in 1..k PROVE ValuesAt(d, e, i) = ValuesAt(d, c, i)
  <2>1. i \in 1..m /\ i - 1 \in 0..m /\ i <= k
    BY <1>1, <1>6
  <2>2. c[i - 1] # <<>> /\ c[i - 1] \in Cleans /\ e[i - 1] = Pad(c[i - 1])
    BY <1>1, <1>6, <2>1
  <2>3. Taken(d.args[i], e[i - 1]) = Taken(d.args[i], c[i - 1])
    BY <2>2, PadLeft
  <2> QED BY <2>3 DEF ValuesAt
<1>9. Refused(d, more, e, k) <=> Refused(d, rest, c, k)
  <2>1. m \in 0..m
    BY <1>1
  <2>2. ~(Len(more) > MaxLineChars) /\ ~(Len(rest) > MaxLineChars)
    BY <1>2
  <2> QED BY <1>5, <1>8, <2>1, <2>2 DEF Refused
<1>10. Parsed(d, e, k) = Parsed(d, c, k)
  BY <1>8 DEF Parsed
<1>11. ParseArgs(d, more) = IF Refused(d, more, e, k) THEN {} ELSE {Parsed(d, e, k)}
  BY <1>7, ParseArgsIs DEF e
<1>12. ParseArgs(d, rest) = IF Refused(d, rest, c, k) THEN {} ELSE {Parsed(d, c, k)}
  BY <1>4, ParseArgsIs DEF c
<1> QED BY <1>9, <1>10, <1>11, <1>12 DEF more

-----------------------------------------------------------------------------
(* Whole numbers and their digits.                                         *)

Digits10(t) == \A i \in 1..Len(t) : t[i] \in Digit

Numbering(f, t) ==
    f = [i \in 0..Len(t) |-> IF i = 0 THEN 0 ELSE 10 * f[i - 1] + (t[i] - 48)]

LEMMA DigitAdded ==
  ASSUME NEW x \in Nat, NEW c \in Int, c - 48 \in 0..9
  PROVE  /\ 10 * x + (c - 48) \in Nat /\ x <= 10 * x + (c - 48)
         /\ 10 * 0 + (c - 48) = c - 48 /\ c - 48 < 10 /\ 48 + (c - 48) = c
         /\ c # 48 => c - 48 > 0
OBVIOUS

LEMMA NaturalIs ==
  ASSUME NEW t \in Text, Digits10(t)
  PROVE  \E f \in [0..Len(t) -> Nat] :
             /\ f[0] = 0 /\ \A i \in 1..Len(t) : f[i] = 10 * f[i - 1] + (t[i] - 48)
             /\ NaturalOf(t) = f[Len(t)]
<1> DEFINE m == Len(t)
           G == [i \in 1..m |-> [x \in Nat |-> 10 * x + (t[i] - 48)]]
           value == CHOOSE f : Numbering(f, t)
<1>1. m \in Nat
  BY TextIs
<1>2. \A i \in 1..m : t[i] - 48 \in 0..9 /\ t[i] \in Int
  BY DEF Digits10, Digit
<1>3. \A i \in 1..m : \A x \in Nat : 10 * x + (t[i] - 48) \in Nat
  BY <1>2, DigitAdded
<1>4. G \in [1..m -> [Nat -> Nat]]
  BY <1>3
<1>5. PICK f \in [0..m -> Nat] : Takes(f, 0, G, m)
  <2> HIDE DEF m, G
  <2> QED BY <1>1, <1>4, StepsExist
<1>6. f[0] = 0 /\ \A i \in 1..m : f[i] = 10 * f[i - 1] + (t[i] - 48)
  <2>1. \A i \in 1..m : i - 1 \in 0..m
    BY <1>1
  <2>2. \A i \in 1..m : f[i - 1] \in Nat
    BY <2>1
  <2>3. \A i \in 1..m : \A x \in Nat : G[i][x] = 10 * x + (t[i] - 48)
    OBVIOUS
  <2> HIDE DEF m, G
  <2> QED BY <1>5, <2>2, <2>3 DEF Takes
<1>7. Numbering(f, t)
  <2>1. \A i \in 0..m : f[i] = IF i = 0 THEN 0 ELSE 10 * f[i - 1] + (t[i] - 48)
    <3> HIDE DEF m
    <3> QED BY <1>1, <1>6
  <2>2. f = [i \in 0..m |-> f[i]]
    OBVIOUS
  <2> QED BY <2>1, <2>2 DEF Numbering
<1>8. Numbering(value, t)
  BY <1>7
<1>9. NaturalOf(t) = value[m]
  BY DEF NaturalOf, Numbering
<1> HIDE DEF value, G
<1>10. \A i \in 0..m : value[i] = IF i = 0 THEN 0 ELSE 10 * value[i - 1] + (t[i] - 48)
  BY <1>8 DEF Numbering
<1>11. value = [i \in 0..m |-> value[i]]
  <2>1. value = [i \in 0..m |-> IF i = 0 THEN 0 ELSE 10 * value[i - 1] + (t[i] - 48)]
    BY <1>8 DEF Numbering
  <2> QED BY <2>1
<1> HIDE DEF m
<1> DEFINE D == {i \in 0..m : value[i] # f[i]}
<1>12. D = {}
  <2> SUFFICES ASSUME D # {} PROVE FALSE
    OBVIOUS
  <2>1. D \in SUBSET Nat
    BY <1>1
  <2>2. PICK n \in D : \A k \in D : n <= k
    <3> HIDE DEF D
    <3> QED BY <2>1, LeastNumber
  <2>3. n \in 0..m /\ n # 0
    <3>1. 0 \in 0..m
      BY <1>1
    <3> QED BY <1>6, <1>10, <3>1
  <2>4. n \in 1..m /\ n - 1 \in 0..m /\ ~(n <= n - 1)
    BY <1>1, <2>3
  <2>5. value[n - 1] = f[n - 1]
    BY <2>2, <2>4
  <2> QED BY <1>6, <1>10, <2>3, <2>4, <2>5
<1>13. value = f
  BY <1>11, <1>12
<1> QED BY <1>5, <1>6, <1>9, <1>13 DEF m

Decimals(f, n) ==
    f = [k \in 0..n |-> IF k < 10 THEN <<48 + k>> ELSE Append(f[k \div 10], 48 + (k % 10))]

LEMMA DecimalsExist ==
  ASSUME NEW m \in Nat
  PROVE  \E f : Decimals(f, m)
<1> DEFINE D == {k \in 0..m : ~ \E f : Decimals(f, k)}
<1>1. CASE D = {}
  <2>1. m \in 0..m
    OBVIOUS
  <2> QED BY <1>1, <2>1
<1>2. CASE D # {}
  <2>1. D \in SUBSET Nat
    OBVIOUS
  <2>2. PICK n \in D : \A k \in D : n <= k
    <3> HIDE DEF D
    <3> QED BY <1>2, <2>1, LeastNumber
  <2>3. n \in 0..m /\ n \in Nat
    OBVIOUS
  <2>4. CASE n = 0
    <3> DEFINE f == [k \in 0..n |-> <<48 + k>>]
    <3>1. \A k \in 0..n : k < 10
      BY <2>4
    <3>2. Decimals(f, n)
      BY <3>1 DEF Decimals
    <3> HIDE DEF f
    <3> QED BY <3>2
  <2>5. CASE n # 0
    <3>1. n - 1 \in 0..m /\ ~(n <= n - 1)
      BY <2>3, <2>5
    <3>2. PICK g : Decimals(g, n - 1)
      <4>1. n - 1 \notin D
        BY <2>2, <3>1
      <4> QED BY <3>1, <4>1
    <3> DEFINE next(k, f) == IF k < 10 THEN <<48 + k>> ELSE Append(f[k \div 10], 48 + (k % 10))
               h == [k \in 0..n |-> next(k, g)]
    <3>3. \A k \in 0..(n - 1) : g[k] = next(k, g)
      BY <3>2 DEF Decimals
    <3>4. \A k \in 0..(n - 1) : h[k] = g[k]
      <4>1. \A k \in 0..(n - 1) : k \in 0..n
        BY <2>3
      <4> HIDE DEF next
      <4> QED BY <3>3, <4>1
    <3>5. ASSUME NEW k \in 0..n
          PROVE  next(k, g) = next(k, h)
      <4>1. k < 10 \/ k \div 10 \in 0..(n - 1)
        BY <2>3
      <4> HIDE DEF h
      <4> QED BY <3>4, <4>1
    <3>6. h = [k \in 0..n |-> next(k, h)]
      <4> HIDE DEF next
      <4>1. \A k \in 0..n : h[k] = next(k, h)
        <5>1. \A k \in 0..n : h[k] = next(k, g)
          OBVIOUS
        <5> HIDE DEF h
        <5> QED BY <3>5, <5>1
      <4>2. h = [k \in 0..n |-> h[k]]
        OBVIOUS
      <4> HIDE DEF h
      <4> QED BY <4>1, <4>2
    <3>7. Decimals(h, n)
      <4> HIDE DEF h
      <4> QED BY <3>6 DEF Decimals
    <3> QED BY <3>7
  <2> QED BY <2>4, <2>5
<1> QED BY <1>1, <1>2

LEMMA DecimalIs ==
  ASSUME NEW n \in Nat
  PROVE  \E f : Decimals(f, n) /\ DecimalOf(n) = f[n] /\ (n > 0 => DecimalOf(-n) = <<Hyphen>> \o f[n])
<1> DEFINE c == CHOOSE f : Decimals(f, n)
<1>1. Decimals(c, n)
  BY DecimalsExist
<1>2. DecimalOf(n) = c[n]
  <2>1. ~(n < 0)
    OBVIOUS
  <2> QED BY <2>1 DEF DecimalOf, Decimals
<1>3. ASSUME n > 0 PROVE DecimalOf(-n) = <<Hyphen>> \o c[n]
  <2>1. -n < 0 /\ -(-n) = n
    BY <1>3
  <2> QED BY <2>1 DEF DecimalOf, Decimals
<1> QED BY <1>1, <1>2, <1>3

LEMMA CutAppend ==
  ASSUME NEW t \in Text, NEW i \in 1..Len(t)
  PROVE  Append(SubSeq(t, 1, i - 1), t[i]) = SubSeq(t, 1, i)
<1> DEFINE a == SubSeq(t, 1, i - 1)
           b == SubSeq(t, 1, i)
<1>1. Len(t) \in Nat /\ t[i] \in Int /\ i - 1 \in 0..Len(t) /\ i \in 0..Len(t)
  BY TextIs
<1>2. a \in Text /\ Len(a) = i - 1 /\ \A j \in 1..i - 1 : a[j] = t[j]
  BY <1>1, SplitIs
<1>3. b \in Text /\ Len(b) = i /\ \A j \in 1..i : b[j] = t[j]
  BY <1>1, SplitIs
<1> HIDE DEF a, b
<1>4. /\ Append(a, t[i]) \in Text /\ Len(Append(a, t[i])) = Len(a) + 1
      /\ \A j \in 1..Len(a) : Append(a, t[i])[j] = a[j]
      /\ Append(a, t[i])[Len(a) + 1] = t[i]
  BY <1>1, <1>2, AppendProperties DEF Text
<1>5. Len(a) + 1 = i
  BY <1>1, <1>2
<1>6. ASSUME NEW j \in 1..i PROVE Append(a, t[i])[j] = b[j]
  <2>1. CASE j = i
    BY <1>3, <1>4, <1>5, <2>1
  <2>2. CASE j # i
    <3>1. j \in 1..i - 1
      BY <1>1, <2>2
    <3> QED BY <1>2, <1>3, <1>4, <3>1
  <2> QED BY <2>1, <2>2
<1>7. Append(a, t[i]) = b
  <2>1. Len(Append(a, t[i])) = Len(b)
    BY <1>3, <1>4, <1>5
  <2>2. \A j \in 1..Len(Append(a, t[i])) : Append(a, t[i])[j] = b[j]
    BY <1>3, <1>6, <2>1
  <2> QED BY <1>3, <1>4, <2>1, <2>2, SameTexts
<1> QED BY <1>7 DEF a, b

\* A number that was read is written with the digits it was read from.
LEMMA DecimalBack ==
  ASSUME NEW t \in Text, PlainNatural(t)
  PROVE  /\ NaturalOf(t) \in Nat /\ DecimalOf(NaturalOf(t)) = t
         /\ NaturalOf(t) > 0 => DecimalOf(-NaturalOf(t)) = <<Hyphen>> \o t
<1>1. Len(t) \in Nat /\ Len(t) > 0 /\ t # <<>>
  BY TextIs DEF PlainNatural, AllDigits
<1>2. Digits10(t)
  BY AllIn DEF PlainNatural, AllDigits, Digits10
<1>3. PICK v \in [0..Len(t) -> Nat] :
          /\ v[0] = 0 /\ \A i \in 1..Len(t) : v[i] = 10 * v[i - 1] + (t[i] - 48)
          /\ NaturalOf(t) = v[Len(t)]
  BY <1>2, NaturalIs
<1> DEFINE n == v[Len(t)]
<1>4. n \in Nat
  BY <1>1, <1>3
<1>5. PICK f : Decimals(f, n) /\ DecimalOf(n) = f[n]
               /\ (n > 0 => DecimalOf(-n) = <<Hyphen>> \o f[n])
  BY <1>4, DecimalIs
<1>6. \A i \in 1..Len(t) : t[i] - 48 \in 0..9 /\ t[i] \in Int /\ i - 1 \in 0..Len(t) /\ v[i - 1] \in Nat
                           /\ v[i] \in Nat
  <2>1. \A i \in 1..Len(t) : i - 1 \in 0..Len(t) /\ i \in 0..Len(t)
    BY <1>1
  <2> QED BY <1>2, <2>1 DEF Digits10, Digit
<1>7. \A k \in 0..n : f[k] = IF k < 10 THEN <<48 + k>> ELSE Append(f[k \div 10], 48 + (k % 10))
  <2> HIDE DEF n
  <2> QED BY <1>5 DEF Decimals
<1> HIDE DEF n
<1>8. \A i \in 1..Len(t) : v[i] <= n
  <2> DEFINE D == {j \in Nat : j < Len(t) /\ ~(v[Len(t) - j] <= n)}
  <2>1. D = {}
    <3> SUFFICES ASSUME D # {} PROVE FALSE
      OBVIOUS
    <3>1. PICK k \in D : \A j \in D : k <= j
      <4>1. D \in SUBSET Nat
        OBVIOUS
      <4> HIDE DEF D
      <4> QED BY <4>1, LeastNumber
    <3>2. k \in Nat /\ k < Len(t) /\ ~(v[Len(t) - k] <= n)
      OBVIOUS
    <3>3. k # 0
      <4>1. Len(t) - 0 = Len(t) /\ n <= n
        BY <1>1, <1>4
      <4> QED BY <3>2, <4>1 DEF n
    <3>4. k - 1 \in Nat /\ k - 1 < Len(t) /\ ~(k <= k - 1)
      BY <1>1, <3>2, <3>3
    <3>5. v[Len(t) - (k - 1)] <= n
      BY <3>1, <3>4
    <3> DEFINE i == Len(t) - (k - 1)
    <3>6. i \in 1..Len(t) /\ i - 1 = Len(t) - k
      BY <1>1, <3>2, <3>3
    <3> HIDE DEF i
    <3>7. v[i] = 10 * v[i - 1] + (t[i] - 48)
      BY <1>3, <3>6
    <3>8. v[i - 1] <= v[i]
      <4>1. v[i - 1] \in Nat /\ t[i] \in Int /\ t[i] - 48 \in 0..9
        BY <1>6, <3>6
      <4>2. v[i - 1] <= 10 * v[i - 1] + (t[i] - 48)
        BY <4>1, DigitAdded
      <4> HIDE DEF D
      <4> QED BY <3>7, <4>2
    <3>9. v[i] <= n
      BY <3>5 DEF i
    <3>10. v[i - 1] <= n
      <4>1. v[i - 1] \in Nat /\ v[i] \in Nat
        BY <1>6, <3>6
      <4> HIDE DEF D
      <4> QED BY <1>4, <3>8, <3>9, <4>1
    <3> QED BY <3>2, <3>6, <3>10
  <2>2. ASSUME NEW i \in 1..Len(t) PROVE v[i] <= n
    <3>1. Len(t) - i \in Nat /\ Len(t) - i < Len(t) /\ Len(t) - (Len(t) - i) = i
      BY <1>1
    <3> QED BY <2>1, <3>1
  <2> QED BY <2>2
<1>9. Len(t) > 1 => t[1] # 48
  <2>1. Len(<<48>>) = 1
    OBVIOUS
  <2>2. Head(t) = t[1]
    BY <1>1, TailIs
  <2> QED BY <2>1, <2>2 DEF PlainNatural
<1>10. 1 \in 1..Len(t) /\ v[1] = t[1] - 48
  <2>1. 1 \in 1..Len(t) /\ 1 - 1 = 0
    BY <1>1
  <2>2. v[1] = 10 * v[1 - 1] + (t[1] - 48)
    BY <1>3, <2>1
  <2> QED BY <1>3, <1>6, <2>1, <2>2
<1> DEFINE Back(i) == f[v[i]] = SubSeq(t, 1, i) /\ (i > 1 \/ Len(t) > 1 => v[i] > 0)
           E == {i \in 1..Len(t) : ~Back(i)}
<1>11. E = {}
  <2> SUFFICES ASSUME E # {} PROVE FALSE
    OBVIOUS
  <2>1. E \in SUBSET Nat
    BY <1>1
  <2>2. PICK i \in E : \A j \in E : i <= j
    <3> HIDE DEF E
    <3> QED BY <2>1, LeastNumber
  <2>3. i \in 1..Len(t) /\ ~Back(i)
    OBVIOUS
  <2>4. v[i] \in 0..n
    BY <1>4, <1>6, <1>8, <2>3
  <2>5. CASE i = 1
    <3>1. v[1] < 10 /\ 48 + v[1] = t[1] /\ (Len(t) > 1 => v[1] > 0)
      <4>1. t[1] \in Int /\ t[1] - 48 \in 0..9
        BY <1>6, <1>10
      <4>2. t[1] - 48 < 10 /\ 48 + (t[1] - 48) = t[1] /\ (t[1] # 48 => t[1] - 48 > 0)
        BY <4>1, DigitAdded
      <4> QED BY <1>9, <1>10, <4>2
    <3>2. f[v[1]] = <<t[1]>>
      BY <1>7, <2>4, <2>5, <3>1
    <3>3. SubSeq(t, 1, 1) = <<t[1]>>
      <4>1. SubSeq(t, 1, 1) \in Text /\ Len(SubSeq(t, 1, 1)) = 1
            /\ \A j \in 1..1 : SubSeq(t, 1, 1)[j] = t[j]
        <5>1. 1 \in 0..Len(t)
          BY <1>1
        <5> QED BY <5>1, SplitIs
      <4>2. <<t[1]>> \in Text /\ Len(<<t[1]>>) = 1 /\ <<t[1]>>[1] = t[1]
        BY <1>6, <1>10, OneChar
      <4>3. \A j \in 1..1 : SubSeq(t, 1, 1)[j] = <<t[1]>>[j]
        <5>1. \A j \in 1..1 : j = 1
          OBVIOUS
        <5> QED BY <4>1, <4>2, <5>1
      <4> QED BY <4>1, <4>2, <4>3, SameTexts
    <3>4. Back(1)
      BY <3>1, <3>2, <3>3
    <3> QED BY <2>3, <2>5, <3>4
  <2>6. CASE i # 1
    <3>1. i - 1 \in 1..Len(t) /\ ~(i <= i - 1) /\ Len(t) > 1
      BY <1>1, <2>3, <2>6
    <3>2. Back(i - 1)
      <4>1. i - 1 \notin E
        BY <2>2, <3>1
      <4> HIDE DEF Back
      <4> QED BY <3>1, <4>1
    <3>3. f[v[i - 1]] = SubSeq(t, 1, i - 1) /\ v[i - 1] > 0
      BY <3>1, <3>2
    <3>4. v[i] = 10 * v[i - 1] + (t[i] - 48) /\ v[i - 1] \in Nat /\ t[i] - 48 \in 0..9 /\ t[i] \in Int
      BY <1>3, <1>6, <2>3
    <3>5. ~(v[i] < 10) /\ v[i] > 0 /\ v[i] \div 10 = v[i - 1] /\ 48 + (v[i] % 10) = t[i]
      <4> DEFINE p == v[i - 1]
                 r == t[i] - 48
      <4>1. p \in Nat /\ p > 0 /\ r \in 0..9 /\ v[i] = 10 * p + r /\ 48 + r = t[i]
        BY <3>3, <3>4
      <4> HIDE DEF p, r
      <4>2. (10 * p + r) \div 10 = p /\ (10 * p + r) % 10 = r /\ ~(10 * p + r < 10) /\ 10 * p + r > 0
        BY <4>1
      <4> QED BY <4>1, <4>2 DEF p
    <3>6. f[v[i]] = Append(SubSeq(t, 1, i - 1), t[i])
      BY <1>7, <2>4, <3>3, <3>5
    <3>7. f[v[i]] = SubSeq(t, 1, i)
      BY <2>3, <3>6, CutAppend
    <3>8. Back(i)
      BY <3>5, <3>7
    <3> QED BY <2>3, <3>8
  <2> QED BY <2>5, <2>6
<1>12. f[n] = t
  <2>1. Len(t) \in 1..Len(t)
    BY <1>1
  <2>2. Back(Len(t))
    <3> HIDE DEF Back
    <3> QED BY <1>11, <2>1
  <2>3. SubSeq(t, 1, Len(t)) = t
    BY SubSeqFull DEF Text
  <2> QED BY <2>2, <2>3 DEF n
<1> QED BY <1>3, <1>4, <1>5, <1>12 DEF n

-----------------------------------------------------------------------------
(* A value that was parsed, written and parsed again.                      *)

LEMMA NoneBlank == \A c \in Digit \union {Dot, Hyphen} : c \notin Blank /\ c \in Int
BY DEF Digit, Dot, Hyphen, Blank

LEMMA NaturalText ==
  ASSUME NEW t \in Text, PlainNatural(t)
  PROVE  t # <<>> /\ t[1] \in Digit /\ \A i \in 1..Len(t) : t[i] \in Digit
<1>1. t # <<>> /\ \A i \in 1..Len(t) : t[i] \in Digit
  BY AllIn DEF PlainNatural, AllDigits
<1>2. 1 \in 1..Len(t)
  BY <1>1, TextIs
<1> QED BY <1>1, <1>2

LEMMA DecimalText ==
  ASSUME NEW t \in Text, IsDecimal(t)
  PROVE  t # <<>> /\ t[1] \in Digit /\ \A i \in 1..Len(t) : t[i] \in Digit \union {Dot}
<1>1. CASE PlainNatural(t)
  BY <1>1, NaturalText
<1>2. CASE ~PlainNatural(t)
  <2>1. PICK i \in DOMAIN t : /\ t[i] = Dot
                              /\ PlainNatural(SubSeq(t, 1, i - 1))
                              /\ AllDigits(SubSeq(t, i + 1, Len(t)))
    BY <1>2 DEF IsDecimal
  <2> DEFINE a == SubSeq(t, 1, i - 1)
             b == SubSeq(t, i + 1, Len(t))
  <2>2. Len(t) \in Nat /\ i \in 1..Len(t) /\ i - 1 \in 0..Len(t) /\ i \in 0..Len(t)
    BY TextIs
  <2>3. a \in Text /\ Len(a) = i - 1 /\ \A j \in 1..i - 1 : a[j] = t[j]
    BY <2>2, SplitIs
  <2>4. b \in Text /\ Len(b) = Len(t) - i /\ \A j \in 1..Len(t) - i : b[j] = t[i + j]
    BY <2>2, SplitIs
  <2>5. PlainNatural(a) /\ AllDigits(b)
    BY <2>1
  <2> HIDE DEF a, b
  <2>6. a # <<>> /\ a[1] \in Digit /\ \A j \in 1..Len(a) : a[j] \in Digit
    BY <2>3, <2>5, NaturalText
  <2>7. \A j \in 1..Len(b) : b[j] \in Digit
    BY <2>4, <2>5, AllIn DEF AllDigits
  <2>8. 1 \in 1..i - 1 /\ t # <<>>
    <3>1. Len(a) \in Nat /\ Len(a) # 0
      BY <2>3, <2>6, TextIs
    <3>2. 1 \in 1..i - 1 /\ Len(t) # 0
      BY <2>2, <2>3, <3>1
    <3> QED BY <3>2, TextIs
  <2>9. t[1] \in Digit
    BY <2>3, <2>6, <2>8
  <2>10. ASSUME NEW j \in 1..Len(t) PROVE t[j] \in Digit \union {Dot}
    <3>1. CASE j < i
      <4>1. j \in 1..i - 1
        BY <2>2, <3>1
      <4> QED BY <2>3, <2>6, <4>1
    <3>2. CASE j = i
      BY <2>1, <3>2
    <3>3. CASE j > i
      <4> DEFINE k == j - i
      <4>1. k \in 1..Len(t) - i /\ i + k = j
        BY <2>2, <3>3
      <4> HIDE DEF k
      <4>2. b[k] = t[j] /\ k \in 1..Len(b)
        BY <2>4, <4>1
      <4> QED BY <2>7, <4>2
    <3> QED BY <2>2, <3>1, <3>2, <3>3
  <2> QED BY <2>8, <2>9, <2>10
<1> QED BY <1>1, <1>2

LEMMA UnsignedIs ==
  ASSUME NEW t \in Text
  PROVE  /\ Unsigned(t) \in Text
         /\ ~Negative(t) => Unsigned(t) = t
         /\ Negative(t) => /\ Unsigned(t) = Tail(t) /\ t = <<Hyphen>> \o Tail(t)
                           /\ Len(t) = 1 + Len(Tail(t)) /\ Tail(t) \in Text
<1>1. CASE ~Negative(t)
  BY <1>1 DEF Unsigned
<1>2. CASE Negative(t)
  <2>1. t # <<>> /\ t[1] = Hyphen
    BY <1>2, TailIs DEF Negative
  <2>2. Tail(t) \in Text /\ Len(Tail(t)) = Len(t) - 1 /\ Len(t) - 1 \in Nat
    BY <2>1, TailIs
  <2>3. t = <<Hyphen>> \o Tail(t)
    BY <2>1, HeadJoin
  <2>4. Len(t) = 1 + Len(Tail(t))
    BY <2>2, TextIs
  <2> QED BY <1>2, <2>2, <2>3, <2>4 DEF Unsigned
<1> QED BY <1>1, <1>2

LEMMA NotNegative ==
  ASSUME NEW t \in Text, t # <<>>, t[1] \in Digit
  PROVE  ~Negative(t)
<1>1. Head(t) = t[1]
  BY TailIs
<1>2. Hyphen \notin Digit
  BY DEF Hyphen, Digit
<1> QED BY <1>1, <1>2 DEF Negative

Whole(n) == [type |-> "integer", int |-> n]

LEMMA ParseIntegerIs ==
  ASSUME NEW t \in Text, NEW n, n = (IF Negative(t) THEN -NaturalOf(Unsigned(t)) ELSE NaturalOf(t))
  PROVE  ParseInteger(t) =
             IF PlainNatural(Unsigned(t)) /\ Len(t) <= MaxScalarChars /\ n \in -MaxInteger - 1..MaxInteger
             THEN {Whole(n)} ELSE {}
BY DEF ParseInteger, Whole

\* No text of digits with a sign before it is blank anywhere.
LEMMA SignedNumberText ==
  ASSUME NEW t \in Text, \A i \in 1..Len(t) : t[i] \in Digit \union {Dot}
  PROVE  NoBlanks(t) /\ NoBlanks(<<Hyphen>> \o t)
<1> DEFINE u == <<Hyphen>> \o t
<1>1. Hyphen \in Int /\ Hyphen \notin Blank
  BY NoneBlank
<1>2. Len(u) = 1 + Len(t) /\ u[1] = Hyphen /\ \A i \in 1..Len(t) : u[1 + i] = t[i]
  BY <1>1, TailOfJoin
<1>3. NoBlanks(t)
  BY NoneBlank DEF NoBlanks
<1> HIDE DEF u
<1>4. ASSUME NEW i \in 1..Len(u) PROVE u[i] \notin Blank
  <2>1. CASE i = 1
    BY <1>1, <1>2, <2>1
  <2>2. CASE i # 1
    <3> DEFINE j == i - 1
    <3>1. j \in 1..Len(t) /\ 1 + j = i
      BY <1>2, <2>2, TextIs
    <3> HIDE DEF j
    <3>2. u[1 + j] = t[j]
      BY <1>2, <3>1
    <3> QED BY <1>3, <3>1, <3>2 DEF NoBlanks
  <2> QED BY <2>1, <2>2
<1> QED BY <1>3, <1>4 DEF NoBlanks, u

LEMMA IntegerAgain ==
  ASSUME NEW t \in Text, NEW v \in ParseInteger(t)
  PROVE  /\ ParseInteger(t) = {v} /\ v.type = "integer"
         /\ DecimalOf(v.int) \in Text /\ DecimalOf(v.int) # <<>> /\ NoBlanks(DecimalOf(v.int))
         /\ ParseInteger(DecimalOf(v.int)) = {v} /\ Len(DecimalOf(v.int)) <= Len(t)
         /\ Negative(DecimalOf(v.int)) => ~(ToSet(Tail(DecimalOf(v.int))) \subseteq {48, Dot})
<1> DEFINE u == Unsigned(t)
           m == NaturalOf(u)
           n == IF Negative(t) THEN -m ELSE m
<1>1. /\ u \in Text
      /\ ~Negative(t) => u = t
      /\ Negative(t) => u = Tail(t) /\ t = <<Hyphen>> \o u /\ Len(t) = 1 + Len(u)
  BY UnsignedIs
<1> HIDE DEF u
<1>2. n = IF Negative(t) THEN -NaturalOf(Unsigned(t)) ELSE NaturalOf(t)
  BY <1>1 DEF u
<1>3. ParseInteger(t) =
          IF PlainNatural(u) /\ Len(t) <= MaxScalarChars /\ n \in -MaxInteger - 1..MaxInteger
          THEN {Whole(n)} ELSE {}
  <2> HIDE DEF n
  <2> QED BY <1>2, ParseIntegerIs DEF u
<1>4. /\ PlainNatural(u) /\ Len(t) <= MaxScalarChars /\ n \in -MaxInteger - 1..MaxInteger
      /\ v = Whole(n) /\ ParseInteger(t) = {v}
  <2> HIDE DEF n
  <2> QED BY <1>3
<1>5. v.int = n /\ v.type = "integer"
  <2> HIDE DEF n
  <2> QED BY <1>4 DEF Whole
<1>6. /\ m \in Nat /\ DecimalOf(m) = u /\ (m > 0 => DecimalOf(-m) = <<Hyphen>> \o u)
  BY <1>1, <1>4, DecimalBack
<1>7. u # <<>> /\ u[1] \in Digit /\ \A i \in 1..Len(u) : u[i] \in Digit
  BY <1>1, <1>4, NaturalText
<1>8. ~Negative(u) /\ NoBlanks(u) /\ NoBlanks(<<Hyphen>> \o u) /\ Len(u) \in Nat
  BY <1>1, <1>7, NotNegative, SignedNumberText, TextIs
<1>9. m > 0 => ~(ToSet(u) \subseteq {48, Dot})
  <2> SUFFICES ASSUME m > 0, ToSet(u) \subseteq {48, Dot} PROVE FALSE
    OBVIOUS
  <2>1. 1 \in 1..Len(u)
    BY <1>1, <1>7, TextIs
  <2>2. u[1] = 48
    <3>1. u[1] \in {48, Dot}
      BY <1>1, <2>1, AllIn
    <3> QED BY <1>7, <3>1 DEF Dot, Digit
  <2>3. u = <<48>>
    <3>1. Head(u) = u[1]
      BY <1>1, <1>7, TailIs
    <3> QED BY <1>4, <2>2, <3>1 DEF PlainNatural
  <2>4. Len(u) = 1
    BY <2>3
  <2>5. PICK f \in [0..Len(u) -> Nat] :
            /\ f[0] = 0 /\ \A i \in 1..Len(u) : f[i] = 10 * f[i - 1] + (u[i] - 48)
            /\ m = f[Len(u)]
    <3>1. Digits10(u)
      BY <1>7 DEF Digits10
    <3> QED BY <1>1, <3>1, NaturalIs
  <2>6. f[1] = 10 * f[1 - 1] + (u[1] - 48) /\ 1 - 1 = 0
    BY <2>1, <2>5
  <2>7. f[1] = 0
    BY <2>2, <2>5, <2>6
  <2> QED BY <2>4, <2>5, <2>7
<1>10. CASE ~Negative(t)
  <2>1. n = m /\ u = t
    BY <1>1, <1>10
  <2>2. DecimalOf(v.int) = t
    BY <1>5, <1>6, <2>1
  <2> HIDE DEF n, m
  <2> QED BY <1>1, <1>4, <1>5, <1>7, <1>8, <1>10, <2>1, <2>2
<1>11. CASE Negative(t) /\ m > 0
  <2>1. n = -m /\ t = <<Hyphen>> \o u /\ u = Tail(t) /\ Len(t) = 1 + Len(u)
    BY <1>1, <1>11
  <2>2. DecimalOf(v.int) = t
    BY <1>5, <1>6, <1>11, <2>1
  <2>3. t # <<>> /\ NoBlanks(t) /\ Len(t) <= Len(t)
    <3>1. Len(t) \in Nat /\ Len(t) # 0
      BY <1>8, <2>1
    <3> QED BY <1>8, <2>1, <3>1, TextIs
  <2> HIDE DEF n, m
  <2> QED BY <1>4, <1>5, <1>9, <1>11, <2>1, <2>2, <2>3
<1>12. CASE Negative(t) /\ ~(m > 0)
  <2>1. m = 0 /\ n = m /\ Len(t) = 1 + Len(u)
    BY <1>1, <1>6, <1>12
  <2>2. DecimalOf(v.int) = u
    BY <1>5, <1>6, <2>1
  <2>3. Unsigned(u) = u
    BY <1>1, <1>8, UnsignedIs
  <2>4. n = IF Negative(u) THEN -NaturalOf(Unsigned(u)) ELSE NaturalOf(u)
    BY <1>8, <2>1
  <2>5. Len(u) <= Len(t) /\ Len(u) <= MaxScalarChars
    BY <1>4, <1>8, <2>1 DEF MaxScalarChars
  <2>6. ParseInteger(u) = {v}
    <3> HIDE DEF n
    <3> QED BY <1>1, <1>4, <2>3, <2>4, <2>5, ParseIntegerIs
  <2> HIDE DEF n, m
  <2> QED BY <1>1, <1>4, <1>5, <1>7, <1>8, <2>2, <2>5, <2>6
<1> QED BY <1>10, <1>11, <1>12

Fraction(t) == [type |-> "number", text |-> t]

LEMMA NumberAgain ==
  ASSUME NEW t \in Text, NEW v \in ParseNumber(t)
  PROVE  /\ ParseNumber(t) = {v} /\ v.type = "number"
         /\ v.text \in Text /\ v.text # <<>> /\ NoBlanks(v.text)
         /\ ParseNumber(v.text) = {v} /\ Len(v.text) <= Len(t)
         /\ Negative(v.text) => ~(ToSet(Tail(v.text)) \subseteq {48, Dot})
<1> DEFINE u == Unsigned(t)
           w == CanonicalNumber(t)
<1>1. /\ u \in Text
      /\ ~Negative(t) => u = t
      /\ Negative(t) => u = Tail(t) /\ t = <<Hyphen>> \o u /\ Len(t) = 1 + Len(u)
  BY UnsignedIs
<1>2. \A s : ParseNumber(s) =
          IF Len(s) <= MaxScalarChars /\ IsDecimal(Unsigned(s)) THEN {Fraction(CanonicalNumber(s))} ELSE {}
  BY DEF ParseNumber, Fraction
<1> HIDE DEF u, w
<1>3. Len(t) <= MaxScalarChars /\ IsDecimal(u) /\ v = Fraction(w) /\ ParseNumber(t) = {v}
  BY <1>2 DEF u, w
<1>4. v.text = w /\ v.type = "number"
  BY <1>3 DEF Fraction
<1>5. u # <<>> /\ u[1] \in Digit /\ \A i \in 1..Len(u) : u[i] \in Digit \union {Dot}
  BY <1>1, <1>3, DecimalText
<1>6. ~Negative(u) /\ NoBlanks(u) /\ NoBlanks(<<Hyphen>> \o u) /\ Len(u) \in Nat
  BY <1>1, <1>5, NotNegative, SignedNumberText, TextIs
<1>7. t # <<>> /\ NoBlanks(t) /\ Len(u) <= Len(t) /\ Len(t) <= Len(t) /\ Len(u) <= MaxScalarChars
  <2>1. Len(t) \in Nat /\ (t # <<>> <=> Len(t) # 0) /\ (u # <<>> <=> Len(u) # 0)
    BY <1>1, TextIs
  <2>2. NoBlanks(t)
    BY <1>1, <1>6
  <2>3. Len(t) = Len(u) \/ Len(t) = 1 + Len(u)
    BY <1>1
  <2>4. Len(u) # 0
    BY <1>5, <2>1
  <2> QED BY <1>3, <1>6, <2>1, <2>2, <2>3, <2>4 DEF MaxScalarChars
<1>8. CASE Negative(t) /\ ToSet(u) \subseteq {48, Dot}
  <2>1. w = u
    BY <1>1, <1>8 DEF w, CanonicalNumber
  <2>2. CanonicalNumber(u) = u /\ Unsigned(u) = u
    BY <1>1, <1>6, UnsignedIs DEF CanonicalNumber
  <2>3. ParseNumber(u) = {v}
    BY <1>2, <1>3, <1>7, <2>1, <2>2
  <2> QED BY <1>1, <1>3, <1>4, <1>5, <1>6, <1>7, <2>1, <2>3
<1>9. CASE ~(Negative(t) /\ ToSet(u) \subseteq {48, Dot})
  <2>1. w = t
    BY <1>1, <1>9 DEF w, CanonicalNumber
  <2>2. Negative(t) => ~(ToSet(Tail(t)) \subseteq {48, Dot})
    BY <1>1, <1>9
  <2> QED BY <1>3, <1>4, <1>7, <2>1, <2>2
<1> QED BY <1>8, <1>9

\* A value is written as what parses to it, which fits where it was found.
LEMMA ValueAgain ==
  ASSUME NEW arg, NEW t, Fits(arg, t), NEW v \in ParseValue(arg, t)
  PROVE  /\ ParseValue(arg, t) = {v} /\ Fits(arg, Written(v))
         /\ ParseValue(arg, Written(v)) = {v} /\ Len(Written(v)) <= Len(t)
<1>1. t \in Text /\ Len(t) \in Nat
  BY TextIs DEF Fits
<1>2. arg.type \in {"string", "integer", "number", "boolean", "enum"}
  BY DEF ParseValue
<1>3. CASE arg.type = "string"
  <2>1. \A s : ParseValue(arg, s) =
                   IF FitsString(arg, s) THEN {[type |-> "string", text |-> s]} ELSE {}
    BY <1>3 DEF ParseValue
  <2>2. v = [type |-> "string", text |-> t]
    BY <2>1
  <2>3. Written(v) = t
    BY <2>2 DEF Written
  <2> QED BY <1>1, <2>1, <2>2, <2>3
<1>4. CASE arg.type = "enum"
  <2>1. \A s : ParseValue(arg, s) =
                   IF s \in ToSet(arg.values) THEN {[type |-> "enum", text |-> s]} ELSE {}
    BY <1>4 DEF ParseValue
  <2>2. v = [type |-> "enum", text |-> t]
    BY <2>1
  <2>3. Written(v) = t
    BY <2>2 DEF Written
  <2> QED BY <1>1, <2>1, <2>2, <2>3
<1>5. CASE arg.type = "boolean"
  <2>1. \A s : ParseValue(arg, s) =
                   IF s \in {True, False} THEN {[type |-> "boolean", bool |-> s = True]} ELSE {}
    BY <1>5 DEF ParseValue
  <2>2. t \in {True, False} /\ v = [type |-> "boolean", bool |-> t = True]
    BY <2>1
  <2>3. v.type = "boolean" /\ v.bool = (t = True)
    BY <2>2
  <2>4. Written(v) = IF v.bool THEN True ELSE False
    BY <2>3 DEF Written
  <2>5. Written(v) = t
    BY <2>2, <2>3, <2>4
  <2> QED BY <1>1, <2>1, <2>2, <2>5
<1>6. CASE arg.type = "integer"
  <2>1. \A s : ParseValue(arg, s) = ParseInteger(s)
    BY <1>6 DEF ParseValue
  <2> DEFINE w == DecimalOf(v.int)
  <2>2. /\ ParseInteger(t) = {v} /\ v.type = "integer" /\ w \in Text /\ w # <<>> /\ NoBlanks(w)
        /\ ParseInteger(w) = {v} /\ Len(w) <= Len(t)
    BY <1>1, <2>1, IntegerAgain
  <2>3. Written(v) = w
    BY <2>2 DEF Written
  <2> HIDE DEF w
  <2>4. Fits(arg, w)
    BY <2>2, WordIsClosed DEF Fits
  <2> QED BY <2>1, <2>2, <2>3, <2>4
<1>7. CASE arg.type = "number"
  <2>1. \A s : ParseValue(arg, s) = ParseNumber(s)
    BY <1>7 DEF ParseValue
  <2> DEFINE w == v.text
  <2>2. /\ ParseNumber(t) = {v} /\ v.type = "number" /\ w \in Text /\ w # <<>> /\ NoBlanks(w)
        /\ ParseNumber(w) = {v} /\ Len(w) <= Len(t)
    BY <1>1, <2>1, NumberAgain
  <2>3. Written(v) = w
    BY <2>2 DEF Written
  <2> HIDE DEF w
  <2>4. Fits(arg, w)
    BY <2>2, WordIsClosed DEF Fits
  <2> QED BY <2>1, <2>2, <2>3, <2>4
<1> QED BY <1>2, <1>3, <1>4, <1>5, <1>6, <1>7

-----------------------------------------------------------------------------
(* The arguments written again.                                            *)

\* Arguments as a descriptor has them: the rest of the line is for the last,
\* and those that may be missing come after those that may not.
Orderly(d) ==
    /\ Len(d.args) \in Nat
    /\ \A i \in 1..Len(d.args) : d.args[i].rest => i = Len(d.args)
    /\ \A i, j \in 1..Len(d.args) : i < j /\ d.args[j].required => d.args[i].required

\* w has what is written for each of the first k arguments, and r the rest of
\* the line after each.
WrittenAs(d, k, w, r) ==
    /\ k \in 0..Len(d.args)
    /\ \A i \in 1..k : Fits(d.args[i], w[i])
    /\ r \in [0..k -> Text] /\ r[k] = <<>>
    /\ \A i \in 1..k : r[i - 1] = (<<32>> \o w[i]) \o r[i]

LEMMA RestStops ==
  ASSUME NEW d, NEW k, NEW w, NEW r, WrittenAs(d, k, w, r), Len(d.args) \in Nat, NEW i \in 0..k
  PROVE  r[i] \in Text /\ Stops(r[i])
<1>1. k \in Nat /\ r[i] \in Text
  BY DEF WrittenAs
<1>2. CASE i = k
  BY <1>2, EmptyJoin, NoChars DEF WrittenAs
<1>3. CASE i # k
  <2>1. i + 1 \in 1..k /\ (i + 1) - 1 = i /\ i + 1 \in 0..k
    BY <1>1, <1>3
  <2>2. r[i] = (<<32>> \o w[i + 1]) \o r[i + 1] /\ w[i + 1] \in Text /\ r[i + 1] \in Text
    BY <2>1 DEF WrittenAs, Fits
  <2> DEFINE s == <<32>>
             a == w[i + 1]
             b == r[i + 1]
  <2>3. s \in Text /\ s # <<>> /\ Stops(s) /\ a \in Text /\ b \in Text /\ r[i] = (s \o a) \o b
    BY <2>2, OneBlank
  <2> HIDE DEF s, a, b
  <2>4. Stops(s \o a) /\ s \o a # <<>> /\ s \o a \in Text
    BY <2>3, StopsJoin, JoinIs
  <2>5. Stops((s \o a) \o b)
    BY <2>3, <2>4, StopsJoin
  <2> QED BY <1>1, <2>3, <2>5
<1> QED BY <1>2, <1>3

\* What is left of the line before the i-th argument, when t is for it.
LeavesOf(before, t, after) ==
    /\ TrimStart(before, Blank) = t \o after /\ t \o after # <<>>
    /\ t \in Text /\ after \in Text /\ before \in Text
    /\ Len(before) = (1 + Len(t)) + Len(after)

LEMMA RestTrimmed ==
  ASSUME NEW d, NEW k, NEW w, NEW r, WrittenAs(d, k, w, r), Len(d.args) \in Nat, NEW i \in 1..k
  PROVE  LeavesOf(r[i - 1], w[i], r[i])
<1> DEFINE s == <<32>>
           a == w[i]
           b == r[i]
           t == r[i - 1]
<1>1. k \in Nat /\ i \in 0..k /\ i - 1 \in 0..k
  BY DEF WrittenAs
<1>2. a \in Text /\ a # <<>> /\ Clean(a) /\ b \in Text /\ t \in Text /\ t = (s \o a) \o b
  BY <1>1 DEF WrittenAs, Fits
<1>3. s \in Text /\ Blanks(s) /\ Len(s) = 1
  BY OneBlank
<1> HIDE DEF s, a, b, t
<1>4. t = s \o (a \o b)
  BY <1>2, <1>3, JoinAssoc
<1>5. a \o b \in Text /\ Clean(a \o b) /\ a \o b # <<>>
  BY <1>2, CleanJoin, JoinIs
<1>6. TrimStart(t, Blank) = a \o b
  BY <1>3, <1>4, <1>5, TrimJoin
<1>7. Len(t) = (1 + Len(a)) + Len(b)
  <2>1. s \o a \in Text /\ Len(s \o a) = Len(s) + Len(a)
    BY <1>2, <1>3, JoinIs
  <2>2. Len((s \o a) \o b) = Len(s \o a) + Len(b)
    BY <1>2, <2>1, JoinIs
  <2> QED BY <1>2, <1>3, <2>1, <2>2
<1> QED BY <1>2, <1>5, <1>6, <1>7 DEF a, b, t, LeavesOf

LEMMA FollowsRest ==
  ASSUME NEW d, NEW k, NEW w, NEW r, WrittenAs(d, k, w, r), Orderly(d), NEW i \in 1..k
  PROVE  /\ Follows(d.args[i], r[i])
         /\ Taken(d.args[i], w[i] \o r[i]) = w[i]
         /\ Left(d.args[i], w[i] \o r[i]) = TrimStart(r[i], Blank)
<1>1. k \in 0..Len(d.args) /\ Len(d.args) \in Nat /\ i \in 1..Len(d.args) /\ i \in 0..k
  BY DEF WrittenAs, Orderly
<1>2. r[i] \in Text /\ Stops(r[i])
  BY <1>1, RestStops
<1>3. d.args[i].rest => r[i] = <<>>
  <2>1. d.args[i].rest => i = Len(d.args)
    BY <1>1 DEF Orderly
  <2>2. i = Len(d.args) => i = k
    BY <1>1
  <2> QED BY <2>1, <2>2 DEF WrittenAs
<1>4. Follows(d.args[i], r[i])
  <2>1. Blanks(<<>>)
    BY EmptyJoin, NoChars
  <2> QED BY <1>2, <1>3, <2>1 DEF Follows
<1>5. Fits(d.args[i], w[i])
  BY DEF WrittenAs
<1>6. /\ Taken(d.args[i], w[i] \o r[i]) = w[i]
      /\ Left(d.args[i], w[i] \o r[i]) = IF d.args[i].rest THEN <<>> ELSE TrimStart(r[i], Blank)
  BY <1>4, <1>5, TakenJoin
<1>7. TrimStart(<<>>, Blank) = <<>>
  BY EmptyJoin, NoChars, TrimClean
<1> QED BY <1>3, <1>4, <1>6, <1>7

LEMMA RewrittenCursors ==
  ASSUME NEW d, NEW k, NEW w, NEW r, WrittenAs(d, k, w, r), Orderly(d)
  PROVE  /\ \A i \in 0..k : Cursors(d.args, r[0])[i] = TrimStart(r[i], Blank)
         /\ \A i \in k..Len(d.args) : Cursors(d.args, r[0])[i] = <<>>
<1> DEFINE m == Len(d.args)
           e == Cursors(d.args, r[0])
<1>1. m \in Nat /\ k \in 0..m /\ r[0] \in Text
  <2>1. m \in Nat /\ k \in 0..m /\ 0 \in 0..k
    BY DEF WrittenAs, Orderly
  <2> QED BY <2>1 DEF WrittenAs
<1>2. e[0] = TrimStart(r[0], Blank) /\ \A i \in 1..m : e[i] = Left(d.args[i], e[i - 1])
  BY <1>1, CursorsAre
<1> HIDE DEF e, m
<1>5. ASSUME NEW i \in 1..k PROVE TrimStart(r[i - 1], Blank) = w[i] \o r[i]
  <2>1. Len(d.args) \in Nat
    BY DEF Orderly
  <2>2. LeavesOf(r[i - 1], w[i], r[i])
    BY <2>1, RestTrimmed
  <2> QED BY <2>2 DEF LeavesOf
<1> DEFINE D == {i \in 0..k : e[i] # TrimStart(r[i], Blank)}
           E == {i \in k..m : e[i] # <<>>}
<1>3. D = {}
  <2> SUFFICES ASSUME D # {} PROVE FALSE
    OBVIOUS
  <2>1. PICK i \in D : \A j \in D : i <= j
    <3>1. D \in SUBSET Nat
      BY <1>1
    <3> HIDE DEF D
    <3> QED BY <3>1, LeastNumber
  <2>2. i \in 0..k /\ e[i] # TrimStart(r[i], Blank)
    OBVIOUS
  <2>3. i # 0
    BY <1>2, <2>2
  <2>4. i \in 1..k /\ i \in 1..m /\ i - 1 \in 0..k /\ ~(i <= i - 1)
    BY <1>1, <2>2, <2>3
  <2>5. e[i - 1] = TrimStart(r[i - 1], Blank)
    BY <2>1, <2>4
  <2> HIDE DEF D
  <2>6. e[i - 1] = w[i] \o r[i]
    <3>1. Len(d.args) \in Nat
      BY DEF Orderly
    <3>2. i \in 1..k
      BY <2>4
    <3>3. TrimStart(r[i - 1], Blank) = w[i] \o r[i]
      BY <1>5, <3>2
    <3> QED BY <2>5, <3>3
  <2>7. Left(d.args[i], w[i] \o r[i]) = TrimStart(r[i], Blank)
    BY <2>4, FollowsRest
  <2>8. e[i] = Left(d.args[i], e[i - 1])
    BY <1>2, <2>4
  <2> QED BY <2>2, <2>6, <2>7, <2>8
<1>4. E = {}
  <2> SUFFICES ASSUME E # {} PROVE FALSE
    OBVIOUS
  <2>1. PICK i \in E : \A j \in E : i <= j
    <3>1. E \in SUBSET Nat
      BY <1>1
    <3> HIDE DEF E
    <3> QED BY <3>1, LeastNumber
  <2>2. i \in k..m /\ e[i] # <<>>
    OBVIOUS
  <2>3. i # k
    <3>1. k \in 0..k /\ r[k] = <<>>
      BY <1>1 DEF WrittenAs
    <3>2. TrimStart(<<>>, Blank) = <<>>
      BY EmptyJoin, NoChars, TrimClean
    <3> QED BY <1>3, <2>2, <3>1, <3>2
  <2>4. i \in 1..m /\ i - 1 \in k..m /\ ~(i <= i - 1)
    BY <1>1, <2>2, <2>3
  <2>5. e[i - 1] = <<>>
    BY <2>1, <2>4
  <2> HIDE DEF E
  <2>6. e[i] = <<>>
    BY <1>2, <2>4, <2>5, LeftEmpty
  <2> QED BY <2>2, <2>6
<1> QED BY <1>3, <1>4 DEF e, m

\* What an argument takes, v, can be written for it; and what is left after it
\* is as much shorter as that is long, with a blank between them.
Reads(arg, c, v) ==
    /\ ParseValue(arg, Taken(arg, c)) = {v}
    /\ Fits(arg, Written(v)) /\ ParseValue(arg, Written(v)) = {v}
Shorter(a, t, c) ==
    /\ Len(a) \in Nat /\ Len(t) \in Nat /\ Len(c) \in Nat
    /\ Len(a) + Len(t) <= Len(c)
    /\ a # <<>> => (Len(a) + Len(t)) + 1 <= Len(c)

LEMMA OneTaken ==
  ASSUME NEW arg, NEW c \in Cleans, c # <<>>, NEW v \in ParseValue(arg, Taken(arg, c))
  PROVE  Reads(arg, c, v) /\ Shorter(Left(arg, c), Written(v), c)
<1>1. c \in Text /\ Clean(c)
  BY DEF Cleans
<1>2. PICK t, b : c = t \o b /\ Fits(arg, t) /\ Follows(arg, b)
  BY <1>1, TakenSplit
<1>3. t \in Text /\ b \in Text
  BY <1>2 DEF Fits, Follows
<1>4. Taken(arg, c) = t /\ Left(arg, c) = IF arg.rest THEN <<>> ELSE TrimStart(b, Blank)
  BY <1>2, TakenJoin
<1>5. /\ ParseValue(arg, t) = {v} /\ Fits(arg, Written(v))
      /\ ParseValue(arg, Written(v)) = {v} /\ Len(Written(v)) <= Len(t)
  BY <1>2, <1>4, ValueAgain
<1>6. Reads(arg, c, v)
  BY <1>4, <1>5 DEF Reads
<1> DEFINE w == Written(v)
           a == Left(arg, c)
<1>7. w \in Text /\ Len(w) \in Nat /\ Len(w) <= Len(t)
  <2>1. w \in Text
    BY <1>5 DEF Fits
  <2> QED BY <1>5, <2>1, TextIs
<1>8. Len(c) = Len(t) + Len(b) /\ Len(t) \in Nat /\ Len(b) \in Nat /\ Len(c) \in Nat
  <2>1. Len(t) \in Nat /\ Len(b) \in Nat /\ Len(c) \in Nat
    BY <1>1, <1>3, TextIs
  <2>2. Len(t \o b) = Len(t) + Len(b)
    BY <1>3, JoinIs
  <2> QED BY <1>2, <2>1, <2>2
<1>9. Len(a) \in Nat /\ Len(a) <= Len(b) /\ (a # <<>> => Len(a) + 1 <= Len(b))
  <2>1. CASE arg.rest
    <3>1. a = <<>> /\ Len(<<>>) = 0
      BY <1>4, <2>1, EmptyJoin, NoChars
    <3> QED BY <1>8, <3>1
  <2>2. CASE ~arg.rest
    <3>1. Stops(b)
      BY <1>2, <2>2 DEF Follows
    <3>2. PICK x \in Text, y \in Text : b = x \o y /\ Blanks(x) /\ Clean(y) /\ TrimStart(b, Blank) = y
      BY <1>3, TrimSplit
    <3>3. a = y
      BY <1>4, <2>2, <3>2
    <3>4. Len(x) \in Nat /\ Len(y) \in Nat /\ (x # <<>> => Len(x) # 0) /\ <<>> \o y = y
      BY EmptyJoin, TextIs
    <3>5. Len(x \o y) = Len(x) + Len(y)
      BY JoinIs
    <3>6. Len(b) = Len(x) + Len(y)
      BY <3>2, <3>5
    <3>7. y # <<>> => x # <<>>
      <4> SUFFICES ASSUME y # <<>>, x = <<>> PROVE FALSE
        OBVIOUS
      <4>1. b = y
        BY <3>2, <3>4
      <4> QED BY <3>1, <3>2, <4>1 DEF Stops, Clean
    <3> QED BY <3>3, <3>4, <3>6, <3>7
  <2> QED BY <2>1, <2>2
<1> HIDE DEF w, a
<1>10. Shorter(a, w, c)
  <2>1. Len(a) + Len(w) <= Len(c) /\ (a # <<>> => (Len(a) + Len(w)) + 1 <= Len(c))
    BY <1>7, <1>8, <1>9
  <2> QED BY <1>7, <1>8, <1>9, <2>1 DEF Shorter
<1> QED BY <1>6, <1>10 DEF a, w

\* No line written again is longer than the line it comes from, but for the
\* blank before it.
LEMMA RewrittenLength ==
  ASSUME NEW d, NEW k \in Nat, NEW w, NEW r, NEW c, WrittenAs(d, k, w, r), Orderly(d),
         c \in [0..k -> Cleans], c[k] = <<>>,
         \A i \in 1..k : c[i - 1] # <<>>,
         \A i \in 1..k : Shorter(c[i], w[i], c[i - 1])
  PROVE  Len(r[0]) \in Nat /\ Len(r[0]) <= Len(c[0]) + 1 /\ Len(c[0]) \in Nat
<1>1. \A i \in 0..k : Len(c[i]) \in Nat /\ Len(r[i]) \in Nat
  BY TextIs DEF WrittenAs, Cleans
<1>2. \A i \in 1..k : LeavesOf(r[i - 1], w[i], r[i])
  <2>1. Len(d.args) \in Nat
    BY DEF Orderly
  <2> QED BY <2>1, RestTrimmed
<1> DEFINE P(i) == Len(r[i]) <= Len(c[i]) + 1
<1>3. P(k)
  <2>1. Len(r[k]) = 0 /\ k \in 0..k
    BY NoChars, EmptyJoin DEF WrittenAs
  <2> QED BY <1>1, <2>1
<1>4. ASSUME NEW i \in 1..k, P(i) PROVE P(i - 1)
  <2>1. i \in 0..k /\ i - 1 \in 0..k
    OBVIOUS
  <2>2. /\ Len(c[i]) \in Nat /\ Len(w[i]) \in Nat /\ Len(c[i - 1]) \in Nat
        /\ Len(c[i]) + Len(w[i]) <= Len(c[i - 1])
        /\ c[i] # <<>> => (Len(c[i]) + Len(w[i])) + 1 <= Len(c[i - 1])
    BY DEF Shorter
  <2>3. Len(r[i - 1]) = (1 + Len(w[i])) + Len(r[i])
    BY <1>2 DEF LeavesOf
  <2>4. Len(r[i]) \in Nat
    BY <1>1, <2>1
  <2>5. CASE i = k
    <3>1. Len(r[i]) = 0
      BY <2>5, NoChars, EmptyJoin DEF WrittenAs
    <3> HIDE DEF P
    <3> DEFINE y == Len(c[i])
               z == Len(w[i])
               u == Len(c[i - 1])
               q == Len(r[i - 1])
    <3>2. y \in Nat /\ z \in Nat /\ u \in Nat /\ y + z <= u /\ q = (1 + z) + 0
      BY <2>2, <2>3, <3>1
    <3> HIDE DEF y, z, u, q
    <3>3. q <= u + 1
      BY <3>2
    <3> QED BY <3>3 DEF q, u, P
  <2>6. CASE i # k
    <3>1. i + 1 \in 1..k /\ (i + 1) - 1 = i
      BY <2>6
    <3>2. c[(i + 1) - 1] # <<>>
      BY <3>1
    <3>3. c[i] # <<>>
      BY <3>1, <3>2
    <3>4. Len(r[i]) <= Len(c[i]) + 1
      BY <1>4
    <3> HIDE DEF P
    <3> DEFINE x == Len(r[i])
               y == Len(c[i])
               z == Len(w[i])
               u == Len(c[i - 1])
               q == Len(r[i - 1])
    <3>5. x \in Nat /\ y \in Nat /\ z \in Nat /\ u \in Nat /\ (y + z) + 1 <= u /\ q = (1 + z) + x /\ x <= y + 1
      BY <2>2, <2>3, <2>4, <3>3, <3>4
    <3> HIDE DEF x, y, z, u, q
    <3>6. q <= u + 1
      BY <3>5
    <3> QED BY <3>6 DEF q, u, P
  <2> QED BY <2>5, <2>6
<1> DEFINE D == {j \in 0..k : ~P(k - j)}
<1>5. D = {}
  <2> SUFFICES ASSUME D # {} PROVE FALSE
    OBVIOUS
  <2>1. D \in SUBSET Nat
    OBVIOUS
  <2>2. PICK j \in D : \A n \in D : j <= n
    <3> HIDE DEF D
    <3> QED BY <2>1, LeastNumber
  <2> HIDE DEF P
  <2>3. j \in 0..k /\ ~P(k - j)
    OBVIOUS
  <2>4. j # 0
    <3>1. k - 0 = k
      OBVIOUS
    <3> QED BY <1>3, <2>3, <3>1
  <2>5. /\ j - 1 \in 0..k /\ ~(j <= j - 1) /\ k - (j - 1) \in 1..k
        /\ (k - (j - 1)) - 1 = k - j
    BY <2>3, <2>4
  <2>6. P(k - (j - 1))
    BY <2>2, <2>5
  <2>7. P((k - (j - 1)) - 1)
    BY <1>4, <2>5, <2>6
  <2> QED BY <2>3, <2>5, <2>7
<1>6. P(0)
  <2>1. k \in 0..k /\ k - k = 0
    OBVIOUS
  <2> HIDE DEF P
  <2> QED BY <1>5, <2>1
<1>7. 0 \in 0..k
  OBVIOUS
<1> QED BY <1>1, <1>6, <1>7

LEMMA LeftLength ==
  ASSUME NEW t \in Text
  PROVE  Len(TrimStart(t, Blank)) \in Nat /\ Len(t) \in Nat /\ Len(TrimStart(t, Blank)) <= Len(t)
<1>1. PICK a \in Text, b \in Text : t = a \o b /\ TrimStart(t, Blank) = b
  BY TrimSplit
<1>2. Len(a) \in Nat /\ Len(b) \in Nat
  BY TextIs
<1>3. Len(a \o b) = Len(a) + Len(b)
  BY JoinIs
<1> QED BY <1>1, <1>2, <1>3

\* What the arguments read from a line are written as.
Rewrites(d, c, k) == [i \in 1..k |-> Written(Parsed(d, c, k)[i].value)]

\* r has the rest of the text t after each of the first k arguments written.
RestsOf(r, w, k, t) ==
    /\ r \in [0..k -> Text] /\ r[k] = <<>> /\ r[0] = t
    /\ \A i \in 1..k : r[i - 1] = (<<32>> \o w[i]) \o r[i]

LEMMA RewrittenIs ==
  ASSUME NEW d, NEW c, NEW k \in Nat, \A i \in 1..k : Rewrites(d, c, k)[i] \in Text
  PROVE  \E r : RestsOf(r, Rewrites(d, c, k), k, Rewritten(Parsed(d, c, k)))
<1> DEFINE w == Rewrites(d, c, k)
           list == [i \in 1..k |-> <<32>> \o w[i]]
           p == Parsed(d, c, k)
<1>1. \A i \in 1..k : <<32>> \o w[i] \in Text
  <2> DEFINE s == <<32>>
  <2>1. s \in Text
    BY OneBlank
  <2> HIDE DEF s
  <2>2. \A i \in 1..k : s \o w[i] \in Text
    BY <2>1, JoinIs
  <2> QED BY <2>2 DEF s
<1>2. Rewritten(p) = FlattenSeq(list)
  <2>1. DOMAIN p = 1..k
    BY DEF Parsed
  <2>2. \A i \in 1..k : w[i] = Written(p[i].value)
    BY DEF Rewrites
  <2> HIDE DEF p, w
  <2>3. [i \in DOMAIN p |-> <<32>> \o Written(p[i].value)] = list
    BY <2>1, <2>2
  <2> HIDE DEF list
  <2> QED BY <2>3 DEF Rewritten
<1> HIDE DEF w, p
<1>3. list \in [1..k -> Text] /\ \A i \in 1..k : list[i] = <<32>> \o w[i]
  BY <1>1
<1> HIDE DEF list
<1>4. PICK r \in [0..k -> Text] :
          /\ r[k] = <<>> /\ \A i \in 1..k : r[i - 1] = list[i] \o r[i]
          /\ FlattenSeq(list) = r[0]
  BY <1>3, FlattenBack
<1>5. \A i \in 1..k : r[i - 1] = (<<32>> \o w[i]) \o r[i]
  BY <1>3, <1>4
<1> QED BY <1>2, <1>4, <1>5 DEF w, p, RestsOf

\* The call comes of a line in which the first k arguments are given.
Accepts(d, rest, c, k) ==
    /\ Given(d, c, k) /\ ~Refused(d, rest, c, k)
    /\ c = Cursors(d.args, rest)

LEMMA AcceptedReads ==
  ASSUME NEW d, Orderly(d), NEW rest \in Text, NEW c, NEW k, Accepts(d, rest, c, k), NEW i \in 1..k
  PROVE  /\ Reads(d.args[i], c[i - 1], Parsed(d, c, k)[i].value)
         /\ Shorter(c[i], Rewrites(d, c, k)[i], c[i - 1])
         /\ ValuesAt(d, c, i) = {Parsed(d, c, k)[i].value}
<1> DEFINE v == Parsed(d, c, k)[i].value
           arg == d.args[i]
           before == c[i - 1]
<1>1. Len(d.args) \in Nat /\ k \in 0..Len(d.args) /\ i \in 1..Len(d.args) /\ i - 1 \in 0..Len(d.args)
  BY DEF Orderly, Accepts, Given
<1>2. c[i - 1] \in Cleans /\ c[i] = Left(arg, before)
  <2>1. /\ c \in [0..Len(d.args) -> Cleans]
        /\ \A n \in 1..Len(d.args) : c[n] = Left(d.args[n], c[n - 1])
    BY <1>1, CursorsAre DEF Accepts
  <2> QED BY <1>1, <2>1
<1>3. before # <<>>
  BY <1>1 DEF Accepts, Given
<1>4. ValuesAt(d, c, i) # {}
  BY <1>1 DEF Accepts, Refused
<1>5. ValuesAt(d, c, i) = ParseValue(arg, Taken(arg, before))
  BY DEF ValuesAt
<1>6. v = CHOOSE x \in ValuesAt(d, c, i) : TRUE
  BY DEF Parsed
<1>7. v \in ParseValue(arg, Taken(arg, before))
  BY <1>4, <1>5, <1>6
<1>8. Rewrites(d, c, k)[i] = Written(v)
  BY DEF Rewrites
<1> HIDE DEF v, arg, before
<1>9. Reads(arg, before, v) /\ Shorter(Left(arg, before), Written(v), before)
  BY <1>2, <1>3, <1>7, OneTaken DEF before
<1>10. ValuesAt(d, c, i) = {v}
  BY <1>5, <1>9 DEF Reads
<1> QED BY <1>2, <1>8, <1>9, <1>10 DEF v, arg, before

LEMMA AcceptedWritten ==
  ASSUME NEW d, Orderly(d), NEW rest \in Text, NEW c, NEW k, Accepts(d, rest, c, k)
  PROVE  \E r : /\ WrittenAs(d, k, Rewrites(d, c, k), r) /\ r[0] = Rewritten(Parsed(d, c, k))
                /\ Len(r[0]) \in Nat /\ Len(r[0]) <= Len(rest) + 1 /\ r[0] \in Text
<1> DEFINE w == Rewrites(d, c, k)
           m == Len(d.args)
<1>1. m \in Nat /\ k \in 0..m /\ k \in Nat
  BY DEF Orderly, Accepts, Given
<1>2. \A i \in 1..k : Fits(d.args[i], w[i]) /\ w[i] \in Text
  <2> SUFFICES ASSUME NEW i \in 1..k PROVE Fits(d.args[i], w[i]) /\ w[i] \in Text
    OBVIOUS
  <2>1. Reads(d.args[i], c[i - 1], Parsed(d, c, k)[i].value)
    BY AcceptedReads
  <2>2. w[i] = Written(Parsed(d, c, k)[i].value)
    BY DEF Rewrites
  <2>3. Fits(d.args[i], w[i])
    BY <2>1, <2>2 DEF Reads
  <2> QED BY <2>3 DEF Fits
<1>3. PICK r : RestsOf(r, w, k, Rewritten(Parsed(d, c, k)))
  <2>1. \A i \in 1..k : Rewrites(d, c, k)[i] \in Text
    BY <1>2
  <2> HIDE DEF w
  <2>2. \E r : RestsOf(r, Rewrites(d, c, k), k, Rewritten(Parsed(d, c, k)))
    BY <1>1, <2>1, RewrittenIs
  <2> QED BY <2>2 DEF w
<1> HIDE DEF w
<1>4. WrittenAs(d, k, w, r)
  BY <1>1, <1>2, <1>3 DEF WrittenAs, RestsOf
<1>5. c \in [0..m -> Cleans] /\ c[0] = TrimStart(rest, Blank)
  BY <1>1, CursorsAre DEF Accepts
<1>6. c[k] = <<>>
  <2>1. CASE k = m
    BY <2>1 DEF Accepts, Refused
  <2>2. CASE k # m
    <3>1. k + 1 \in 1..m /\ ~(k + 1 <= k) /\ (k + 1) - 1 = k
      BY <1>1, <2>2
    <3>2. c[(k + 1) - 1] = <<>>
      BY <3>1 DEF Accepts, Given
    <3> QED BY <3>1, <3>2
  <2> QED BY <2>1, <2>2
<1>7. \A i \in 1..k : c[i - 1] # <<>>
  <2>1. \A i \in 1..k : i \in 1..m /\ i <= k
    BY <1>1
  <2> QED BY <2>1 DEF Accepts, Given
<1>8. \A i \in 1..k : Shorter(c[i], w[i], c[i - 1])
  BY AcceptedReads DEF w
<1> DEFINE b == [i \in 0..k |-> c[i]]
<1>9. b \in [0..k -> Cleans] /\ \A i \in 0..k : b[i] = c[i]
  BY <1>1, <1>5
<1> HIDE DEF b
<1>10. b[k] = <<>> /\ b[0] = c[0] /\ \A i \in 1..k : b[i - 1] # <<>> /\ Shorter(b[i], w[i], b[i - 1])
  <2>1. 0 \in 0..k /\ k \in 0..k /\ \A i \in 1..k : i \in 0..k /\ i - 1 \in 0..k
    BY <1>1
  <2> QED BY <1>6, <1>7, <1>8, <1>9, <2>1
<1>11. Len(r[0]) \in Nat /\ Len(r[0]) <= Len(b[0]) + 1 /\ Len(b[0]) \in Nat
  BY <1>1, <1>4, <1>9, <1>10, RewrittenLength
<1>12. Len(r[0]) <= Len(rest) + 1
  <2>1. Len(TrimStart(rest, Blank)) \in Nat /\ Len(rest) \in Nat
        /\ Len(TrimStart(rest, Blank)) <= Len(rest)
    BY LeftLength
  <2>2. b[0] = TrimStart(rest, Blank)
    BY <1>5, <1>10
  <2> QED BY <1>11, <2>1, <2>2
<1>13. r[0] \in Text
  BY <1>1, <1>3 DEF RestsOf
<1> QED BY <1>3, <1>4, <1>11, <1>12, <1>13 DEF w, RestsOf

LEMMA ValidIsOrderly ==
  ASSUME NEW d \in CommandDescriptor, NEW capabilities, ValidDescriptor(d, capabilities)
  PROVE  Orderly(d)
<1>1. Len(d.args) \in Nat
  BY LenProperties DEF CommandDescriptor
<1>2. ASSUME NEW i \in 1..Len(d.args), d.args[i].rest PROVE i = Len(d.args)
  <2>1. ValidArg(d.args[i], i = Len(d.args))
    BY DEF ValidDescriptor
  <2> QED BY <1>2, <2>1 DEF ValidArg, NoStringFields
<1>3. \A i, j \in 1..Len(d.args) : i < j /\ d.args[j].required => d.args[i].required
  BY DEF ValidDescriptor
<1> QED BY <1>1, <1>2, <1>3 DEF Orderly

\* A number that was parsed is no zero with a sign.
LEMMA NoMinusZero ==
  ASSUME NEW arg, NEW v, Written(v) \in Text, ParseValue(arg, Written(v)) = {v},
         v.type = "number"
  PROVE  ~SentValue(v).minusZero
<1>1. Written(v) = v.text
  BY DEF Written
<1>2. v \in ParseNumber(v.text)
  <2>1. v \in ParseValue(arg, v.text)
    BY <1>1
  <2> QED BY <2>1 DEF ParseValue, ParseInteger
<1>3. Negative(v.text) => ~(ToSet(Tail(v.text)) \subseteq {48, Dot})
  BY <1>1, <1>2, NumberAgain
<1>4. SentValue(v).minusZero = (Negative(v.text) /\ ToSet(Tail(v.text)) \subseteq {48, Dot})
  BY DEF SentValue
<1> QED BY <1>3, <1>4

\* With names that differ, every argument is in the field of its name.
LEMMA FieldsApart ==
  ASSUME NEW n \in Nat, NEW args, DOMAIN args = 1..n,
         \A i, j \in 1..n : i < j => args[i].name # args[j].name, NEW i \in 1..n
  PROVE  ArgsValue(args)[args[i].name] = SentValue(args[i].value)
<1> DEFINE name == args[i].name
           LastOfName(k) == args[k].name = name /\ \A j \in DOMAIN args : args[j].name = name => j <= k
           at == CHOOSE k \in DOMAIN args : LastOfName(k)
<1>1. \A k \in DOMAIN args : args[k].name = name => k = i
  OBVIOUS
<1>2. LastOfName(i) /\ i \in DOMAIN args
  BY <1>1
<1>3. at = i
  <2> HIDE DEF LastOfName
  <2>1. at \in DOMAIN args /\ LastOfName(at)
    BY <1>2
  <2> QED BY <1>1, <2>1 DEF LastOfName
<1>4. ArgsValue(args)[name] = SentValue(args[at].value)
  BY <1>2 DEF ArgsValue
<1> QED BY <1>3, <1>4

LEMMA CallsKept ==
  ASSUME NEW d, Orderly(d), NEW rest \in Text,
         \A i, j \in 1..Len(d.args) : i < j => d.args[i].name # d.args[j].name
  PROVE  CallSurvives(d, rest)
<1> DEFINE m == Len(d.args)
           c == Cursors(d.args, rest)
<1>1. m \in Nat
  BY DEF Orderly
<1>2. PICK k : Given(d, c, k)
  BY <1>1, GivenExists
<1>3. k \in 0..m /\ k \in Nat
  BY <1>1, <1>2 DEF Given
<1>4. SUFFICES ASSUME NEW args \in ParseArgs(d, rest)
               PROVE  /\ \A i \in DOMAIN args :
                             /\ ArgsValue(args)[args[i].name] = SentValue(args[i].value)
                             /\ args[i].value.type = "number" => ~SentValue(args[i].value).minusZero
                      /\ Len(rest) + 2 <= MaxLineChars =>
                             /\ ParseArgs(d, Rewritten(args)) = {args}
                             /\ ParseArgs(d, <<9>> \o rest \o <<32>>) = {args}
                      /\ \A i \in 1..Len(d.args) :
                             IF i <= Len(args) THEN args[i].name = d.args[i].name
                             ELSE ~d.args[i].required
  BY DEF CallSurvives
<1>5. ~Refused(d, rest, c, k) /\ args = Parsed(d, c, k) /\ ParseArgs(d, rest) = {args}
  <2>1. ParseArgs(d, rest) = IF Refused(d, rest, c, k) THEN {} ELSE {Parsed(d, c, k)}
    BY <1>1, <1>2, ParseArgsIs
  <2> QED BY <2>1
<1> DEFINE w == Rewrites(d, c, k)
<1>6. Accepts(d, rest, c, k)
  BY <1>2, <1>5 DEF Accepts
<1>7. Len(rest) + 2 <= MaxLineChars => ParseArgs(d, <<9>> \o rest \o <<32>>) = {args}
  <2>1. Len(rest) + 2 <= MaxLineChars => ParseArgs(d, <<9>> \o rest \o <<32>>) = ParseArgs(d, rest)
    BY <1>1, PaddedArgs
  <2> QED BY <1>5, <2>1
<1> HIDE DEF c
<1>8. ASSUME NEW i \in 1..m
      PROVE  IF i <= Len(args) THEN args[i].name = d.args[i].name ELSE ~d.args[i].required
  <2>1. Len(args) = k
    <3>1. args = [j \in 1..k |-> [name |-> d.args[j].name, value |-> args[j].value]]
      BY <1>5 DEF Parsed
    <3>2. DOMAIN args = 1..k
      BY <3>1
    <3>3. args \in Seq({args[j] : j \in 1..k})
      <4>1. args = [j \in 1..k |-> args[j]]
        BY <1>5 DEF Parsed
      <4> QED BY <1>3, <4>1
    <3> QED BY <1>3, <3>2, <3>3, LenProperties
  <2>2. CASE i <= k
    <3>1. i \in 1..k
      BY <1>3, <2>2
    <3> QED BY <1>5, <2>1, <2>2, <3>1 DEF Parsed
  <2>3. CASE ~(i <= k)
    <3>1. k < m /\ k + 1 \in 1..m /\ (i = k + 1 \/ k + 1 < i)
      BY <1>1, <1>3, <2>3
    <3>2. ~d.args[k + 1].required
      BY <1>5, <3>1 DEF Refused
    <3>3. ~d.args[i].required
      BY <3>1, <3>2 DEF Orderly
    <3> QED BY <2>1, <2>3, <3>3
  <2> QED BY <2>2, <2>3
<1>9. ASSUME Len(rest) + 2 <= MaxLineChars PROVE ParseArgs(d, Rewritten(args)) = {args}
  <2>1. PICK r : /\ WrittenAs(d, k, w, r) /\ r[0] = Rewritten(Parsed(d, c, k))
                 /\ Len(r[0]) \in Nat /\ Len(r[0]) <= Len(rest) + 1 /\ r[0] \in Text
    BY <1>6, AcceptedWritten
  <2> DEFINE e == Cursors(d.args, r[0])
  <2> HIDE DEF w
  <2>2. /\ \A i \in 0..k : e[i] = TrimStart(r[i], Blank)
        /\ \A i \in k..m : e[i] = <<>>
    BY <2>1, RewrittenCursors
  <2>3. \A i \in 1..k : LeavesOf(r[i - 1], w[i], r[i])
    BY <1>1, <2>1, RestTrimmed
  <2> HIDE DEF e
  <2>4. \A i \in 1..k : e[i - 1] = w[i] \o r[i] /\ e[i - 1] # <<>>
    <3>1. \A i \in 1..k : i - 1 \in 0..k
      BY <1>3
    <3> QED BY <2>2, <2>3, <3>1 DEF LeavesOf
  <2>5. Given(d, e, k)
    <3>1. ASSUME NEW i \in 1..m PROVE e[i - 1] # <<>> <=> i <= k
      <4>1. i <= k => i \in 1..k
        BY <1>3
      <4>2. ~(i <= k) => i - 1 \in k..m
        BY <1>1, <1>3
      <4> QED BY <2>2, <2>4, <4>1, <4>2
    <3> QED BY <1>3, <3>1 DEF Given
  <2>6. ASSUME NEW i \in 1..k PROVE ValuesAt(d, e, i) = ValuesAt(d, c, i)
    <3> DEFINE v == Parsed(d, c, k)[i].value
    <3>1. Reads(d.args[i], c[i - 1], v) /\ ValuesAt(d, c, i) = {v}
      BY <1>6, AcceptedReads
    <3>2. w[i] = Written(v)
      BY DEF w, Rewrites
    <3>3. Taken(d.args[i], w[i] \o r[i]) = w[i]
      BY <2>1, FollowsRest
    <3> HIDE DEF v
    <3>4. ValuesAt(d, e, i) = ParseValue(d.args[i], w[i])
      BY <2>4, <3>3 DEF ValuesAt
    <3> QED BY <3>1, <3>2, <3>4 DEF Reads
  <2>7. ~Refused(d, r[0], e, k)
    <3>1. ~(Len(r[0]) > MaxLineChars)
      <4>1. Len(rest) \in Nat /\ MaxLineChars \in Nat
        BY TextIs DEF MaxLineChars
      <4> QED BY <1>9, <2>1, <4>1
    <3>2. e[m] = <<>>
      <4>1. m \in k..m
        BY <1>1, <1>3
      <4> QED BY <2>2, <4>1
    <3> QED BY <1>5, <2>6, <3>1, <3>2 DEF Refused
  <2>8. Parsed(d, e, k) = Parsed(d, c, k)
    BY <2>6 DEF Parsed
  <2>9. ParseArgs(d, r[0]) = IF Refused(d, r[0], e, k) THEN {} ELSE {Parsed(d, e, k)}
    BY <1>1, <2>5, ParseArgsIs DEF e
  <2> QED BY <1>5, <2>1, <2>7, <2>8, <2>9
<1>10. DOMAIN args = 1..k /\ \A i \in 1..k : args[i].name = d.args[i].name
  BY <1>5 DEF Parsed
<1>11. ASSUME NEW i \in 1..k
       PROVE  /\ ArgsValue(args)[args[i].name] = SentValue(args[i].value)
              /\ args[i].value.type = "number" => ~SentValue(args[i].value).minusZero
  <2> DEFINE v == args[i].value
  <2>1. \A a, b \in 1..k : a < b => args[a].name # args[b].name
    <3>1. \A a \in 1..k : a \in 1..Len(d.args)
      BY <1>1, <1>3
    <3> QED BY <1>10, <3>1
  <2>2. ArgsValue(args)[args[i].name] = SentValue(v)
    BY <1>3, <1>10, <2>1, FieldsApart
  <2>3. Reads(d.args[i], c[i - 1], v)
    BY <1>5, <1>6, AcceptedReads
  <2> HIDE DEF v
  <2>4. Written(v) \in Text /\ ParseValue(d.args[i], Written(v)) = {v}
    BY <2>3 DEF Reads, Fits
  <2>5. v.type = "number" => ~SentValue(v).minusZero
    BY <2>4, NoMinusZero
  <2> QED BY <2>2, <2>5 DEF v
<1> QED BY <1>7, <1>8, <1>9, <1>10, <1>11

LEMMA ResultsSettle ==
  ASSUME NEW d, d.result.maxChars \in Nat, NEW text \in Text
  PROVE  ResultSettles(d, text)
<1> DEFINE type == d.result.type
           max == d.result.maxChars
<1>1. SUFFICES ASSUME NEW shown \in ValidateResult(d, text)
               PROVE  /\ ValidateResult(d, shown) = {shown}
                      /\ Negative(shown) => ~(ToSet(Tail(shown)) \subseteq {48, Dot})
  BY DEF ResultSettles
<1>2. ~(Len(text) > max) /\ Len(text) \in Nat /\ max \in Nat
  BY <1>1, TextIs DEF ValidateResult
<1>3. CASE type = "integer"
  <2>1. \A t : ~(Len(t) > max) => ValidateResult(d, t) = {DecimalOf(v.int) : v \in ParseInteger(t)}
    BY <1>3 DEF ValidateResult
  <2>2. PICK v \in ParseInteger(text) : shown = DecimalOf(v.int)
    BY <1>1, <1>2, <2>1
  <2>3. /\ shown \in Text /\ ParseInteger(shown) = {v} /\ Len(shown) <= Len(text)
        /\ Negative(shown) => ~(ToSet(Tail(shown)) \subseteq {48, Dot})
    BY <2>2, IntegerAgain
  <2>4. ~(Len(shown) > max)
    <3>1. Len(shown) \in Nat
      BY <2>3, TextIs
    <3> QED BY <1>2, <2>3, <3>1
  <2>5. ValidateResult(d, shown) = {DecimalOf(x.int) : x \in ParseInteger(shown)}
    BY <2>1, <2>4
  <2>6. {DecimalOf(x.int) : x \in {v}} = {DecimalOf(v.int)}
    OBVIOUS
  <2> QED BY <2>2, <2>3, <2>5, <2>6
<1>4. CASE type = "number"
  <2>1. \A t : ~(Len(t) > max) => ValidateResult(d, t) = {v.text : v \in ParseNumber(t)}
    BY <1>4 DEF ValidateResult
  <2>2. PICK v \in ParseNumber(text) : shown = v.text
    BY <1>1, <1>2, <2>1
  <2>3. /\ shown \in Text /\ ParseNumber(shown) = {v} /\ Len(shown) <= Len(text)
        /\ Negative(shown) => ~(ToSet(Tail(shown)) \subseteq {48, Dot})
    BY <2>2, NumberAgain
  <2>4. ~(Len(shown) > max)
    <3>1. Len(shown) \in Nat
      BY <2>3, TextIs
    <3> QED BY <1>2, <2>3, <3>1
  <2>5. ValidateResult(d, shown) = {x.text : x \in ParseNumber(shown)}
    BY <2>1, <2>4
  <2>6. {x.text : x \in {v}} = {v.text}
    OBVIOUS
  <2> QED BY <2>2, <2>3, <2>5, <2>6
<1>5. CASE type = "boolean"
  <2>1. \A t : ~(Len(t) > max) => ValidateResult(d, t) = {t} \intersect {True, False}
    BY <1>5 DEF ValidateResult
  <2>2. shown = text /\ shown \in {True, False}
    BY <1>1, <1>2, <2>1
  <2>3. ~Negative(shown)
    BY <2>2 DEF Negative, True, False, Hyphen
  <2> QED BY <1>2, <2>1, <2>2, <2>3
<1>6. type \in {"integer", "number", "boolean"}
  BY <1>1 DEF ValidateResult
<1> QED BY <1>3, <1>4, <1>5, <1>6

-----------------------------------------------------------------------------
(* JSON: what is read of it, shown and read again.                         *)

LEMMA FlatUp ==
  ASSUME NEW v, NEW n \in 0..MaxDepth, \A c \in Children(v) : n # 0 /\ Flat(c, n - 1)
  PROVE  Flat(v, n)
<1>1. CASE n # 0
  <2>1. n - 1 \in 0..(MaxDepth - 1) /\ (n - 1) + 1 = n
    BY <1>1, DepthIs
  <2>2. Layers(v)[n] = UNION {Layers(c)[n - 1] : c \in Children(v)}
    BY <2>1, LayersOfChildren
  <2> QED BY <2>2 DEF Flat
<1>2. CASE n = 0
  BY <1>2, LayersAre DEF Flat
<1> QED BY <1>1, <1>2

\* What comes of a JSON value, and what comes of that.
Returns(j, n) ==
    /\ Flat(FromJson(j), n) /\ Flat(ToJson(FromJson(j)), n)
    /\ Convertible(ToJson(FromJson(j)))
    /\ FromJson(ToJson(FromJson(j))) = FromJson(j)
    /\ ToJson(FromJson(j)).kind = "text" <=> j.kind = "text"
    /\ j.kind = "text" => ToJson(FromJson(j)) = j

LEMMA ScalarReturns ==
  ASSUME NEW j, WellFormedJson(j), NEW n \in 0..MaxDepth, Convertible(j),
         j.kind \in {"boolean", "integer", "float", "text"}
  PROVE  Returns(j, n)
<1> DEFINE v == FromJson(j)
           x == ToJson(v)
<1>1. Children(j) = {}
  BY DEF Children
<1>2. Flat(j, n) /\ Nests(j)
  BY <1>1, FlatUp, NestsFromFlat
<1> DEFINE f == [c \in Children(j) |-> FromJson(c)]
<1>3. v = ValueFrom(j, f)
  BY <1>2, JsonUnfolds
<1>4. v \in {[kind |-> "bool", bool |-> j.bool], [kind |-> "int", int |-> j.int],
             [kind |-> "number", num |-> j.num], [kind |-> "string", text |-> j.text]}
  <2> HIDE DEF v, f
  <2> QED BY <1>3 DEF ValueFrom
<1>5. Children(v) = {}
  <2> HIDE DEF v
  <2> QED BY <1>4 DEF Children
<1>6. Flat(v, n) /\ Nests(v)
  BY <1>5, FlatUp, NestsFromFlat
<1> DEFINE g == [c \in Children(v) |-> ToJson(c)]
<1>7. x = JsonFrom(v, g)
  BY <1>6, JsonUnfolds
<1>8. x = j
  <2> HIDE DEF v, x, f, g
  <2>1. CASE j.kind = "boolean"
    <3>1. v = [kind |-> "bool", bool |-> j.bool]
      BY <1>3, <2>1 DEF ValueFrom
    <3>2. x = [kind |-> "boolean", bool |-> j.bool]
      BY <1>7, <3>1 DEF JsonFrom
    <3>3. j = [kind |-> "boolean", bool |-> j.bool]
      BY <2>1 DEF WellFormedJson
    <3> QED BY <3>2, <3>3
  <2>2. CASE j.kind = "integer"
    <3>1. v = [kind |-> "int", int |-> j.int]
      BY <1>3, <2>2 DEF ValueFrom
    <3>2. x = [kind |-> "integer", int |-> j.int]
      BY <1>7, <3>1 DEF JsonFrom
    <3>3. j = [kind |-> "integer", int |-> j.int]
      BY <2>2 DEF WellFormedJson
    <3> QED BY <3>2, <3>3
  <2>3. CASE j.kind = "float"
    <3>1. v = [kind |-> "number", num |-> j.num]
      BY <1>3, <2>3 DEF ValueFrom
    <3>2. x = [kind |-> "float", num |-> j.num]
      BY <1>7, <3>1 DEF JsonFrom
    <3>3. j = [kind |-> "float", num |-> j.num]
      BY <2>3 DEF WellFormedJson
    <3> QED BY <3>2, <3>3
  <2>4. CASE j.kind = "text"
    <3>1. v = [kind |-> "string", text |-> j.text]
      BY <1>3, <2>4 DEF ValueFrom
    <3>2. x = [kind |-> "text", text |-> j.text]
      BY <1>7, <3>1 DEF JsonFrom
    <3>3. j = [kind |-> "text", text |-> j.text]
      BY <2>4 DEF WellFormedJson
    <3> QED BY <3>2, <3>3
  <2> QED BY <2>1, <2>2, <2>3, <2>4
<1> QED BY <1>2, <1>6, <1>8 DEF Returns

LEMMA ListReturns ==
  ASSUME NEW j, j.kind = "list", NEW n \in 0..MaxDepth, Flat(j, n), Convertible(j),
         \A c \in Children(j) : n # 0 /\ (Convertible(c) => Returns(c, n - 1))
  PROVE  Returns(j, n)
<1> DEFINE v == FromJson(j)
           x == ToJson(v)
           D == DOMAIN j.items
           vs == [i \in D |-> FromJson(j.items[i])]
           xs == [i \in D |-> ToJson(vs[i])]
<1>1. Nests(j)
  BY NestsFromFlat
<1>2. \A i \in D : j.items[i] \in Children(j)
  BY DEF Children, ToSet
<1>3. \A i \in D : n # 0 /\ Returns(j.items[i], n - 1)
  <2> DEFINE f == [c \in Children(j) |-> Convertible(c)]
  <2>1. Convertible(j) = ConvertibleFrom(j, f)
    BY <1>1, JsonUnfolds
  <2>2. \A i \in D : f[j.items[i]] = Convertible(j.items[i])
    BY <1>2
  <2> HIDE DEF f
  <2>3. \A i \in D : f[j.items[i]]
    BY <2>1 DEF ConvertibleFrom
  <2> QED BY <1>2, <2>2, <2>3
<1>4. v = [kind |-> "list", items |-> vs]
  <2> DEFINE f == [c \in Children(j) |-> FromJson(c)]
  <2>1. v = ValueFrom(j, f)
    BY <1>1, JsonUnfolds
  <2>2. \A i \in D : f[j.items[i]] = FromJson(j.items[i])
    BY <1>2
  <2> HIDE DEF f, v
  <2>3. v = [kind |-> "list", items |-> [i \in D |-> f[j.items[i]]]]
    BY <2>1 DEF ValueFrom
  <2>4. [i \in D |-> f[j.items[i]]] = vs
    BY <2>2
  <2> QED BY <2>3, <2>4
<1>5. DOMAIN vs = D /\ DOMAIN xs = D
      /\ \A i \in D : vs[i] = FromJson(j.items[i]) /\ xs[i] = ToJson(vs[i])
  OBVIOUS
<1>6. Flat(v, n) /\ Nests(v) /\ Children(v) = {vs[i] : i \in D}
  <2> HIDE DEF v, vs, xs
  <2>1. Children(v) = {vs[i] : i \in D}
    BY <1>4, <1>5 DEF Children, ToSet
  <2>2. \A c \in Children(v) : n # 0 /\ Flat(c, n - 1)
    BY <1>3, <1>5, <2>1 DEF Returns
  <2> QED BY <2>1, <2>2, FlatUp, NestsFromFlat
<1>7. x = [kind |-> "list", items |-> xs]
  <2> DEFINE f == [c \in Children(v) |-> ToJson(c)]
  <2>1. x = JsonFrom(v, f)
    BY <1>6, JsonUnfolds
  <2>2. \A i \in D : f[vs[i]] = ToJson(vs[i])
    BY <1>6
  <2> HIDE DEF f, v, x, vs, xs
  <2>3. x = [kind |-> "list", items |-> [i \in D |-> f[vs[i]]]]
    BY <1>4, <1>5, <2>1 DEF JsonFrom
  <2>4. [i \in D |-> f[vs[i]]] = xs
    <3>1. [i \in D |-> f[vs[i]]] = [i \in D |-> ToJson(vs[i])]
      BY <2>2
    <3> QED BY <3>1 DEF xs
  <2> QED BY <2>3, <2>4
<1> HIDE DEF v, x, vs, xs
<1>8. Flat(x, n) /\ Nests(x) /\ Children(x) = {xs[i] : i \in D}
  <2>1. Children(x) = {xs[i] : i \in D}
    BY <1>5, <1>7 DEF Children, ToSet
  <2>2. \A c \in Children(x) : n # 0 /\ Flat(c, n - 1)
    BY <1>3, <1>5, <2>1 DEF Returns
  <2> QED BY <2>1, <2>2, FlatUp, NestsFromFlat
<1>9. Convertible(x)
  <2> DEFINE f == [c \in Children(x) |-> Convertible(c)]
  <2>1. Convertible(x) = ConvertibleFrom(x, f)
    BY <1>8, JsonUnfolds
  <2>2. \A i \in D : f[xs[i]] = Convertible(xs[i])
    BY <1>8
  <2>3. \A i \in D : Convertible(xs[i])
    BY <1>3, <1>5 DEF Returns
  <2> HIDE DEF f
  <2>4. (\A i \in DOMAIN x.items : f[x.items[i]]) = TRUE
    BY <1>5, <1>7, <2>2, <2>3
  <2>5. ConvertibleFrom(x, f) = (\A i \in DOMAIN x.items : f[x.items[i]])
    BY <1>7 DEF ConvertibleFrom
  <2> QED BY <2>1, <2>4, <2>5
<1>10. FromJson(x) = v
  <2> DEFINE f == [c \in Children(x) |-> FromJson(c)]
  <2>1. FromJson(x) = ValueFrom(x, f)
    BY <1>8, JsonUnfolds
  <2>2. \A i \in D : f[xs[i]] = FromJson(xs[i])
    BY <1>8
  <2>3. \A i \in D : FromJson(xs[i]) = vs[i]
    BY <1>3, <1>5 DEF Returns
  <2> HIDE DEF f
  <2>4. ValueFrom(x, f) = [kind |-> "list", items |-> [i \in D |-> f[xs[i]]]]
    BY <1>5, <1>7 DEF ValueFrom
  <2>5. [i \in D |-> f[xs[i]]] = [i \in D |-> vs[i]]
    BY <2>2, <2>3
  <2>6. vs = [i \in D |-> vs[i]]
    BY DEF vs
  <2> QED BY <1>4, <2>1, <2>4, <2>5, <2>6
<1>11. x.kind = "list"
  BY <1>7
<1> QED BY <1>6, <1>8, <1>9, <1>10, <1>11 DEF Returns, v, x

LEMMA ObjectReturns ==
  ASSUME NEW j, j.kind = "object", ~IsArtifact(j), NEW n \in 0..MaxDepth, Flat(j, n), Convertible(j),
         \A c \in Children(j) : n # 0 /\ (Convertible(c) => Returns(c, n - 1))
  PROVE  Returns(j, n)
<1> DEFINE v == FromJson(j)
           x == ToJson(v)
           D == DOMAIN j.fields
           vs == [i \in D |-> FromJson(j.fields[i])]
           xs == [i \in D |-> ToJson(vs[i])]
<1>1. Nests(j)
  BY NestsFromFlat
<1>2. \A i \in D : j.fields[i] \in Children(j)
  BY DEF Children
<1>3. \A i \in D : n # 0 /\ Returns(j.fields[i], n - 1)
  <2> DEFINE f == [c \in Children(j) |-> Convertible(c)]
  <2>1. Convertible(j) = ConvertibleFrom(j, f)
    BY <1>1, JsonUnfolds
  <2>2. \A i \in D : f[j.fields[i]] = Convertible(j.fields[i])
    BY <1>2
  <2> HIDE DEF f
  <2>3. \A i \in D : f[j.fields[i]]
    BY <2>1 DEF ConvertibleFrom
  <2> QED BY <1>2, <2>2, <2>3
<1>4. v = [kind |-> "object", fields |-> vs]
  <2> DEFINE f == [c \in Children(j) |-> FromJson(c)]
  <2>1. v = ValueFrom(j, f)
    BY <1>1, JsonUnfolds
  <2>2. \A i \in D : f[j.fields[i]] = FromJson(j.fields[i])
    BY <1>2
  <2> HIDE DEF f, v
  <2>3. v = [kind |-> "object", fields |-> [i \in D |-> f[j.fields[i]]]]
    BY <2>1 DEF ValueFrom
  <2>4. [i \in D |-> f[j.fields[i]]] = vs
    BY <2>2
  <2> QED BY <2>3, <2>4
<1>5. DOMAIN vs = D /\ DOMAIN xs = D
      /\ \A i \in D : vs[i] = FromJson(j.fields[i]) /\ xs[i] = ToJson(vs[i])
  OBVIOUS
<1>6. Flat(v, n) /\ Nests(v) /\ Children(v) = {vs[i] : i \in D}
  <2> HIDE DEF v, vs, xs
  <2>1. Children(v) = {vs[i] : i \in D}
    BY <1>4, <1>5 DEF Children
  <2>2. \A c \in Children(v) : n # 0 /\ Flat(c, n - 1)
    BY <1>3, <1>5, <2>1 DEF Returns
  <2> QED BY <2>1, <2>2, FlatUp, NestsFromFlat
<1>7. x = [kind |-> "object", fields |-> xs]
  <2> DEFINE f == [c \in Children(v) |-> ToJson(c)]
  <2>1. x = JsonFrom(v, f)
    BY <1>6, JsonUnfolds
  <2>2. \A i \in D : f[vs[i]] = ToJson(vs[i])
    BY <1>6
  <2> HIDE DEF f, v, x, vs, xs
  <2>3. x = [kind |-> "object", fields |-> [i \in D |-> f[vs[i]]]]
    BY <1>4, <1>5, <2>1 DEF JsonFrom
  <2>4. [i \in D |-> f[vs[i]]] = xs
    <3>1. [i \in D |-> f[vs[i]]] = [i \in D |-> ToJson(vs[i])]
      BY <2>2
    <3> QED BY <3>1 DEF xs
  <2> QED BY <2>3, <2>4
<1> HIDE DEF v, x, vs, xs
<1>8. Flat(x, n) /\ Nests(x) /\ Children(x) = {xs[i] : i \in D}
  <2>1. Children(x) = {xs[i] : i \in D}
    BY <1>5, <1>7 DEF Children
  <2>2. \A c \in Children(x) : n # 0 /\ Flat(c, n - 1)
    BY <1>3, <1>5, <2>1 DEF Returns
  <2> QED BY <2>1, <2>2, FlatUp, NestsFromFlat
<1>9. Convertible(x)
  <2> DEFINE f == [c \in Children(x) |-> Convertible(c)]
  <2>1. Convertible(x) = ConvertibleFrom(x, f)
    BY <1>8, JsonUnfolds
  <2>2. \A i \in D : f[xs[i]] = Convertible(xs[i])
    BY <1>8
  <2>3. \A i \in D : Convertible(xs[i])
    BY <1>3, <1>5 DEF Returns
  <2> HIDE DEF f
  <2>4. \A i \in DOMAIN x.fields : f[x.fields[i]]
    BY <1>5, <1>7, <2>2, <2>3
  <2>5. ConvertibleFrom(x, f) = (IsArtifact(x) \/ \A i \in DOMAIN x.fields : f[x.fields[i]])
    BY <1>7 DEF ConvertibleFrom
  <2> QED BY <2>1, <2>4, <2>5
<1>10. \A key : TextAt(x, key) = TextAt(j, key)
  <2>1. ASSUME NEW key \in D
        PROVE  /\ xs[key].kind = "text" <=> j.fields[key].kind = "text"
               /\ j.fields[key].kind = "text" => xs[key] = j.fields[key]
    BY <1>3, <1>5 DEF Returns
  <2> QED BY <1>5, <1>7, <2>1 DEF TextAt
<1>11. ~IsArtifact(x)
  BY <1>10 DEF IsArtifact
<1>12. FromJson(x) = v
  <2> DEFINE f == [c \in Children(x) |-> FromJson(c)]
  <2>1. FromJson(x) = ValueFrom(x, f)
    BY <1>8, JsonUnfolds
  <2>2. \A i \in D : f[xs[i]] = FromJson(xs[i])
    BY <1>8
  <2>3. \A i \in D : FromJson(xs[i]) = vs[i]
    BY <1>3, <1>5 DEF Returns
  <2> HIDE DEF f
  <2>4. ValueFrom(x, f) = [kind |-> "object", fields |-> [i \in D |-> f[xs[i]]]]
    BY <1>5, <1>7, <1>11 DEF ValueFrom
  <2>5. [i \in D |-> f[xs[i]]] = [i \in D |-> vs[i]]
    BY <2>2, <2>3
  <2>6. vs = [i \in D |-> vs[i]]
    BY DEF vs
  <2> QED BY <1>4, <2>1, <2>4, <2>5, <2>6
<1>13. x.kind = "object"
  BY <1>7
<1> QED BY <1>6, <1>8, <1>9, <1>12, <1>13 DEF Returns, v, x

-----------------------------------------------------------------------------
(* Artifacts.                                                              *)

LEMMA WordsDiffer ==
  /\ Transport # Base64 /\ Transport # Filename /\ Transport # Retention /\ Transport \notin Places
  /\ Base64 # Filename /\ Base64 # Retention /\ Base64 \notin Places
  /\ Filename # Retention /\ Filename \notin Places /\ Retention \notin Places
  /\ Inline # Ipfs /\ Inline # <<>> /\ Ipfs # <<>> /\ Reuse # Ephemeral
  /\ Reuse # <<>> /\ Ephemeral # <<>>
BY DEF Transport, Base64, Filename, Retention, Places, Inline, Ipfs, Reuse, Ephemeral

\* The object that shows an artifact has its texts.
LEMMA ArtifactShown ==
  ASSUME NEW a, a.transport # <<>>, NEW n \in 1..MaxDepth
  PROVE  /\ ArtifactToJson(a).kind = "object" /\ Flat(ArtifactToJson(a), n)
         /\ \A key \in ArtifactKeys : TextAt(ArtifactToJson(a), key) = ArtifactText(a, key)
<1> DEFINE put == {key \in ArtifactKeys :
                       ArtifactText(a, key) # <<>> \/ (key = Base64 /\ a.transport = Inline)}
           shown == [key \in put |-> [kind |-> "text", text |-> ArtifactText(a, key)]]
           x == ArtifactToJson(a)
<1>1. x = [kind |-> "object", fields |-> shown]
  BY DEF ArtifactToJson
<1>2. DOMAIN shown = put /\ \A key \in put : shown[key] = [kind |-> "text", text |-> ArtifactText(a, key)]
  OBVIOUS
<1>3. \A key \in ArtifactKeys : key \notin put => ArtifactText(a, key) = <<>>
  OBVIOUS
<1> HIDE DEF put, shown, x
<1>4. x.kind = "object" /\ x.fields = shown
  BY <1>1
<1>5. \A key \in ArtifactKeys : TextAt(x, key) = ArtifactText(a, key)
  BY <1>2, <1>3, <1>4 DEF TextAt
<1>6. Children(x) = {shown[key] : key \in put}
  BY <1>2, <1>4 DEF Children
<1>7. ASSUME NEW c \in Children(x) PROVE n # 0 /\ Flat(c, n - 1)
  <2>1. c.kind = "text"
    BY <1>2, <1>6
  <2>2. Children(c) = {}
    BY <2>1 DEF Children
  <2>3. n # 0 /\ n - 1 \in 0..MaxDepth /\ n \in 0..MaxDepth
    BY DepthIs
  <2> QED BY <2>2, <2>3, FlatUp
<1>8. n \in 0..MaxDepth
  BY DepthIs
<1>9. Flat(x, n)
  BY <1>7, <1>8, FlatUp
<1> QED BY <1>4, <1>5, <1>9 DEF x

LEMMA BaseTwice ==
  ASSUME NEW t \in Seq(Nat)
  PROVE  /\ BaseDecode(BaseEncode(BaseDecode(t))) = BaseDecode(t)
         /\ IsBase64(t) => IsBase64(BaseEncode(BaseDecode(t)))
<1> DEFINE D == DOMAIN t
           b == BaseDecode(t)
           e == BaseEncode(b)
<1>1. \A i \in D : t[i] \in Nat
  <2>1. D = 1..Len(t) /\ Len(t) \in Nat
    BY LenProperties
  <2> QED BY <2>1, ElementOfSeq
<1>2. b = [i \in D |-> t[i] - 1000]
  BY DEF BaseDecode
<1>3. DOMAIN b = D /\ \A i \in D : b[i] = t[i] - 1000
  BY <1>2
<1> HIDE DEF b, D
<1>4. e = [i \in D |-> 1000 + b[i]]
  BY <1>3 DEF BaseEncode
<1>5. DOMAIN e = D /\ \A i \in D : e[i] = 1000 + b[i]
  BY <1>4
<1> HIDE DEF e
<1>6. \A i \in D : e[i] = t[i] /\ e[i] - 1000 = t[i] - 1000
  BY <1>1, <1>3, <1>5
<1>7. BaseDecode(e) = [i \in D |-> e[i] - 1000]
  BY <1>5 DEF BaseDecode
<1>8. BaseDecode(e) = b
  BY <1>2, <1>6, <1>7
<1>9. IsBase64(t) => IsBase64(e)
  BY <1>5, <1>6 DEF IsBase64, D
<1> QED BY <1>8, <1>9 DEF e, b

LEMMA TextType ==
  ASSUME NEW j, \A c \in Children(j) : WellFormedJson(c), NEW key
  PROVE  /\ TextAt(j, key) \in Seq(Nat)
         /\ TextAt(j, key) # <<>> => \E c \in Children(j) : TRUE
<1>1. <<>> \in Seq(Nat)
  OBVIOUS
<1>2. CASE j.kind = "object" /\ key \in DOMAIN j.fields /\ j.fields[key].kind = "text"
  <2>1. j.fields[key] \in Children(j)
    BY <1>2 DEF Children
  <2> DEFINE c == j.fields[key]
  <2>2. c.text \in Seq(Nat)
    <3>1. WellFormedJson(c) /\ c.kind = "text"
      BY <1>2, <2>1
    <3> HIDE DEF c
    <3> QED BY <3>1 DEF WellFormedJson
  <2>3. TextAt(j, key) = j.fields[key].text
    BY <1>2 DEF TextAt
  <2>4. \E b \in Children(j) : TRUE
    BY <2>1
  <2> QED BY <2>2, <2>3, <2>4
<1>3. CASE ~(j.kind = "object" /\ key \in DOMAIN j.fields /\ j.fields[key].kind = "text")
  <2>1. TextAt(j, key) = <<>>
    BY <1>3 DEF TextAt
  <2> QED BY <1>1, <2>1
<1> QED BY <1>2, <1>3

\* The artifact read of an object is the one read of what shows it.
LEMMA ArtifactAgain ==
  ASSUME NEW j, \A c \in Children(j) : WellFormedJson(c), IsArtifact(j), NEW n \in 1..MaxDepth
  PROVE  /\ IsArtifact(ArtifactToJson(ArtifactFromJson(j)))
         /\ ArtifactFromJson(ArtifactToJson(ArtifactFromJson(j))) = ArtifactFromJson(j)
<1> DEFINE a == ArtifactFromJson(j)
           x == ArtifactToJson(a)
           t == TextAt(j, Base64)
<1>1. t \in Seq(Nat)
  BY TextType
<1>2. CASE TextAt(j, Transport) = Inline
  <2>1. a = [transport |-> Inline, data |-> BaseDecode(t), filename |-> TextAt(j, Filename)]
    BY <1>2 DEF ArtifactFromJson
  <2>2. a.transport = Inline /\ a.data = BaseDecode(t)
    BY <2>1
  <2> HIDE DEF a, t
  <2>3. /\ ArtifactText(a, Transport) = Inline
        /\ ArtifactText(a, Base64) = BaseEncode(a.data)
        /\ ArtifactText(a, Filename) = a.filename
    BY <2>2, WordsDiffer DEF ArtifactText
  <2>4. \A key \in ArtifactKeys : TextAt(x, key) = ArtifactText(a, key)
    BY <2>2, ArtifactShown, WordsDiffer
  <2> HIDE DEF x
  <2>5. /\ TextAt(x, Transport) = Inline
        /\ TextAt(x, Base64) = BaseEncode(a.data)
        /\ TextAt(x, Filename) = a.filename
    <3>1. Transport \in ArtifactKeys /\ Base64 \in ArtifactKeys /\ Filename \in ArtifactKeys
      BY DEF ArtifactKeys
    <3> QED BY <2>3, <2>4, <3>1
  <2>6. IsBase64(t)
    BY <1>2, WordsDiffer DEF IsArtifact, t
  <2>7. BaseDecode(BaseEncode(a.data)) = a.data /\ IsBase64(BaseEncode(a.data))
    BY <1>1, <2>2, <2>6, BaseTwice
  <2>8. IsArtifact(x)
    BY <2>5, <2>7 DEF IsArtifact
  <2>9. ArtifactFromJson(x) = [transport |-> Inline, data |-> a.data, filename |-> a.filename]
    BY <2>5, <2>7 DEF ArtifactFromJson
  <2>10. a = [transport |-> Inline, data |-> a.data, filename |-> a.filename]
    BY <2>1
  <2>11. ArtifactFromJson(x) = a
    BY <2>9, <2>10
  <2> QED BY <2>8, <2>11 DEF a, x
<1>3. CASE TextAt(j, Transport) # Inline
  <2> DEFINE places == [key \in Places |-> TextAt(j, key)]
             kept == IF TextAt(j, Retention) = Reuse THEN Reuse ELSE Ephemeral
  <2>1. a = [transport |-> Ipfs, places |-> places, filename |-> TextAt(j, Filename),
             retention |-> kept]
    BY <1>3 DEF ArtifactFromJson
  <2>2. a.transport = Ipfs /\ a.places = places /\ a.retention = kept
    BY <2>1
  <2>3. kept \in {Reuse, Ephemeral}
    OBVIOUS
  <2> HIDE DEF a, kept
  <2>4. /\ ArtifactText(a, Transport) = Ipfs
        /\ ArtifactText(a, Filename) = a.filename
        /\ ArtifactText(a, Retention) = a.retention
        /\ \A key \in Places : ArtifactText(a, key) = a.places[key]
    <3>1. ArtifactText(a, Transport) = Ipfs /\ ArtifactText(a, Filename) = a.filename
      BY <2>2, WordsDiffer DEF ArtifactText
    <3>2. ArtifactText(a, Retention) = a.retention
      BY <2>2, <2>3, WordsDiffer DEF ArtifactText
    <3>3. ASSUME NEW key \in Places PROVE ArtifactText(a, key) = a.places[key]
      <4>1. key # Transport /\ key # Filename /\ key # Base64 /\ key # Retention
        BY WordsDiffer
      <4> QED BY <2>2, <4>1 DEF ArtifactText
    <3> QED BY <3>1, <3>2, <3>3
  <2>5. \A key \in ArtifactKeys : TextAt(x, key) = ArtifactText(a, key)
    BY <2>2, ArtifactShown, WordsDiffer
  <2> HIDE DEF x
  <2>6. /\ TextAt(x, Transport) = Ipfs /\ TextAt(x, Filename) = a.filename
        /\ TextAt(x, Retention) = a.retention
        /\ \A key \in Places : TextAt(x, key) = a.places[key]
    <3>1. Transport \in ArtifactKeys /\ Filename \in ArtifactKeys /\ Retention \in ArtifactKeys
          /\ \A key \in Places : key \in ArtifactKeys
      BY DEF ArtifactKeys
    <3> QED BY <2>4, <2>5, <3>1
  <2>7. IsArtifact(x)
    BY <2>6 DEF IsArtifact
  <2>8. (IF TextAt(x, Retention) = Reuse THEN Reuse ELSE Ephemeral) = kept
    BY <2>2, <2>3, <2>6, WordsDiffer
  <2>9. [key \in Places |-> TextAt(x, key)] = places
    BY <2>2, <2>6
  <2> HIDE DEF places
  <2>10. ArtifactFromJson(x) = [transport |-> Ipfs, places |-> places, filename |-> TextAt(j, Filename),
                                retention |-> kept]
    <3>1. TextAt(x, Transport) # Inline
      BY <2>6, WordsDiffer
    <3>2. TextAt(x, Filename) = TextAt(j, Filename)
      BY <2>1, <2>6
    <3> QED BY <2>8, <2>9, <3>1, <3>2 DEF ArtifactFromJson
  <2>11. ArtifactFromJson(x) = a
    BY <2>1, <2>10
  <2> QED BY <2>7, <2>11 DEF a, x
<1> QED BY <1>2, <1>3

LEMMA ArtifactReturns ==
  ASSUME NEW j, j.kind = "object", IsArtifact(j), NEW n \in 0..MaxDepth, Flat(j, n),
         \A c \in Children(j) : n # 0 /\ WellFormedJson(c)
  PROVE  Returns(j, n)
<1> DEFINE a == ArtifactFromJson(j)
           v == FromJson(j)
           x == ToJson(v)
           y == ArtifactToJson(a)
<1>1. n \in 1..MaxDepth
  <2>1. TextAt(j, Transport) # <<>>
    BY WordsDiffer DEF IsArtifact
  <2>2. n # 0
    BY <2>1, TextType
  <2> QED BY <2>2, DepthIs
<1>2. IsArtifact(y) /\ ArtifactFromJson(y) = a
  BY <1>1, ArtifactAgain
<1>3. a.transport # <<>>
  <2>1. a.transport \in {Inline, Ipfs}
    BY DEF ArtifactFromJson
  <2> HIDE DEF a
  <2> QED BY <2>1, WordsDiffer
<1>4. y.kind = "object" /\ Flat(y, n)
  <2> HIDE DEF a
  <2> QED BY <1>1, <1>3, ArtifactShown
<1> HIDE DEF a, y
<1>5. v = [kind |-> "artifact", artifact |-> a]
  <2>1. v = ValueFrom(j, [c \in Children(j) |-> FromJson(c)])
    BY NestsFromFlat, JsonUnfolds
  <2> QED BY <2>1 DEF ValueFrom, a
<1> HIDE DEF v
<1>6. Flat(v, n) /\ Nests(v)
  <2>1. Children(v) = {}
    BY <1>5 DEF Children
  <2> QED BY <2>1, FlatUp, NestsFromFlat
<1>7. x = y
  <2>1. x = JsonFrom(v, [c \in Children(v) |-> ToJson(c)])
    BY <1>6, JsonUnfolds
  <2> QED BY <1>5, <2>1 DEF JsonFrom, y
<1> HIDE DEF x
<1>8. Nests(y)
  BY <1>4, NestsFromFlat
<1>9. Convertible(y)
  <2>1. Convertible(y) = ConvertibleFrom(y, [c \in Children(y) |-> Convertible(c)])
    BY <1>8, JsonUnfolds
  <2> DEFINE f == [c \in Children(y) |-> Convertible(c)]
  <2> HIDE DEF f
  <2>2. ConvertibleFrom(y, f) = (IsArtifact(y) \/ \A i \in DOMAIN y.fields : f[y.fields[i]])
    BY <1>4 DEF ConvertibleFrom
  <2>3. ConvertibleFrom(y, f)
    BY <1>2, <2>2
  <2> QED BY <2>1, <2>3 DEF f
<1>10. FromJson(y) = v
  <2>1. FromJson(y) = ValueFrom(y, [c \in Children(y) |-> FromJson(c)])
    BY <1>8, JsonUnfolds
  <2>2. ValueFrom(y, [c \in Children(y) |-> FromJson(c)]) = [kind |-> "artifact", artifact |-> ArtifactFromJson(y)]
    BY <1>2, <1>4 DEF ValueFrom
  <2> QED BY <1>2, <1>5, <2>1, <2>2
<1> QED BY <1>4, <1>6, <1>7, <1>9, <1>10 DEF Returns, v, x

SoundJson(j, n) == Flat(j, n) /\ (\A w \in Parts(j) : WellFormedJson(w)) /\ Convertible(j)

LEMMA AllReturn ==
  ASSUME NEW n \in 0..MaxDepth, NEW j, SoundJson(j, n)
  PROVE  Returns(j, n)
<1> DEFINE P(m) == \A i : SoundJson(i, m) => Returns(i, m)
           D == {m \in 0..MaxDepth : ~P(m)}
<1>1. SUFFICES ASSUME D # {} PROVE FALSE
  <2> HIDE DEF P
  <2> SUFFICES ASSUME D = {} PROVE Returns(j, n)
    OBVIOUS
  <2>1. P(n)
    OBVIOUS
  <2> QED BY <2>1 DEF P
<1>2. PICK m \in D : \A i \in D : m <= i
  <2>1. D \in SUBSET Nat
    BY DepthIs
  <2> HIDE DEF D
  <2> QED BY <1>1, <2>1, LeastNumber
<1>3. m \in 0..MaxDepth /\ ~P(m)
  OBVIOUS
<1>4. m # 0 => P(m - 1)
  <2> SUFFICES ASSUME m # 0 PROVE P(m - 1)
    OBVIOUS
  <2>1. m - 1 \in 0..MaxDepth /\ ~(m <= m - 1)
    BY <1>3, DepthIs
  <2> HIDE DEF P
  <2> QED BY <1>2, <2>1
<1>5. PICK i : SoundJson(i, m) /\ ~Returns(i, m)
  BY <1>3
<1>6. Flat(i, m) /\ Nests(i) /\ Convertible(i) /\ \A w \in Parts(i) : WellFormedJson(w)
  BY <1>3, <1>5, NestsFromFlat DEF SoundJson
<1>7. WellFormedJson(i)
  BY <1>6, ValueIsPart
<1>8. ASSUME NEW c \in Children(i)
      PROVE  m # 0 /\ WellFormedJson(c) /\ (Convertible(c) => Returns(c, m - 1))
  <2>1. m # 0 /\ Flat(c, m - 1)
    BY <1>3, <1>6, FlatChild
  <2>2. Parts(c) \subseteq Parts(i) /\ c \in Parts(c)
    BY <1>6, ChildNests, ValueIsPart
  <2>3. WellFormedJson(c) /\ (Convertible(c) => SoundJson(c, m - 1))
    BY <1>6, <2>1, <2>2 DEF SoundJson
  <2> QED BY <1>4, <2>1, <2>3
<1> HIDE DEF P, D
<1>9. CASE i.kind \in {"boolean", "integer", "float", "text"}
  BY <1>3, <1>5, <1>6, <1>7, <1>9, ScalarReturns
<1>10. CASE i.kind = "list"
  BY <1>3, <1>5, <1>6, <1>8, <1>10, ListReturns
<1>11. CASE i.kind = "object" /\ ~IsArtifact(i)
  BY <1>3, <1>5, <1>6, <1>8, <1>11, ObjectReturns
<1>12. CASE i.kind = "object" /\ IsArtifact(i)
  BY <1>3, <1>5, <1>6, <1>8, <1>12, ArtifactReturns
<1>13. CASE i.kind = "null"
  <2>1. Convertible(i) = ConvertibleFrom(i, [c \in Children(i) |-> Convertible(c)])
    BY <1>6, JsonUnfolds
  <2>2. \A f : ConvertibleFrom(i, f) = FALSE
    BY <1>13 DEF ConvertibleFrom
  <2> QED BY <1>6, <2>1, <2>2
<1>14. i.kind \in {"boolean", "integer", "float", "text", "list", "object", "null"}
  BY <1>7 DEF WellFormedJson
<1> QED BY <1>9, <1>10, <1>11, <1>12, <1>13, <1>14

LEMMA JsonsAreStable ==
  ASSUME NEW j, IsJson(j)
  PROVE  JsonStable(j)
<1>1. Convertible(j) => SoundJson(j, MaxDepth)
  BY DEF IsJson, SoundJson, Flat
<1>2. Convertible(j) => Returns(j, MaxDepth)
  BY <1>1, DepthIs, AllReturn
<1> QED BY <1>2 DEF JsonStable, Returns

-----------------------------------------------------------------------------
(* Cases: what was drawn is a case of its part.                            *)

CaseDrawn ==
    \/ case = NoCase
    \/ \E part \in DOMAIN Drawn : case \in [part : {part}, in : Drawn[part]]

LEMMA CasesAreDrawn == CaseSpec => []CaseDrawn
<1>1. CaseInit => CaseDrawn
  BY DEF CaseInit, CaseDrawn
<1>2. CaseDrawn /\ [Draw]_case => CaseDrawn'
  BY DEF CaseDrawn, Draw
<1> QED BY <1>1, <1>2, PTL DEF CaseSpec

LEMMA DrawnOf ==
  ASSUME CaseDrawn,
         NEW part \in {"json", "line", "call", "value", "chunks", "batch", "envelope", "topic", "person"},
         case.part = part
  PROVE  case.in \in Drawn[part]
<1>1. case # NoCase
  BY DEF NoCase
<1>2. PICK p \in DOMAIN Drawn : case \in [part : {p}, in : Drawn[p]]
  BY <1>1 DEF CaseDrawn
<1>3. p = part /\ case.in \in Drawn[p]
  BY <1>2
<1> QED BY <1>3

(* wire.rs signed_* and sealed_envelope against verified_* and signing.rs   *)
(* verify_envelope_bytes: whatever is drawn, what was signed verifies,      *)
(* however its fields and lists are ordered.                                *)
THEOREM SignedVerifies == CaseSpec => []SignaturesSurvive
<1>1. CaseDrawn => SignaturesSurvive
  <2> SUFFICES ASSUME CaseDrawn PROVE SignaturesSurvive
    OBVIOUS
  <2>1. ASSUME case.part = "envelope"
        PROVE  SealSurvives(case.in.did, case.in.head, case.in.tag, case.in.payloads)
    <3>1. case.in \in Drawn["envelope"]
      BY <2>1, DrawnOf
    <3>2. case.in.did \in Signers /\ case.in.tag \in PayloadTags /\ IsHead(case.in.head)
      BY <3>1, DrawnAssumption
    <3> QED BY <3>2, SealsSurvive
  <2>2. ASSUME case.part = "topic"
        PROVE  TopicSurvives(case.in.did, case.in.time, case.in.message)
    <3>1. case.in \in Drawn["topic"]
      BY <2>2, DrawnOf
    <3>2. case.in.did \in Signers /\ IsTopic(case.in.message)
      BY <3>1, DrawnAssumption
    <3> QED BY <3>2, TopicsSurvive
  <2> QED BY <2>1, <2>2 DEF SignaturesSurvive
<1> QED BY <1>1, CasesAreDrawn, PTL

(* lib.rs compute_curp against validate_curp_encoded: every CURP computed   *)
(* for a person that is drawn, of a year that position 17 tells apart, is   *)
(* one that the worker accepts.                                             *)
THEOREM CurpsAreAccepted == CaseSpec => []CurpRoundTrips
<1>1. CaseDrawn => CurpRoundTrips
  <2> SUFFICES ASSUME CaseDrawn, case.part = "person" PROVE RoundTrips(case.in)
    BY DEF CurpRoundTrips
  <2>1. case.in \in Drawn["person"]
    BY DrawnOf
  <2>2. {case.in.nombre, case.in.paterno, case.in.materno} \subseteq Seq(Seq(Character))
    BY <2>1, DrawnAssumption
  <2> QED BY <2>2, ComputedIsValid
<1> QED BY <1>1, CasesAreDrawn, PTL

(* authorization.rs encode_value, command_args_digest, batch_digest,       *)
(* chunks_digest and ipfs_digest: whatever is drawn, a digest is that of   *)
(* what was authorised and of nothing else.                                *)
THEOREM DigestsAreToldApart == CaseSpec => []DigestsTellApart
<1>1. CaseDrawn => DigestsTellApart
  <2> SUFFICES ASSUME CaseDrawn PROVE DigestsTellApart
    OBVIOUS
  <2>1. ASSUME case.part = "value"
        PROVE  ValuesToldApart(case.in.tool, case.in.v, case.in.other, case.in.w)
    <3>1. case.in \in Drawn["value"]
      BY <2>1, DrawnOf
    <3>2. IsValue(Call(case.in.tool, case.in.v)) /\ IsValue(Call(case.in.other, case.in.w))
      BY <3>1, DrawnAssumption
    <3> QED BY <3>2, ValuesAreToldApart
  <2>2. ASSUME case.part = "chunks"
        PROVE  FilesToldApart(case.in.domain, case.in.chunks, case.in.other, case.in.others)
    <3>1. case.in \in Drawn["chunks"]
      BY <2>2, DrawnOf
    <3>2. /\ {case.in.domain, case.in.other} \subseteq {DomainTool, DomainQuery}
          /\ IsFiles(case.in.chunks) /\ IsFiles(case.in.others)
      BY <3>1, DrawnAssumption
    <3>3. case.in.domain \in Domains /\ case.in.other \in Domains \ {DomainIpfs}
      BY <3>2, DomainsOfChunks
    <3> QED BY <3>2, <3>3, FilesAreToldApart
  <2>3. ASSUME case.part = "batch"
        PROVE  BatchesToldApart(case.in.head, case.in.items, case.in.other, case.in.others)
    <3>1. case.in \in Drawn["batch"]
      BY <2>3, DrawnOf
    <3>2. IsBatch(case.in.head, case.in.items) /\ IsBatch(case.in.other, case.in.others)
      BY <3>1, DrawnAssumption
    <3> QED BY <3>2, BatchesAreToldApart
  <2> QED BY <2>1, <2>2, <2>3 DEF DigestsTellApart
<1> QED BY <1>1, CasesAreDrawn, PTL

LEMMA ValidIsBounded ==
  ASSUME NEW d, NEW capabilities, ValidDescriptor(d, capabilities)
  PROVE  d.result.maxChars \in Nat
<1>1. d.result.maxChars \in 1..MaxResultChars
  BY Zenon DEF ValidDescriptor
<1>2. MaxResultChars \in Nat
  BY DEF MaxResultChars
<1> QED BY <1>1, <1>2

(* commands.rs classify_line, parse_args and validate_result, dynamic.rs    *)
(* from_json and to_json: whatever line is drawn is kept, whatever call of  *)
(* a valid descriptor is drawn reads back as itself, every result shown is  *)
(* shown the same again, and every JSON value that enters leaves and enters *)
(* as the same value.                                                       *)
THEOREM CallsAndResultsAreSettled == CaseSpec => []CallsAndResultsSettle
<1>1. CaseDrawn => CallsAndResultsSettle
  <2> SUFFICES ASSUME CaseDrawn PROVE CallsAndResultsSettle
    OBVIOUS
  <2>1. ASSUME case.part = "json" PROVE JsonStable(case.in)
    <3>1. case.in \in Drawn["json"]
      BY <2>1, DrawnOf
    <3>2. IsJson(case.in)
      BY <3>1, DrawnAssumption
    <3> QED BY <3>2, JsonsAreStable
  <2>2. ASSUME case.part = "line" PROVE LineKept(case.in)
    <3>1. case.in \in Drawn["line"]
      BY <2>2, DrawnOf
    <3>2. case.in \in Text
      BY <3>1, DrawnAssumption
    <3> QED BY <3>2, EveryLineKept
  <2>3. ASSUME case.part = "call"
        PROVE  CallSurvives(case.in.d, case.in.rest) /\ ResultSettles(case.in.d, case.in.rest)
    <3>1. case.in \in Drawn["call"]
      BY <2>3, DrawnOf
    <3>2. /\ case.in.d \in CommandDescriptor /\ ValidDescriptor(case.in.d, DOMAIN Registry)
          /\ case.in.rest \in Text
      BY <3>1, DrawnAssumption
    <3>3. Orderly(case.in.d)
      BY <3>2, ValidIsOrderly
    <3>4. case.in.d.result.maxChars \in Nat
      BY <3>2, ValidIsBounded
    <3>5. \A i, j \in 1..Len(case.in.d.args) :
             i < j => case.in.d.args[i].name # case.in.d.args[j].name
      BY <3>2 DEF ValidDescriptor
    <3> QED BY <3>2, <3>3, <3>4, <3>5, CallsKept, ResultsSettle
  <2> QED BY <2>1, <2>2, <2>3 DEF CallsAndResultsSettle
<1> QED BY <1>1, CasesAreDrawn, PTL
===============================================================================
