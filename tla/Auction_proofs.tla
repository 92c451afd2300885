---------------------------- MODULE Auction_proofs ----------------------------
(***************************************************************************)
(* Proofs about Auction, for any cycles, missions, providers and terms.    *)
(* The rule of selection rests on there being a best bid among any (Best): *)
(* the ranks are ordered numbers, so the code's min_by finds one.          *)
(***************************************************************************)
EXTENDS Auction, TLAPS, WellFoundedInduction, SequenceTheorems

-----------------------------------------------------------------------------
(* Selection.                                                              *)

LEMMA LeastNatural ==
    ASSUME NEW S \in SUBSET Nat, S # {}
    PROVE  \E n \in S : \A m \in S : n <= m
<1>1. PICK n \in S : \A m \in S : ~(<<m, n>> \in OpToRel(<, Nat))
  BY NatLessThanWellFounded, WFMin
<1>2. \A m \in S : ~(m < n)
  BY <1>1 DEF OpToRel
<1> QED BY <1>2

LEMMA GreatestNatural ==
    ASSUME NEW S \in SUBSET Nat, S # {}, NEW limit \in Nat, \A n \in S : n <= limit
    PROVE  \E n \in S : \A m \in S : m <= n
<1> DEFINE D == {limit - n : n \in S}
<1>1. \A n \in S : limit - n \in Nat
  OBVIOUS
<1>2. PICK d \in D : \A e \in D : d <= e
  <2>1. D \in SUBSET Nat /\ D # {}
    BY <1>1
  <2> HIDE DEF D
  <2> QED BY <2>1, LeastNatural
<1>3. PICK n \in S : d = limit - n
  OBVIOUS
<1>4. \A m \in S : limit - n <= limit - m
  BY <1>2, <1>3
<1> QED BY <1>4

\* Of any providers, some one is beaten by no other.
LEMMA Best ==
    ASSUME NEW S \in SUBSET Providers, S # {}
    PROVE  \E p \in S : \A q \in S : ~Beats(q, p)
<1> DEFINE Trust(p) == Terms[p].trust
           Reputation(p) == Terms[p].reputation
           Latency(p) == Terms[p].latency
<1>1. \A p \in Providers : Trust(p) \in Nat /\ Reputation(p) \in Nat /\ Latency(p) \in Nat
  BY TermsAssumption
<1>2. PICK t, r \in Nat : \A p \in Providers : Trust(p) <= t /\ Reputation(p) <= r
  BY TermsAssumption
<1>3. PICK a \in S : \A q \in S : Trust(q) <= Trust(a)
  <2> DEFINE T == {Trust(p) : p \in S}
  <2>1. T \in SUBSET Nat /\ T # {} /\ \A n \in T : n <= t
    BY <1>1, <1>2
  <2>2. PICK n \in T : \A m \in T : m <= n
    BY <2>1, GreatestNatural
  <2> QED BY <2>2
<1> DEFINE A == {p \in S : Trust(p) = Trust(a)}
<1>4. PICK b \in A : \A q \in A : Reputation(q) <= Reputation(b)
  <2> DEFINE T == {Reputation(p) : p \in A}
  <2>1. T \in SUBSET Nat /\ T # {} /\ \A n \in T : n <= r
    BY <1>1, <1>2
  <2>2. PICK n \in T : \A m \in T : m <= n
    BY <2>1, GreatestNatural
  <2> QED BY <2>2
<1> DEFINE B == {p \in A : Reputation(p) = Reputation(b)}
<1>5. PICK c \in B : \A q \in B : Latency(c) <= Latency(q)
  <2> DEFINE T == {Latency(p) : p \in B}
  <2>1. T \in SUBSET Nat /\ T # {}
    BY <1>1
  <2>2. PICK n \in T : \A m \in T : n <= m
    BY <2>1, LeastNatural
  <2> QED BY <2>2
<1>6. \A q \in S : ~Beats(q, c)
  <2> SUFFICES ASSUME NEW q \in S, Beats(q, c) PROVE FALSE
    OBVIOUS
  <2>1. Trust(q) <= Trust(c)
    BY <1>3
  <2>2. ~(Trust(q) > Trust(c))
    BY <2>1, <1>1
  <2>3. Trust(q) = Trust(c)
    BY <2>2 DEF Beats
  <2>4. q \in A
    BY <2>3
  <2>5. ~(Reputation(q) > Reputation(c))
    BY <2>4, <1>4, <1>1
  <2>6. Reputation(q) = Reputation(c)
    BY <2>2, <2>5 DEF Beats
  <2>7. ~(Latency(q) < Latency(c))
    BY <2>4, <2>6, <1>5, <1>1
  <2> QED BY <2>2, <2>5, <2>7 DEF Beats
<1> QED BY <1>6

\* min_by: of the bids at some places, one that no other of them beats.
LEMMA FirstGives ==
    ASSUME NEW seq \in Seq(Providers), NEW places \in SUBSET DOMAIN seq, places # {}
    PROVE  \E i \in places :
               First(places, seq) = seq[i] /\ \A j \in places : ~Beats(seq[j], seq[i])
<1> DEFINE best == {i \in places : \A j \in places : ~Beats(seq[j], seq[i])}
<1>1. DOMAIN seq \subseteq Nat /\ \A i \in DOMAIN seq : seq[i] \in Providers
  BY LenProperties, ElementOfSeq
<1>2. best # {}
  <2> DEFINE S == {seq[i] : i \in places}
  <2>1. S \in SUBSET Providers /\ S # {}
    BY <1>1
  <2>2. PICK p \in S : \A q \in S : ~Beats(q, p)
    <3> HIDE DEF S
    <3> QED BY <2>1, Best
  <2>3. PICK i \in places : p = seq[i]
    OBVIOUS
  <2> QED BY <2>2, <2>3
<1>3. best \in SUBSET Nat
  BY <1>1
<1>4. \E i \in best : \A j \in best : i <= j
  <2> HIDE DEF best
  <2> QED BY <1>2, <1>3, LeastNatural
<1>5. (CHOOSE i \in best : \A j \in best : i <= j) \in best
  <2> HIDE DEF best
  <2> QED BY <1>4
<1>6. First(places, seq) = seq[CHOOSE i \in best : \A j \in best : i <= j]
  BY <1>2 DEF First
<1> QED BY <1>5, <1>6

LEMMA FirstOfNone == ASSUME NEW seq PROVE First({}, seq) = NoProvider
BY DEF First

\* select_winning_bid, of the bids kept: nobody exactly when none is eligible,
\* else the preferred provider if it is, else one that no other beats.
LEMMA SelectGives ==
    ASSUME NEW c \in Cycles, collected[c] \in Seq(Providers),
           kept[c] \subseteq DOMAIN collected[c]
    PROVE  LET ok == {collected[c][i] : i \in Eligible(c)}
           IN /\ Select(c) = NoProvider => ok = {}
              /\ Select(c) # NoProvider => Select(c) \in ok
              /\ Preferred[c] \in ok => Select(c) = Preferred[c]
              /\ Preferred[c] \notin ok => \A p \in ok : ~Beats(p, Select(c))
<1> DEFINE seq == collected[c]
           places == Eligible(c)
           ok == {seq[i] : i \in places}
<1>1. \A i \in DOMAIN seq : seq[i] \in Providers
  BY LenProperties, ElementOfSeq
<1>2. places \in SUBSET DOMAIN seq
  BY DEF Eligible
<1>3. NoProvider \notin ok
  BY <1>1, <1>2, CyclesAssumption
<1>4. seq \in Seq(Providers)
  OBVIOUS
<1>5. CASE Preferred[c] \in ok
  <2>1. Select(c) = Preferred[c]
    BY <1>5 DEF Select
  <2> QED BY <2>1, <1>5, <1>3
<1>6. CASE Preferred[c] \notin ok
  <2>1. Select(c) = First(places, seq)
    BY <1>6 DEF Select
  <2>2. CASE places = {}
    <3>1. Select(c) = NoProvider
      BY <2>1, <2>2, FirstOfNone
    <3> QED BY <2>2, <3>1, <1>6
  <2>3. CASE places # {}
    <3> HIDE DEF places, seq
    <3>1. PICK i \in places :
              First(places, seq) = seq[i] /\ \A j \in places : ~Beats(seq[j], seq[i])
      BY <2>3, <1>2, <1>4, FirstGives
    <3>2. seq[i] \in ok /\ \A p \in ok : ~Beats(p, seq[i])
      BY <3>1
    <3> QED BY <3>1, <3>2, <2>1, <1>3, <1>6 DEF places, seq
  <2> QED BY <2>2, <2>3
<1> QED BY <1>5, <1>6

-----------------------------------------------------------------------------
(* Type correctness.                                                       *)

\* The places the filter has looked at, and kept, are those of bids; it runs
\* only once the offer is out and the window closed.
PlacesLooked ==
    \A c \in Cycles :
        /\ looked[c] <= Len(collected[c])
        /\ kept[c] \subseteq 1..looked[c]
        /\ caller[c] # "published" \/ collector[c] # "closed" => looked[c] = 0

LEMMA SelectedIsProvider ==
    ASSUME TypeOK, PlacesLooked, NEW c \in Cycles
    PROVE  /\ Select(c) \in Providers \union {NoProvider}
           /\ Select(c) # NoProvider =>
                 \E i \in DOMAIN collected[c] : Select(c) = collected[c][i]
<1>1. collected[c] \in Seq(Providers) /\ looked[c] \in Nat
  BY DEF TypeOK
<1>2. DOMAIN collected[c] = 1..Len(collected[c]) /\ Len(collected[c]) \in Nat
  BY <1>1, LenProperties
<1>3. kept[c] \subseteq DOMAIN collected[c]
  BY <1>1, <1>2 DEF PlacesLooked
<1>4. Eligible(c) \subseteq DOMAIN collected[c]
  BY <1>3 DEF Eligible
<1>5. \A i \in DOMAIN collected[c] : collected[c][i] \in Providers
  BY <1>1, ElementOfSeq, LenProperties
<1>6. Select(c) # NoProvider => Select(c) \in {collected[c][i] : i \in Eligible(c)}
  BY <1>1, <1>3, SelectGives
<1> QED BY <1>4, <1>5, <1>6

LEMMA TypesKept == TypeOK /\ PlacesLooked /\ [Next]_vars => TypeOK'
<1> SUFFICES ASSUME TypeOK, PlacesLooked, [Next]_vars PROVE TypeOK'
  OBVIOUS
<1> USE CyclesAssumption DEF TypeOK, CallerSteps, CollectorSteps, filterVars
<1>1. ASSUME NEW c \in Cycles, Start(c) PROVE TypeOK'
  BY <1>1 DEF Start
<1>2. ASSUME NEW c \in Cycles, OpenWindow(c) PROVE TypeOK'
  <2>1. [bids |-> <<>>, preferred |-> Preferred[c]] \in Window
    BY EmptySeq DEF Window
  <2> QED BY <1>2, <2>1 DEF OpenWindow
<1>3. ASSUME NEW c \in Cycles, PublishOffer(c) PROVE TypeOK'
  BY <1>3 DEF PublishOffer
<1>4. ASSUME NEW c \in Cycles, TakeWindow(c) PROVE TypeOK'
  <2>1. windows[MissionOf[c]] # NoWindow => windows[MissionOf[c]].bids \in Seq(Providers)
    BY DEF Window
  <2> QED BY <1>4, <2>1, EmptySeq DEF TakeWindow
<1>5. ASSUME NEW c \in Cycles, CloseEarly(c) PROVE TypeOK'
  BY <1>5 DEF CloseEarly
<1>6. ASSUME NEW c \in Cycles, Cutoff(c) PROVE TypeOK'
  BY <1>6 DEF Cutoff
<1>7. ASSUME NEW c \in Cycles, Choose(c) PROVE TypeOK'
  <2>1. Select(c) \in Providers \union {NoProvider}
    BY SelectedIsProvider
  <2> QED BY <1>7, <2>1, EmptySeq DEF Choose
<1>8. ASSUME NEW c \in Cycles, NEW p \in BidsOn[c], Bid(p, c) PROVE TypeOK'
  BY <1>8 DEF Bid
<1>9. ASSUME NEW b \in bids, Deliver(b) PROVE TypeOK'
  <2>1. b.provider \in Providers /\ b.mission \in Missions
    OBVIOUS
  <2>2. CASE windows[b.mission] = NoWindow
    BY <1>9, <2>2 DEF Deliver
  <2>3. CASE windows[b.mission] # NoWindow
    <3> DEFINE w == windows[b.mission]
    <3>1. w \in Window
      BY <2>1, <2>3
    <3>2. [w EXCEPT !.bids = Append(@, b.provider)] \in Window
      <4>1. w.bids \in Seq(Providers)
        BY <3>1 DEF Window
      <4>2. Append(w.bids, b.provider) \in Seq(Providers)
        BY <4>1, <2>1, AppendProperties
      <4> QED BY <3>1, <4>2 DEF Window
    <3>3. windows' = [windows EXCEPT ![b.mission] = [w EXCEPT !.bids = Append(@, b.provider)]]
      BY <1>9, <2>3 DEF Deliver
    <3>4. windows' \in [Missions -> Window \union {NoWindow}]
      BY <3>2, <3>3, <2>1
    <3> QED BY <1>9, <3>4 DEF Deliver
  <2> QED BY <2>2, <2>3
<1>10. ASSUME NEW p \in Undialable, Connectivity(p) PROVE TypeOK'
  <2>1. connected' \subseteq Undialable
    BY <1>10 DEF Connectivity
  <2>2. met' \in [Cycles -> SUBSET Undialable] /\ steady' \in [Cycles -> SUBSET Undialable]
    BY <1>10, <2>1 DEF Connectivity
  <2> QED BY <1>10, <2>1, <2>2 DEF Connectivity
<1>11. ASSUME NEW c \in Cycles, Look(c) PROVE TypeOK'
  BY <1>11 DEF Look
<1>12. CASE UNCHANGED vars
  BY <1>12 DEF vars
<1> QED BY <1>1, <1>2, <1>3, <1>4, <1>5, <1>6, <1>7, <1>8, <1>9, <1>10, <1>11, <1>12
        DEF Next, Cycle

LEMMA PlacesKept == TypeOK /\ PlacesLooked /\ [Next]_vars => PlacesLooked'
<1> SUFFICES ASSUME TypeOK, PlacesLooked, [Next]_vars PROVE PlacesLooked'
  OBVIOUS
<1>1. ASSUME UNCHANGED <<collected, looked, kept>>,
             UNCHANGED <<caller, collector>>
      PROVE  PlacesLooked'
  BY <1>1 DEF PlacesLooked
<1>2. ASSUME NEW c \in Cycles, Look(c) PROVE PlacesLooked'
  <2>1. /\ looked[c] + 1 <= Len(collected[c])
        /\ looked' = [looked EXCEPT ![c] = looked[c] + 1]
        /\ kept'[c] \subseteq kept[c] \union {looked[c] + 1}
        /\ \A d \in Cycles : d # c => kept'[d] = kept[d]
        /\ UNCHANGED <<collected, collector, caller>>
        /\ caller[c] = "published" /\ collector[c] = "closed"
    BY <1>2 DEF Look, TypeOK
  <2>2. looked[c] \in Nat /\ kept[c] \subseteq 1..looked[c]
    BY DEF TypeOK, PlacesLooked
  <2>3. kept'[c] \subseteq 1..(looked[c] + 1)
    BY <2>1, <2>2
  <2> QED BY <2>1, <2>3 DEF TypeOK, PlacesLooked
<1>3. ASSUME NEW c \in Cycles, TakeWindow(c) PROVE PlacesLooked'
  <2>1. /\ looked[c] = 0 /\ UNCHANGED <<looked, kept, caller>>
        /\ \A d \in Cycles : d # c => collected'[d] = collected[d] /\ collector'[d] = collector[d]
        /\ collector'[c] = "closed"
    BY <1>3 DEF TakeWindow, filterVars, PlacesLooked, TypeOK
  <2>2. Len(collected'[c]) \in Nat
    <3>1. TypeOK'
      BY TypesKept
    <3> QED BY <3>1, LenProperties DEF TypeOK
  <2> QED BY <2>1, <2>2 DEF PlacesLooked
<1>4. ASSUME NEW c \in Cycles, Choose(c) PROVE PlacesLooked'
  <2>1. /\ looked'[c] = 0 /\ kept'[c] = {} /\ collected'[c] = <<>>
        /\ \A d \in Cycles :
               d # c => /\ collected'[d] = collected[d]
                        /\ looked'[d] = looked[d] /\ kept'[d] = kept[d]
        /\ UNCHANGED collector
        /\ \A d \in Cycles : d # c => caller'[d] = caller[d]
    BY <1>4 DEF Choose, TypeOK
  <2>2. Len(collected'[c]) = 0
    BY <2>1, EmptySeq
  <2> QED BY <2>1, <2>2 DEF PlacesLooked
<1>5. ASSUME NEW c \in Cycles,
             Start(c) \/ OpenWindow(c) \/ PublishOffer(c) \/ CloseEarly(c) \/ Cutoff(c)
      PROVE  PlacesLooked'
  <2>1. UNCHANGED <<collected, looked, kept>>
    BY <1>5 DEF Start, OpenWindow, PublishOffer, CloseEarly, Cutoff, filterVars
  <2>2. \A d \in Cycles : \/ collector'[d] = collector[d] /\ caller'[d] = caller[d]
                          \/ looked[d] = 0
    BY <1>5 DEF Start, OpenWindow, PublishOffer, CloseEarly, Cutoff, TypeOK, PlacesLooked
  <2> QED BY <2>1, <2>2 DEF PlacesLooked
<1>6. CASE UNCHANGED <<collected, looked, kept, caller, collector>>
  BY <1>1, <1>6
<1> QED BY <1>2, <1>3, <1>4, <1>5, <1>6
        DEF Next, Cycle, vars, filterVars, Bid, Deliver, Connectivity

\* Every variable of the cycles keeps its type.
THEOREM TypeCorrect == Spec => []TypeOK
<1>1. Init => TypeOK /\ PlacesLooked
  BY CyclesAssumption, EmptySeq
     DEF Init, TypeOK, CallerSteps, CollectorSteps, PlacesLooked
<1> QED BY <1>1, TypesKept, PlacesKept, PTL DEF Spec

LEMMA PlacesAlwaysLooked == Spec => []PlacesLooked
<1>1. Init => TypeOK /\ PlacesLooked
  BY CyclesAssumption, EmptySeq
     DEF Init, TypeOK, CallerSteps, CollectorSteps, PlacesLooked
<1> QED BY <1>1, TypesKept, PlacesKept, PTL DEF Spec

-----------------------------------------------------------------------------
(* Selection of the cycles.                                                *)

\* What the readings of the filter say of the bids looked at so far: those
\* kept could be reached at some moment, those left out not at every moment.
FilterHonest ==
    \A c \in Cycles :
        /\ looked[c] > 0 => steady[c] \subseteq connected /\ connected \subseteq met[c]
        /\ \A i \in kept[c] : Admissible(c, collected[c][i], met[c])
        /\ \A i \in 1..looked[c] :
               i \notin kept[c] => ~Admissible(c, collected[c][i], steady[c])

LEMMA MoreReached ==
    ASSUME NEW c, NEW p, NEW few, NEW many, few \subseteq many, Admissible(c, p, few)
    PROVE  Admissible(c, p, many)
BY DEF Admissible

LEMMA FilterStaysHonest ==
    TypeOK /\ PlacesLooked /\ FilterHonest /\ [Next]_vars => FilterHonest'
<1> SUFFICES ASSUME TypeOK, PlacesLooked, FilterHonest, [Next]_vars PROVE FilterHonest'
  OBVIOUS
<1>1. ASSUME NEW c \in Cycles, Look(c) PROVE FilterHonest'
  <2> DEFINE i == looked[c] + 1
             p == collected[c][i]
             Seen == IF i = 1 THEN connected ELSE met[c]
             Stay == IF i = 1 THEN connected ELSE steady[c]
  <2>1. /\ looked'[c] = i /\ met'[c] = Seen /\ steady'[c] = Stay
        /\ kept'[c] = IF Admissible(c, p, connected) THEN kept[c] \union {i} ELSE kept[c]
        /\ UNCHANGED <<collected, connected>>
        /\ \A d \in Cycles : d # c => /\ looked'[d] = looked[d] /\ kept'[d] = kept[d]
                                      /\ met'[d] = met[d] /\ steady'[d] = steady[d]
    BY <1>1 DEF Look, TypeOK
  <2>2. looked[c] \in Nat /\ kept[c] \subseteq 1..looked[c]
    BY DEF TypeOK, PlacesLooked
  <2>3. /\ Stay \subseteq connected /\ connected \subseteq Seen
        /\ i # 1 => Seen = met[c] /\ Stay = steady[c]
        /\ i = 1 => kept[c] = {} /\ 1..looked[c] = {}
    BY <2>2 DEF FilterHonest
  <2>4. \A j \in kept'[c] : Admissible(c, collected[c][j], Seen)
    <3>1. ASSUME NEW j \in kept[c] PROVE Admissible(c, collected[c][j], Seen)
      BY <2>3, <3>1 DEF FilterHonest
    <3>2. Admissible(c, p, connected) => Admissible(c, p, Seen)
      BY <2>3, MoreReached
    <3> QED BY <2>1, <3>1, <3>2
  <2>5. \A j \in 1..i : j \notin kept'[c] => ~Admissible(c, collected[c][j], Stay)
    <3>1. ASSUME NEW j \in 1..looked[c], j \notin kept[c]
          PROVE  ~Admissible(c, collected[c][j], Stay)
      BY <2>3, <3>1 DEF FilterHonest
    <3>2. Admissible(c, p, Stay) => Admissible(c, p, connected)
      BY <2>3, MoreReached
    <3>3. \A j \in 1..i : j \in 1..looked[c] \/ j = i
      BY <2>2
    <3> QED BY <2>1, <3>1, <3>2, <3>3
  <2> HIDE DEF i, Seen, Stay
  <2>6. \A d \in Cycles : d # c =>
          /\ looked'[d] > 0 => steady'[d] \subseteq connected' /\ connected' \subseteq met'[d]
          /\ \A j \in kept'[d] : Admissible(d, collected'[d][j], met'[d])
          /\ \A j \in 1..looked'[d] :
                 j \notin kept'[d] => ~Admissible(d, collected'[d][j], steady'[d])
    BY <2>1 DEF FilterHonest
  <2>7. /\ looked'[c] > 0 => steady'[c] \subseteq connected' /\ connected' \subseteq met'[c]
        /\ \A j \in kept'[c] : Admissible(c, collected'[c][j], met'[c])
        /\ \A j \in 1..looked'[c] :
               j \notin kept'[c] => ~Admissible(c, collected'[c][j], steady'[c])
    BY <2>1, <2>3, <2>4, <2>5
  <2> QED BY <2>6, <2>7 DEF FilterHonest, Admissible
<1>2. ASSUME NEW p \in Undialable, Connectivity(p) PROVE FilterHonest'
  <2>1. /\ UNCHANGED <<collected, looked, kept>>
        /\ \A c \in Cycles :
              /\ looked[c] > 0 => /\ met'[c] = met[c] \union connected'
                                  /\ steady'[c] = steady[c] \intersect connected'
              /\ met[c] \subseteq met'[c] /\ steady'[c] \subseteq steady[c]
    BY <1>2 DEF Connectivity, Filtering, TypeOK
  <2>2. ASSUME NEW c \in Cycles
        PROVE  /\ looked'[c] > 0 => steady'[c] \subseteq connected' /\ connected' \subseteq met'[c]
               /\ \A i \in kept'[c] : Admissible(c, collected'[c][i], met'[c])
               /\ \A i \in 1..looked'[c] :
                      i \notin kept'[c] => ~Admissible(c, collected'[c][i], steady'[c])
    <3>1. looked'[c] > 0 => steady'[c] \subseteq connected' /\ connected' \subseteq met'[c]
      BY <2>1
    <3>2. \A i \in kept[c] : Admissible(c, collected[c][i], met'[c])
      BY <2>1, MoreReached DEF FilterHonest
    <3>3. \A i \in 1..looked[c] :
              i \notin kept[c] => ~Admissible(c, collected[c][i], steady'[c])
      BY <2>1, MoreReached DEF FilterHonest
    <3> QED BY <2>1, <3>1, <3>2, <3>3
  <2> QED BY <2>2 DEF FilterHonest, Admissible
<1>3. ASSUME NEW c \in Cycles, TakeWindow(c) PROVE FilterHonest'
  <2>1. /\ looked[c] = 0 /\ kept[c] = {} /\ UNCHANGED <<looked, kept, met, steady, connected>>
        /\ \A d \in Cycles : d # c => collected'[d] = collected[d]
    BY <1>3 DEF TakeWindow, filterVars, PlacesLooked, TypeOK
  <2> QED BY <2>1 DEF FilterHonest, Admissible
<1>4. ASSUME NEW c \in Cycles, Choose(c) PROVE FilterHonest'
  <2>1. /\ looked'[c] = 0 /\ kept'[c] = {} /\ UNCHANGED connected
        /\ \A d \in Cycles :
               d # c => /\ collected'[d] = collected[d] /\ looked'[d] = looked[d]
                        /\ kept'[d] = kept[d] /\ met'[d] = met[d] /\ steady'[d] = steady[d]
    BY <1>4 DEF Choose, TypeOK
  <2> QED BY <2>1 DEF FilterHonest, Admissible
<1>5. CASE UNCHANGED <<collected, filterVars, connected>>
  BY <1>5 DEF FilterHonest, Admissible, filterVars
<1> QED BY <1>1, <1>2, <1>3, <1>4, <1>5
        DEF Next, Cycle, vars, Start, OpenWindow, PublishOffer, CloseEarly, Cutoff, Bid, Deliver

\* What the winner is owed and owes, once every bid was looked at.
LEMMA ChosenIsSound ==
    ASSUME TypeOK, PlacesLooked, FilterHonest,
           NEW c \in Cycles, looked[c] = Len(collected[c])
    PROVE  LET may == Candidates(c, met[c])
               must == Candidates(c, steady[c])
           IN /\ Select(c) = NoProvider => must = {}
              /\ Select(c) # NoProvider => Select(c) \in may
              /\ Preferred[c] \in must => Select(c) = Preferred[c]
              /\ Select(c) # Preferred[c] => \A p \in must : ~Beats(p, Select(c))
<1> DEFINE seq == collected[c]
           ok == {seq[i] : i \in Eligible(c)}
           may == Candidates(c, met[c])
           must == Candidates(c, steady[c])
<1>1. seq \in Seq(Providers) /\ looked[c] \in Nat
  BY DEF TypeOK
<1>2. DOMAIN seq = 1..looked[c]
  BY <1>1, LenProperties
<1>3. kept[c] \subseteq DOMAIN seq
  BY <1>2 DEF PlacesLooked
<1>4. ok \subseteq may
  BY <1>3 DEF Eligible, Candidates, ToSet, FilterHonest
<1>5. must \subseteq ok
  <2>1. ASSUME NEW p \in must PROVE p \in ok
    <3>1. Covers(c, p) /\ Admissible(c, p, steady[c])
      BY DEF Candidates
    <3>2. PICK i \in DOMAIN seq : p = seq[i]
      BY DEF Candidates, ToSet
    <3>3. i \in kept[c]
      BY <1>2, <3>1, <3>2 DEF FilterHonest
    <3> QED BY <3>1, <3>2, <3>3 DEF Eligible
  <2> QED BY <2>1
<1>6. /\ Select(c) = NoProvider => ok = {}
      /\ Select(c) # NoProvider => Select(c) \in ok
      /\ Preferred[c] \in ok => Select(c) = Preferred[c]
      /\ Preferred[c] \notin ok => \A p \in ok : ~Beats(p, Select(c))
  BY <1>1, <1>3, SelectGives
<1> HIDE DEF ok, may, must
<1> QED BY <1>4, <1>5, <1>6 DEF may, must

\* For any terms, any bids and any changes of the connections while a cycle
\* looks at them: who is assigned could be reached, covers the mission, and
\* does not win over a better one that could be reached all along.
THEOREM SelectionAlwaysSound == Spec => SelectionSound
<1> DEFINE Sound ==
      \A c \in Cycles : caller[c] = "published" /\ caller'[c] # "published" =>
         LET may == Candidates(c, met[c])
             must == Candidates(c, steady[c])
         IN IF caller'[c] = "nobids" THEN must = {}
            ELSE /\ winner'[c] \in may
                 /\ Preferred[c] \in must => winner'[c] = Preferred[c]
                 /\ winner'[c] # Preferred[c] => \A p \in must : ~Beats(p, winner'[c])
<1>1. TypeOK /\ PlacesLooked /\ FilterHonest /\ [Next]_vars => [Sound]_vars
  <2> SUFFICES ASSUME TypeOK, PlacesLooked, FilterHonest, [Next]_vars, NEW c \in Cycles,
                      caller[c] = "published", caller'[c] # "published"
               PROVE  LET may == Candidates(c, met[c])
                          must == Candidates(c, steady[c])
                      IN IF caller'[c] = "nobids" THEN must = {}
                         ELSE /\ winner'[c] \in may
                              /\ Preferred[c] \in must => winner'[c] = Preferred[c]
                              /\ winner'[c] # Preferred[c] =>
                                     \A p \in must : ~Beats(p, winner'[c])
    OBVIOUS
  <2>1. Choose(c)
    BY DEF TypeOK, Next, Cycle, vars, Start, OpenWindow, PublishOffer, CloseEarly, Cutoff,
           TakeWindow, Look, Choose, Bid, Deliver, Connectivity
  <2>2. winner'[c] = Select(c) /\ looked[c] = Len(collected[c])
    BY <2>1 DEF Choose, TypeOK
  <2>3. caller'[c] = "nobids" <=> Select(c) = NoProvider
    BY <2>1 DEF Choose, TypeOK
  <2> QED BY <2>2, <2>3, ChosenIsSound
<1>2. Init => FilterHonest
  BY DEF Init, FilterHonest
<1>3. Spec => []FilterHonest
  BY <1>2, FilterStaysHonest, TypeCorrect, PlacesAlwaysLooked, PTL DEF Spec
<1>4. TypeOK /\ PlacesLooked /\ FilterHonest /\ [Next]_vars =>
        [\A c \in Cycles : caller[c] = "published" /\ caller'[c] # "published" =>
           LET may == Candidates(c, met[c])
               must == Candidates(c, steady[c])
           IN IF caller'[c] = "nobids" THEN must = {}
              ELSE /\ winner'[c] \in may
                   /\ Preferred[c] \in must => winner'[c] = Preferred[c]
                   /\ winner'[c] # Preferred[c] => \A p \in must : ~Beats(p, winner'[c])]_vars
  BY <1>1
<1> QED BY <1>3, <1>4, TypeCorrect, PlacesAlwaysLooked, PTL DEF Spec, SelectionSound

-----------------------------------------------------------------------------
(* Windows.                                                                *)

\* A cycle that has not started has no collector: with it NoWindowLeftBehind
\* is inductive, since starting then never takes a running collector away.
IdleHasNone == \A c \in Cycles : caller[c] = "idle" => collector[c] = "none"

LEMMA WindowsStayOwned ==
    TypeOK /\ IdleHasNone /\ NoWindowLeftBehind /\ [Next]_vars
        => IdleHasNone' /\ NoWindowLeftBehind'
<1> SUFFICES ASSUME TypeOK, IdleHasNone, NoWindowLeftBehind, [Next]_vars
             PROVE  IdleHasNone' /\ NoWindowLeftBehind'
  OBVIOUS
<1> USE CyclesAssumption DEF IdleHasNone
<1>1. ASSUME NEW c \in Cycles, Start(c) PROVE IdleHasNone' /\ NoWindowLeftBehind'
  <2>1. /\ collector[c] = "none"
        /\ caller' = [caller EXCEPT ![c] = "started"]
        /\ collector' = [collector EXCEPT ![c] = "spawned"]
        /\ UNCHANGED windows
    BY <1>1 DEF Start
  <2>2. \A d \in Cycles : collector[d] \in {"collecting", "stopped"} => collector'[d] = collector[d]
    BY <2>1 DEF TypeOK
  <2>3. NoWindowLeftBehind'
    BY <2>1, <2>2 DEF NoWindowLeftBehind
  <2> QED BY <2>1, <2>3 DEF TypeOK
<1>2. ASSUME NEW c \in Cycles, OpenWindow(c) PROVE IdleHasNone' /\ NoWindowLeftBehind'
  <2>1. /\ collector[c] = "spawned" /\ UNCHANGED caller
        /\ \A d \in Cycles : d # c => collector'[d] = collector[d]
        /\ collector'[c] = "collecting"
        /\ \A m \in Missions : m # MissionOf[c] => windows'[m] = windows[m]
    BY <1>2 DEF OpenWindow, TypeOK
  <2> QED BY <2>1 DEF NoWindowLeftBehind
<1>3. ASSUME NEW c \in Cycles, TakeWindow(c) PROVE IdleHasNone' /\ NoWindowLeftBehind'
  <2>1. /\ collector[c] = "stopped" /\ UNCHANGED caller
        /\ \A d \in Cycles : d # c => collector'[d] = collector[d]
        /\ windows'[MissionOf[c]] = NoWindow
        /\ \A m \in Missions : m # MissionOf[c] => windows'[m] = windows[m]
    BY <1>3 DEF TakeWindow, TypeOK
  <2>2. ASSUME NEW m \in Missions, windows'[m] # NoWindow
        PROVE  \E d \in Cycles : MissionOf[d] = m /\ collector'[d] \in {"collecting", "stopped"}
    <3>1. m # MissionOf[c] /\ windows[m] # NoWindow
      BY <2>1, <2>2
    <3>2. PICK d \in Cycles : MissionOf[d] = m /\ collector[d] \in {"collecting", "stopped"}
      BY <3>1 DEF NoWindowLeftBehind
    <3> QED BY <2>1, <3>1, <3>2
  <2>3. IdleHasNone'
    BY <2>1
  <2> QED BY <2>2, <2>3 DEF NoWindowLeftBehind
<1>4. ASSUME NEW c \in Cycles, CloseEarly(c) \/ Cutoff(c)
      PROVE  IdleHasNone' /\ NoWindowLeftBehind'
  <2>1. /\ collector[c] = "collecting" /\ UNCHANGED <<caller, windows>>
        /\ \A d \in Cycles : d # c => collector'[d] = collector[d]
        /\ collector'[c] = "stopped"
    BY <1>4 DEF CloseEarly, Cutoff, TypeOK
  <2>2. \A d \in Cycles : collector[d] \in {"collecting", "stopped"}
                             => collector'[d] \in {"collecting", "stopped"}
    BY <2>1
  <2>3. IdleHasNone'
    BY <2>1
  <2> QED BY <2>1, <2>2, <2>3 DEF NoWindowLeftBehind
<1>5. ASSUME NEW b \in bids, Deliver(b) PROVE IdleHasNone' /\ NoWindowLeftBehind'
  <2>1. b.mission \in Missions
    BY DEF TypeOK
  <2>2. /\ UNCHANGED <<caller, collector>>
        /\ \A m \in Missions : windows[m] = NoWindow => windows'[m] = NoWindow
    BY <1>5, <2>1 DEF Deliver, TypeOK
  <2> QED BY <2>2 DEF NoWindowLeftBehind
<1>6. ASSUME NEW c \in Cycles, PublishOffer(c) \/ Choose(c)
      PROVE  IdleHasNone' /\ NoWindowLeftBehind'
  <2>1. /\ \A d \in Cycles : caller'[d] = "idle" => caller[d] = "idle"
        /\ UNCHANGED <<collector, windows>>
    BY <1>6 DEF PublishOffer, Choose, TypeOK
  <2> QED BY <2>1 DEF NoWindowLeftBehind
<1>7. CASE UNCHANGED <<caller, collector, windows>>
  BY <1>7 DEF NoWindowLeftBehind
<1> QED BY <1>1, <1>2, <1>3, <1>4, <1>5, <1>6, <1>7
        DEF Next, Cycle, vars, Look, Bid, Connectivity

\* However many cycles share a mission, each window in the collector has a
\* cycle that will take it away.
THEOREM WindowsAreTaken == Spec => []NoWindowLeftBehind
<1>1. Init => IdleHasNone /\ NoWindowLeftBehind
  BY DEF Init, IdleHasNone, NoWindowLeftBehind
<1> QED BY <1>1, WindowsStayOwned, TypeCorrect, PTL DEF Spec

-----------------------------------------------------------------------------
(* The way of a bid from the network to the assignment.                    *)

\* p is among those who bid on an offer of the mission.
DidBid(p, m, who) == \E d \in Cycles : MissionOf[d] = m /\ <<p, d>> \in who

\* Wherever a bid is kept, its provider made it for that mission.
BidsAreMade ==
    /\ \A b \in bids : DidBid(b.provider, b.mission, answered)
    /\ \A m \in Missions : windows[m] # NoWindow =>
          \A i \in DOMAIN windows[m].bids : DidBid(windows[m].bids[i], m, answered)
    /\ \A c \in Cycles : \A i \in DOMAIN collected[c] : DidBid(collected[c][i], MissionOf[c], answered)
    /\ \A c \in Cycles : winner[c] # NoProvider => DidBid(winner[c], MissionOf[c], answered)

LEMMA BidsStayMade == TypeOK /\ PlacesLooked /\ BidsAreMade /\ [Next]_vars => BidsAreMade'
<1> SUFFICES ASSUME TypeOK, PlacesLooked, BidsAreMade, [Next]_vars PROVE BidsAreMade'
  OBVIOUS
<1> USE CyclesAssumption
<1>0. answered \subseteq answered'
  BY DEF Next, Cycle, vars, Start, OpenWindow, PublishOffer, CloseEarly, Cutoff, TakeWindow,
         Look, Choose, Bid, Deliver, Connectivity
<1>1. \A p, m : DidBid(p, m, answered) => DidBid(p, m, answered')
  BY <1>0 DEF DidBid
<1>2. ASSUME UNCHANGED <<windows, collected, winner, bids>> PROVE BidsAreMade'
  BY <1>1, <1>2 DEF BidsAreMade
<1>3. ASSUME NEW c \in Cycles, OpenWindow(c) PROVE BidsAreMade'
  <2>1. /\ \A m \in Missions : m # MissionOf[c] => windows'[m] = windows[m]
        /\ windows'[MissionOf[c]].bids = <<>>
        /\ UNCHANGED <<collected, winner, bids>>
    BY <1>3 DEF OpenWindow, TypeOK
  <2> QED BY <1>1, <2>1, EmptySeq DEF BidsAreMade
<1>4. ASSUME NEW c \in Cycles, TakeWindow(c) PROVE BidsAreMade'
  <2> DEFINE w == windows[MissionOf[c]]
  <2>1. /\ \A d \in Cycles : d # c => collected'[d] = collected[d]
        /\ collected'[c] = IF w = NoWindow THEN <<>> ELSE w.bids
        /\ \A m \in Missions : m # MissionOf[c] => windows'[m] = windows[m]
        /\ windows'[MissionOf[c]] = NoWindow
        /\ UNCHANGED <<winner, bids>>
    BY <1>4 DEF TakeWindow, TypeOK
  <2>2. \A i \in DOMAIN collected'[c] : DidBid(collected'[c][i], MissionOf[c], answered)
    BY <2>1 DEF BidsAreMade
  <2>3. \A d \in Cycles : \A i \in DOMAIN collected'[d] :
            DidBid(collected'[d][i], MissionOf[d], answered')
    BY <1>1, <2>1, <2>2 DEF BidsAreMade
  <2>4. \A m \in Missions : windows'[m] # NoWindow =>
            \A i \in DOMAIN windows'[m].bids : DidBid(windows'[m].bids[i], m, answered')
    BY <1>1, <2>1 DEF BidsAreMade
  <2> QED BY <1>1, <2>1, <2>3, <2>4 DEF BidsAreMade
<1>5. ASSUME NEW c \in Cycles, Choose(c) PROVE BidsAreMade'
  <2>1. /\ \A d \in Cycles : d # c => winner'[d] = winner[d] /\ collected'[d] = collected[d]
        /\ winner'[c] = Select(c) /\ collected'[c] = <<>>
        /\ UNCHANGED <<windows, bids>>
    BY <1>5 DEF Choose, TypeOK
  <2>2. winner'[c] # NoProvider => DidBid(winner'[c], MissionOf[c], answered)
    BY <2>1, SelectedIsProvider DEF BidsAreMade
  <2>3. \A d \in Cycles : \A i \in DOMAIN collected'[d] :
            DidBid(collected'[d][i], MissionOf[d], answered')
    BY <1>1, <2>1, EmptySeq DEF BidsAreMade
  <2>4. \A d \in Cycles : winner'[d] # NoProvider => DidBid(winner'[d], MissionOf[d], answered')
    BY <1>1, <2>1, <2>2 DEF BidsAreMade
  <2> QED BY <1>1, <2>1, <2>3, <2>4 DEF BidsAreMade
<1>6. ASSUME NEW c \in Cycles, NEW p \in BidsOn[c], Bid(p, c) PROVE BidsAreMade'
  <2>1. DidBid(p, MissionOf[c], answered')
    BY <1>6 DEF Bid, DidBid
  <2>2. \A b \in bids' : b \in bids \/ (b.provider = p /\ b.mission = MissionOf[c])
    BY <1>6 DEF Bid
  <2> QED BY <1>1, <1>6, <2>1, <2>2 DEF Bid, BidsAreMade
<1>7. ASSUME NEW b \in bids, Deliver(b) PROVE BidsAreMade'
  <2> DEFINE w == windows[b.mission]
  <2>1. b.provider \in Providers /\ b.mission \in Missions /\ bids' \subseteq bids
    BY <1>7 DEF Deliver, TypeOK
  <2>2. CASE w = NoWindow
    BY <1>1, <1>7, <2>1, <2>2 DEF Deliver, BidsAreMade
  <2>3. CASE w # NoWindow
    <3>1. w.bids \in Seq(Providers)
      BY <2>1, <2>3 DEF TypeOK, Window
    <3>2. windows' = [windows EXCEPT ![b.mission] = [w EXCEPT !.bids = Append(@, b.provider)]]
      BY <1>7, <2>3 DEF Deliver
    <3>3. /\ \A m \in Missions : m # b.mission => windows'[m] = windows[m]
          /\ windows'[b.mission].bids = Append(w.bids, b.provider)
      BY <2>1, <2>3, <3>2 DEF TypeOK, Window
    <3>4. \A i \in DOMAIN Append(w.bids, b.provider) :
              Append(w.bids, b.provider)[i] = b.provider
              \/ (i \in DOMAIN w.bids /\ Append(w.bids, b.provider)[i] = w.bids[i])
      BY <2>1, <3>1, AppendProperties, LenProperties
    <3>5. \A i \in DOMAIN Append(w.bids, b.provider) :
              DidBid(Append(w.bids, b.provider)[i], b.mission, answered)
      BY <2>1, <2>3, <3>4 DEF BidsAreMade
    <3>6. \A m \in Missions : windows'[m] # NoWindow =>
              \A i \in DOMAIN windows'[m].bids : DidBid(windows'[m].bids[i], m, answered')
      BY <1>1, <3>3, <3>5 DEF BidsAreMade
    <3> QED BY <1>1, <1>7, <2>1, <3>6 DEF Deliver, BidsAreMade
  <2> QED BY <2>2, <2>3
<1>8. ASSUME NEW c \in Cycles,
             Start(c) \/ PublishOffer(c) \/ CloseEarly(c) \/ Cutoff(c) \/ Look(c)
      PROVE  BidsAreMade'
  BY <1>2, <1>8 DEF Start, PublishOffer, CloseEarly, Cutoff, Look
<1>9. ASSUME NEW p \in Undialable, Connectivity(p) PROVE BidsAreMade'
  BY <1>2, <1>9 DEF Connectivity
<1>10. CASE UNCHANGED vars
  BY <1>2, <1>10 DEF vars
<1> QED BY <1>3, <1>4, <1>5, <1>6, <1>7, <1>8, <1>9, <1>10 DEF Next, Cycle

\* No cycle assigns its mission to a provider that did not bid on it.
THEOREM WinnersBid == Spec => []AssignedDidBid
<1>1. Init => BidsAreMade
  BY EmptySeq DEF Init, BidsAreMade
<1>2. BidsAreMade => AssignedDidBid
  BY DEF BidsAreMade, AssignedDidBid, DidBid
<1> QED BY <1>1, <1>2, BidsStayMade, TypeCorrect, PlacesAlwaysLooked, PTL DEF Spec
===============================================================================
