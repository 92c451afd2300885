------------------------- MODULE ProviderStreams_proofs -------------------------
(* Proofs about ProviderStreams: the types, that the limiter's counters are *)
(* the permits in existence, that its limits hold, and that an answer is    *)
(* accepted whole, for any streams, peers, limits and lengths of answers.   *)
EXTENDS ProviderStreams, FiniteSetTheorems, SequenceTheorems, TLAPS

Held == {"handshake", "serving", "handling", "exiting"}

LEMMA LiveFinite ==
    /\ IsFiniteSet(Live) /\ Cardinality(Live) \in Nat
    /\ \A p \in Peers : IsFiniteSet(LiveOf(p)) /\ Cardinality(LiveOf(p)) \in Nat
<1>1. IsFiniteSet(Live)
  BY StreamsAssumption, FS_Subset DEF Live
<1>2. \A p \in Peers : IsFiniteSet(LiveOf(p))
  BY <1>1, FS_Subset DEF LiveOf
<1> QED
  BY <1>1, <1>2, FS_CardinalityType

\* The map after SetOpen and after Forget, entry by entry.
LEMMA SetOpenGives ==
    ASSUME NEW p \in Peers, NEW n \in Nat \ {0}, SetOpen(p, n),
           DOMAIN perPeer \subseteq Peers, perPeer \in [DOMAIN perPeer -> Nat \ {0}]
    PROVE  /\ DOMAIN perPeer' \subseteq Peers /\ perPeer' \in [DOMAIN perPeer' -> Nat \ {0}]
           /\ \A q \in Peers : OpenOf(q)' = IF q = p THEN n ELSE OpenOf(q)
BY DEF SetOpen, OpenOf

LEMMA ForgetGives ==
    ASSUME NEW p \in Peers, Forget(p),
           DOMAIN perPeer \subseteq Peers, perPeer \in [DOMAIN perPeer -> Nat \ {0}]
    PROVE  /\ DOMAIN perPeer' \subseteq Peers /\ perPeer' \in [DOMAIN perPeer' -> Nat \ {0}]
           /\ \A q \in Peers : OpenOf(q)' = IF q = p THEN 0 ELSE OpenOf(q)
BY DEF Forget, OpenOf

\* A stream is admitted.
LEMMA LiveGains ==
    ASSUME srv \in [Streams -> ServerSteps], NEW s \in Streams, s \notin Live,
           NEW k \in Held, srv' = [srv EXCEPT ![s] = k], UNCHANGED peerOf
    PROVE  /\ Cardinality(Live') = Cardinality(Live) + 1
           /\ \A p \in Peers : Cardinality(LiveOf(p)') =
                 IF p = peerOf[s] THEN Cardinality(LiveOf(p)) + 1 ELSE Cardinality(LiveOf(p))
<1>1. Live' = Live \union {s}
  BY DEF Live, Held
<1>2. \A p \in Peers : LiveOf(p)' = IF p = peerOf[s] THEN LiveOf(p) \union {s} ELSE LiveOf(p)
  BY <1>1 DEF LiveOf
<1>3. Cardinality(Live') = Cardinality(Live) + 1
  BY <1>1, LiveFinite, FS_AddElement
<1>4. ASSUME NEW p \in Peers
      PROVE  Cardinality(LiveOf(p)') =
               IF p = peerOf[s] THEN Cardinality(LiveOf(p)) + 1 ELSE Cardinality(LiveOf(p))
  <2>1. s \notin LiveOf(p)
    BY DEF LiveOf
  <2>2. Cardinality(LiveOf(p) \union {s}) = Cardinality(LiveOf(p)) + 1
    BY <2>1, LiveFinite, FS_AddElement
  <2> QED
    BY <1>2, <2>2
<1> QED
  BY <1>3, <1>4

\* Its permit is dropped.
LEMMA LiveLoses ==
    ASSUME srv \in [Streams -> ServerSteps], NEW s \in Streams, s \in Live,
           srv' = [srv EXCEPT ![s] = "none"],
           peerOf \in [Streams -> Peers], UNCHANGED peerOf
    PROVE  /\ Cardinality(Live') = Cardinality(Live) - 1 /\ Cardinality(Live) > 0
           /\ Cardinality(LiveOf(peerOf[s])) > 0
           /\ \A p \in Peers : Cardinality(LiveOf(p)') =
                 IF p = peerOf[s] THEN Cardinality(LiveOf(p)) - 1 ELSE Cardinality(LiveOf(p))
<1>0. peerOf[s] \in Peers
  OBVIOUS
<1>1. Live' = Live \ {s}
  BY DEF Live
<1>2. \A p \in Peers : LiveOf(p)' = IF p = peerOf[s] THEN LiveOf(p) \ {s} ELSE LiveOf(p)
  BY <1>1 DEF LiveOf
<1>3. s \in LiveOf(peerOf[s])
  BY DEF LiveOf
<1>4. Cardinality(Live) > 0 /\ Cardinality(LiveOf(peerOf[s])) > 0
  BY <1>0, <1>3, LiveFinite, FS_EmptySet
<1>5. Cardinality(Live') = Cardinality(Live) - 1
  BY <1>1, LiveFinite, FS_RemoveElement
<1>6. ASSUME NEW p \in Peers
      PROVE  Cardinality(LiveOf(p)') =
               IF p = peerOf[s] THEN Cardinality(LiveOf(p)) - 1 ELSE Cardinality(LiveOf(p))
  <2>1. CASE p = peerOf[s]
    <3>1. LiveOf(p)' = LiveOf(p) \ {s} /\ s \in LiveOf(p)
      BY <1>2, <1>3, <2>1
    <3>2. Cardinality(LiveOf(p) \ {s}) = Cardinality(LiveOf(p)) - 1
      BY <3>1, LiveFinite, FS_RemoveElement
    <3> QED
      BY <2>1, <3>1, <3>2
  <2>2. CASE p # peerOf[s]
    BY <1>2, <2>2
  <2> QED
    BY <2>1, <2>2
<1> QED
  BY <1>4, <1>5, <1>6

\* A step of a stream that neither gets nor drops a permit.
LEMMA LiveKept ==
    ASSUME srv \in [Streams -> ServerSteps], NEW s \in Streams,
           NEW k, srv' = [srv EXCEPT ![s] = k], srv[s] \in Held <=> k \in Held,
           UNCHANGED peerOf
    PROVE  Live' = Live /\ \A p \in Peers : LiveOf(p)' = LiveOf(p)
<1>1. Live' = Live
  BY DEF Live, Held
<1> QED
  BY <1>1 DEF LiveOf

-----------------------------------------------------------------------------
\* The counters and the limits together: the limits are what admits.
Counted == TypeOK /\ PermitsCounted /\ LimitsHold

\* The steps that leave the limiter alone.
OtherProvider(s) ==
    \/ ReadEnds(s) \/ ReadFails(s) \/ ReadHandshake(s) \/ RefuseFirst(s) \/ StopIfBroken(s)
    \/ ReadWork(s) \/ ReadControl(s) \/ ReadCancel(s) \/ ReadUnexpected(s)
    \/ HandlerDelta(s) \/ HandlerEnds(s)

LEMMA SendTyped ==
    ASSUME NEW s \in Streams, NEW m, Send(s, m), broken \in [Streams -> BOOLEAN]
    PROVE  broken' \in [Streams -> BOOLEAN]
<1>1. CASE UNCHANGED broken
  BY <1>1
<1>2. CASE broken' = [broken EXCEPT ![s] = TRUE]
  BY <1>2
<1> QED
  BY <1>1, <1>2 DEF Send, SendAlways

\* What such a step does to the task of its stream.
LEMMA OtherMoves ==
    ASSUME TypeOK, NEW s \in Streams, OtherProvider(s)
    PROVE  /\ UNCHANGED <<peerOf, total, perPeer, cl>>
           /\ \/ srv' = srv
              \/ \E k \in Held : srv' = [srv EXCEPT ![s] = k] /\ srv[s] \in Held
<1> USE DEF Exit, Serve, Held, limiter
<1>1. CASE ReadEnds(s) \/ ReadFails(s)
  BY <1>1 DEF ReadEnds, ReadFails
<1>2. CASE ReadHandshake(s) \/ RefuseFirst(s) \/ StopIfBroken(s)
  BY <1>2 DEF ReadHandshake, RefuseFirst, StopIfBroken
<1>3. CASE ReadWork(s) \/ ReadControl(s) \/ ReadCancel(s) \/ ReadUnexpected(s)
  BY <1>3 DEF ReadWork, ReadControl, ReadCancel, ReadUnexpected
<1>4. CASE HandlerDelta(s) \/ HandlerEnds(s)
  BY <1>4 DEF HandlerDelta, HandlerEnds
<1> QED
  BY <1>1, <1>2, <1>3, <1>4 DEF OtherProvider

LEMMA OtherTyped ==
    ASSUME TypeOK, NEW s \in Streams, OtherProvider(s)
    PROVE  broken' \in [Streams -> BOOLEAN] /\ produced' \in [Streams -> Nat]
<1> USE LimitsAssumption DEF TypeOK
<1>1. [broken EXCEPT ![s] = FALSE] \in [Streams -> BOOLEAN]
  OBVIOUS
<1>2. CASE ReadEnds(s) \/ ReadFails(s) \/ RefuseFirst(s) \/ StopIfBroken(s) \/ ReadCancel(s) \/ ReadUnexpected(s)
  BY <1>1, <1>2 DEF ReadEnds, ReadFails, RefuseFirst, StopIfBroken, ReadCancel, ReadUnexpected, Exit
<1>3. CASE ReadHandshake(s) \/ ReadControl(s)
  BY <1>3, SendTyped DEF ReadHandshake, ReadControl
<1>4. CASE ReadWork(s)
  BY <1>4 DEF ReadWork
<1>5. CASE HandlerDelta(s)
  <2>1. produced[s] + 1 \in Nat
    BY <1>5 DEF HandlerDelta
  <2>2. produced' \in [Streams -> Nat]
    BY <1>5, <2>1 DEF HandlerDelta
  <2> QED
    BY <1>5, <2>2, SendTyped DEF HandlerDelta
<1>6. CASE HandlerEnds(s)
  BY <1>6, SendTyped DEF HandlerEnds
<1> QED
  BY <1>2, <1>3, <1>4, <1>5, <1>6 DEF OtherProvider

LEMMA InitCounted == Init => Counted
<1> SUFFICES ASSUME Init PROVE Counted
  OBVIOUS
<1> USE LimitsAssumption
<1>1. Live = {} /\ \A p \in Peers : LiveOf(p) = {}
  BY DEF Init, Live, LiveOf
<1>2. Cardinality(Live) = 0 /\ \A p \in Peers : Cardinality(LiveOf(p)) = 0
  BY <1>1, FS_EmptySet
<1>3. perPeer = <<>> /\ DOMAIN perPeer = {}
  BY DEF Init
<1>4. \A p \in Peers : OpenOf(p) = 0
  BY <1>3 DEF OpenOf
<1>5. TypeOK
  <2>1. perPeer \in [DOMAIN perPeer -> Nat \ {0}] /\ DOMAIN perPeer \subseteq Peers
    BY <1>3
  <2>2. srv \in [Streams -> ServerSteps] /\ cl \in [Streams -> ClientSteps]
    BY DEF Init, ServerSteps, ClientSteps
  <2>3. broken \in [Streams -> BOOLEAN] /\ produced \in [Streams -> Nat] /\ total \in Nat
        /\ peerOf \in [Streams -> Peers]
    BY StreamsAssumption DEF Init
  <2> QED
    BY <2>1, <2>2, <2>3 DEF TypeOK
<1> QED
  BY <1>2, <1>4, <1>5 DEF Init, Counted, PermitsCounted, LimitsHold

LEMMA AdmitStep == ASSUME Counted, NEW s \in Streams, Admit(s) PROVE Counted'
<1> USE LimitsAssumption DEF Counted
<1> DEFINE me == peerOf[s]
<1>0. me \in Peers
  BY DEF TypeOK
<1>1. srv[s] = "incoming" /\ srv' = [srv EXCEPT ![s] = "handshake"] /\ total' = total + 1
      /\ total < MaxStreams /\ OpenOf(me) < MaxPerPeer /\ SetOpen(me, OpenOf(me) + 1)
      /\ UNCHANGED <<peerOf, cl, broken, produced>>
  BY DEF Admit, Serve
<1>2. /\ Cardinality(Live') = Cardinality(Live) + 1
      /\ \A p \in Peers : Cardinality(LiveOf(p)') =
           IF p = me THEN Cardinality(LiveOf(p)) + 1 ELSE Cardinality(LiveOf(p))
  BY <1>1, LiveGains DEF Live, Held, TypeOK
<1>3. OpenOf(me) \in Nat /\ OpenOf(me) = Cardinality(LiveOf(me)) /\ total = Cardinality(Live)
  BY <1>0, LiveFinite DEF PermitsCounted
<1>4. /\ DOMAIN perPeer' \subseteq Peers /\ perPeer' \in [DOMAIN perPeer' -> Nat \ {0}]
      /\ \A q \in Peers : OpenOf(q)' = IF q = me THEN OpenOf(me) + 1 ELSE OpenOf(q)
  BY <1>0, <1>1, <1>3, SetOpenGives DEF TypeOK
<1>5. TypeOK'
  <2>1. srv' \in [Streams -> ServerSteps] /\ total' \in Nat
    BY <1>1 DEF TypeOK, ServerSteps
  <2> QED
    BY <1>1, <1>4, <2>1 DEF TypeOK
<1>6. PermitsCounted'
  BY <1>1, <1>2, <1>3, <1>4 DEF PermitsCounted
<1>7. LimitsHold'
  <2>1. Cardinality(Live') <= MaxStreams
    BY <1>1, <1>2, <1>3, LiveFinite
  <2>2. ASSUME NEW p \in Peers PROVE Cardinality(LiveOf(p)') <= MaxPerPeer
    <3>1. CASE p = me
      BY <1>0, <1>1, <1>2, <1>3, <3>1
    <3>2. CASE p # me
      BY <1>2, <3>2 DEF LimitsHold
    <3> QED
      BY <3>1, <3>2
  <2> QED
    BY <2>1, <2>2 DEF LimitsHold
<1> QED
  BY <1>5, <1>6, <1>7

LEMMA DropStep == ASSUME Counted, NEW s \in Streams, DropPermit(s) PROVE Counted'
<1> USE LimitsAssumption DEF Counted
<1> DEFINE me == peerOf[s]
<1>0. me \in Peers
  BY DEF TypeOK
<1>1. srv[s] = "exiting" /\ srv' = [srv EXCEPT ![s] = "none"] /\ total' = total - 1
      /\ UNCHANGED <<peerOf, cl, broken, produced>>
      /\ \/ OpenOf(me) > 1 /\ SetOpen(me, OpenOf(me) - 1)
         \/ OpenOf(me) = 1 /\ Forget(me)
  BY DEF DropPermit, Serve
<1>2. /\ Cardinality(Live') = Cardinality(Live) - 1 /\ Cardinality(Live) > 0
      /\ Cardinality(LiveOf(me)) > 0
      /\ \A p \in Peers : Cardinality(LiveOf(p)') =
           IF p = me THEN Cardinality(LiveOf(p)) - 1 ELSE Cardinality(LiveOf(p))
  BY <1>1, LiveLoses DEF Live, TypeOK
<1>3. OpenOf(me) \in Nat /\ OpenOf(me) = Cardinality(LiveOf(me)) /\ total = Cardinality(Live)
  BY <1>0, LiveFinite DEF PermitsCounted
<1>4. /\ DOMAIN perPeer' \subseteq Peers /\ perPeer' \in [DOMAIN perPeer' -> Nat \ {0}]
      /\ \A q \in Peers : OpenOf(q)' = IF q = me THEN OpenOf(me) - 1 ELSE OpenOf(q)
  <2>1. CASE OpenOf(me) > 1 /\ SetOpen(me, OpenOf(me) - 1)
    <3>1. OpenOf(me) - 1 \in Nat \ {0}
      BY <1>3, <2>1
    <3> QED
      BY <1>0, <2>1, <3>1, SetOpenGives DEF TypeOK
  <2>2. CASE OpenOf(me) = 1 /\ Forget(me)
    BY <1>0, <2>2, ForgetGives DEF TypeOK
  <2> QED
    BY <1>1, <2>1, <2>2
<1>5. TypeOK'
  <2>1. srv' \in [Streams -> ServerSteps] /\ total' \in Nat
    BY <1>1, <1>2, <1>3, LiveFinite DEF TypeOK, ServerSteps
  <2> QED
    BY <1>1, <1>4, <2>1 DEF TypeOK
<1>6. PermitsCounted'
  BY <1>1, <1>2, <1>3, <1>4 DEF PermitsCounted
<1>7. LimitsHold'
  <2>1. Cardinality(Live') <= MaxStreams
    BY <1>2, LiveFinite DEF LimitsHold
  <2>2. ASSUME NEW p \in Peers PROVE Cardinality(LiveOf(p)') <= MaxPerPeer
    BY <1>2, LiveFinite DEF LimitsHold
  <2> QED
    BY <2>1, <2>2 DEF LimitsHold
<1> QED
  BY <1>5, <1>6, <1>7

\* A step that keeps the permits keeps what is said of them.
LEMMA KeptCounted ==
    ASSUME Counted, UNCHANGED <<peerOf, total, perPeer>>,
           Live' = Live, \A p \in Peers : LiveOf(p)' = LiveOf(p),
           srv' \in [Streams -> ServerSteps], cl' \in [Streams -> ClientSteps],
           broken' \in [Streams -> BOOLEAN], produced' \in [Streams -> Nat]
    PROVE  Counted'
<1>1. TypeOK'
  BY DEF Counted, TypeOK
<1>2. \A p \in Peers : OpenOf(p)' = OpenOf(p)
  BY DEF OpenOf
<1> QED
  BY <1>1, <1>2 DEF Counted, PermitsCounted, LimitsHold

LEMMA KeepStep ==
    ASSUME Counted, NEW s \in Streams, UNCHANGED <<peerOf, total, perPeer>>,
           \/ srv' = srv
           \/ \E k \in ServerSteps :
                 srv' = [srv EXCEPT ![s] = k] /\ (srv[s] \in Held <=> k \in Held),
           cl' \in [Streams -> ClientSteps], broken' \in [Streams -> BOOLEAN],
           produced' \in [Streams -> Nat]
    PROVE  Counted'
<1>0. srv \in [Streams -> ServerSteps]
  BY DEF Counted, TypeOK
<1>1. CASE srv' = srv
  <2>1. Live' = Live /\ \A p \in Peers : LiveOf(p)' = LiveOf(p)
    BY <1>1 DEF Live, LiveOf
  <2> QED
    BY <1>0, <1>1, <2>1, KeptCounted
<1>2. ASSUME NEW k \in ServerSteps, srv' = [srv EXCEPT ![s] = k], srv[s] \in Held <=> k \in Held
      PROVE  Counted'
  <2>1. Live' = Live /\ \A p \in Peers : LiveOf(p)' = LiveOf(p)
    BY <1>0, <1>2, LiveKept
  <2>2. srv' \in [Streams -> ServerSteps]
    BY <1>0, <1>2
  <2> QED
    BY <2>1, <2>2, KeptCounted
<1> QED
  BY <1>1, <1>2

LEMMA NavigatorMoves ==
    ASSUME TypeOK, NEW s \in Streams, Navigator(s)
    PROVE  /\ UNCHANGED <<peerOf, total, perPeer, broken>>
           /\ cl' \in [Streams -> ClientSteps] /\ produced' \in [Streams -> Nat]
           /\ \/ srv' = srv
              \/ srv[s] = "none" /\ srv' = [srv EXCEPT ![s] = "incoming"]
<1> USE LimitsAssumption DEF TypeOK, limiter, ClientSteps
<1>0. \A c \in ClientSteps : [cl EXCEPT ![s] = c] \in [Streams -> ClientSteps]
  OBVIOUS
<1>1. CASE OpenSession(s)
  <2>1. \E c \in ClientSteps : cl' = [cl EXCEPT ![s] = c]
    <3>1. CASE s \in Foreign
      BY <1>1, <3>1 DEF OpenSession
    <3>2. CASE s \notin Foreign
      BY <1>1, <3>2 DEF OpenSession
    <3> QED
      BY <3>1, <3>2
  <2>2. produced' = [produced EXCEPT ![s] = 0] /\ 0 \in Nat
    BY <1>1 DEF OpenSession
  <2>3. produced' \in [Streams -> Nat]
    BY <2>2
  <2>4. UNCHANGED <<peerOf, total, perPeer, broken>> /\ srv[s] = "none" /\ srv' = [srv EXCEPT ![s] = "incoming"]
    BY <1>1 DEF OpenSession, Serve
  <2> QED
    BY <1>0, <2>1, <2>3, <2>4
<1>2. CASE TakeAck(s) \/ TakeCompleted(s)
  <2>1. \E c \in ClientSteps : cl' = [cl EXCEPT ![s] = c]
    BY <1>2 DEF TakeAck, TakeCompleted, Leave
  <2>2. UNCHANGED <<peerOf, total, perPeer, broken, produced, srv>>
    BY <1>2 DEF TakeAck, TakeCompleted
  <2> QED
    BY <1>0, <2>1, <2>2
<1>3. CASE TakeDelta(s) \/ SessionFails(s) \/ ForeignSend(s)
  BY <1>3 DEF TakeDelta, SessionFails, ForeignSend
<1> QED
  BY <1>1, <1>2, <1>3 DEF Navigator

LEMMA CountedStep == Counted /\ [Next]_vars => Counted'
<1> SUFFICES ASSUME Counted, [Next]_vars PROVE Counted'
  OBVIOUS
<1>t. TypeOK
  BY DEF Counted
<1>1. ASSUME NEW s \in Streams, Admit(s) PROVE Counted'
  BY <1>1, AdmitStep
<1>2. ASSUME NEW s \in Streams, DropPermit(s) PROVE Counted'
  BY <1>2, DropStep
<1>3. ASSUME NEW s \in Streams, Reject(s) PROVE Counted'
  <2>1. srv[s] = "incoming" /\ srv' = [srv EXCEPT ![s] = "none"]
        /\ UNCHANGED <<peerOf, total, perPeer, cl, broken, produced>>
    BY <1>3 DEF Reject, Serve, limiter
  <2> QED
    BY <1>t, <2>1, KeepStep DEF TypeOK, Held, ServerSteps
<1>4. ASSUME NEW s \in Streams, OtherProvider(s) PROVE Counted'
  BY <1>t, <1>4, OtherMoves, OtherTyped, KeepStep DEF TypeOK, Held, ServerSteps
<1>5. ASSUME NEW s \in Streams, Navigator(s) PROVE Counted'
  BY <1>t, <1>5, NavigatorMoves, KeepStep DEF TypeOK, Held, ServerSteps
<1>6. CASE UNCHANGED vars
  <2>1. Live' = Live /\ \A p \in Peers : LiveOf(p)' = LiveOf(p) /\ OpenOf(p)' = OpenOf(p)
    BY <1>6 DEF vars, limiter, Live, LiveOf, OpenOf
  <2>2. TypeOK'
    BY <1>6, <1>t DEF vars, limiter, TypeOK
  <2> QED
    BY <1>6, <2>1, <2>2 DEF vars, limiter, Counted, PermitsCounted, LimitsHold
<1> QED
  BY <1>1, <1>2, <1>3, <1>4, <1>5, <1>6 DEF Next, Provider, OtherProvider

LEMMA AlwaysCounted == Spec => []Counted
BY InitCounted, CountedStep, PTL DEF Spec

(* The types hold, a positive count in every entry of the map included. *)
THEOREM TypeCorrect == Spec => []TypeOK
<1>1. Counted => TypeOK
  BY DEF Counted
<1> QED
  BY <1>1, AlwaysCounted, PTL

(* The counters are the permits in existence, per node and per peer. *)
THEOREM CountersExact == Spec => []PermitsCounted
<1>1. Counted => PermitsCounted
  BY DEF Counted
<1> QED
  BY <1>1, AlwaysCounted, PTL

(* No schedule of arrivals and endings exceeds the limits of DEC-0095. *)
THEOREM LimitsAlwaysHold == Spec => []LimitsHold
<1>1. Counted => LimitsHold
  BY DEF Counted
<1> QED
  BY <1>1, AlwaysCounted, PTL

-----------------------------------------------------------------------------
(* The answer a Navigator accumulates.                                     *)

Kinds == {"ack", "pong", "error", "delta", "completed"}
Message == [kind : Kinds, n : Nat]
Words == Requests \union {"handshake", "other"}

ChannelsTyped ==
    /\ up \in [Streams -> Seq(Words)]
    /\ down \in [Streams -> Seq(Message)]
    /\ content \in [Streams -> Seq(Nat)]

\* Between the handshake and its answer the provider has no request to read.
Acking(s) ==
    /\ content[s] = <<>>
    /\ up[s] \in {<<>>, <<"handshake">>}
    /\ up[s] # <<>> => srv[s] \in {"incoming", "handshake"}
    /\ down[s] \in {<<>>, <<Plain("ack")>>}
    /\ srv[s] \in {"incoming", "handshake"} => down[s] = <<>>
    /\ srv[s] # "handling"

\* What is in the channel continues what was accumulated: the next deltas, and
\* at most one message that ends the answer, a completion only of all of it.
Continues(s) ==
    \A i \in 1..Len(down[s]) :
        \/ down[s][i] = Delta(Len(content[s]) + i)
        \/ /\ i = Len(down[s])
           /\ \/ down[s][i] = Plain("error")
              \/ /\ down[s][i] = Completed(produced[s])
                 /\ Len(content[s]) + i - 1 = produced[s]

Deltas(s) == \A i \in 1..Len(down[s]) : down[s][i] = Delta(Len(content[s]) + i)

Answering(s) ==
    /\ \A i \in 1..Len(content[s]) : content[s][i] = i
    /\ Continues(s)
    /\ up[s] \in {<<>>, <<"work">>}
    /\ up[s] # <<>> => srv[s] = "serving" /\ down[s] = <<>> /\ content[s] = <<>>
    /\ srv[s] = "handling" =>
          /\ up[s] = <<>> /\ Deltas(s)
          /\ ~broken[s] => Len(content[s]) + Len(down[s]) = produced[s]

Answered(s) ==
    /\ content[s] = [i \in 1..produced[s] |-> i]
    /\ up[s] = <<>> /\ srv[s] # "handling"

\* A session, by what its Navigator has come to.
Session(s) ==
    /\ cl[s] # "foreign"
    /\ ClientGone(s) => down[s] = <<>>
    /\ cl[s] = "acking" => Acking(s)
    /\ cl[s] = "waiting" => Answering(s)
    /\ cl[s] = "done" => Answered(s)

Sessions == ChannelsTyped /\ \A s \in Streams \ Foreign : Session(s)

\* What one stream holds.
Local(s) == <<srv[s], cl[s], up[s], down[s], broken[s], produced[s], content[s]>>

LEMMA MessagesTyped ==
    \A n \in Nat : {Delta(n), Completed(n), Plain("ack"), Plain("pong"), Plain("error")}
                      \subseteq Message
BY DEF Delta, Completed, Plain, Message, Kinds

LEMMA DeliverTyped ==
    ASSUME ChannelsTyped, NEW s \in Streams, NEW m \in Message, Deliver(s, m)
    PROVE  /\ down' \in [Streams -> Seq(Message)]
           /\ \A t \in Streams \ {s} : down'[t] = down[t]
           /\ down'[s] = IF Reads(s) THEN Append(down[s], m) ELSE down[s]
<1>1. down[s] \in Seq(Message)
  BY DEF ChannelsTyped
<1>2. Append(down[s], m) \in Seq(Message)
  BY <1>1, AppendProperties
<1> QED BY <1>2 DEF Deliver, ChannelsTyped

\* Reply::send: the channel of the stream gets the message or nothing, and if
\* the stream is not broken afterwards it got it.
LEMMA SendGives ==
    ASSUME TypeOK, ChannelsTyped, NEW s \in Streams, NEW m \in Message, Send(s, m)
    PROVE  /\ down' \in [Streams -> Seq(Message)]
           /\ \A t \in Streams \ {s} : down'[t] = down[t] /\ broken'[t] = broken[t]
           /\ \/ down'[s] = down[s] /\ (broken[s] \/ broken'[s])
              \/ /\ down'[s] = IF Reads(s) THEN Append(down[s], m) ELSE down[s]
                 /\ ~broken[s] /\ ~broken'[s]
           /\ broken[s] => down'[s] = down[s] /\ broken'[s]
<1>1. CASE broken[s] /\ UNCHANGED <<down, broken>>
  BY <1>1 DEF ChannelsTyped
<1>2. CASE ~broken[s] /\ Deliver(s, m) /\ UNCHANGED broken
  BY <1>2, DeliverTyped
<1>3. CASE ~broken[s] /\ broken' = [broken EXCEPT ![s] = TRUE] /\ UNCHANGED down
  BY <1>3 DEF TypeOK, ChannelsTyped
<1> QED BY <1>1, <1>2, <1>3 DEF Send, SendAlways

LEMMA SendLastGives ==
    ASSUME ChannelsTyped, NEW s \in Streams, NEW m \in Message, SendLast(s, m)
    PROVE  /\ down' \in [Streams -> Seq(Message)]
           /\ \A t \in Streams \ {s} : down'[t] = down[t]
           /\ ~Reads(s) => down'[s] = down[s]
<1>1. CASE Deliver(s, m)
  BY <1>1, DeliverTyped
<1>2. CASE UNCHANGED down
  BY <1>2 DEF ChannelsTyped
<1> QED BY <1>1, <1>2 DEF SendLast

\* What a step of one stream has to keep.
Kept(s) ==
    /\ ChannelsTyped'
    /\ \A t \in Streams \ {s} : Local(t)' = Local(t)
    /\ s \notin Foreign => Session(s)'

\* The steps of the provider that write nothing.
LEMMA SilentKeeps ==
    ASSUME TypeOK, Sessions, NEW s \in Streams, NEW k \in ServerSteps \ {"handling"},
           srv' = [srv EXCEPT ![s] = k],
           UNCHANGED <<cl, down, produced, content>>,
           \A t \in Streams \ {s} : broken'[t] = broken[t],
           \/ up' = [up EXCEPT ![s] = <<>>]
           \/ /\ up' = up
              /\ s \notin Foreign /\ Reads(s) /\ up[s] # <<>> =>
                    srv[s] = "incoming" /\ k = "handshake",
           k \in {"incoming", "handshake"} => srv[s] = "incoming"
    PROVE  Kept(s)
<1> USE DEF TypeOK, Sessions, ChannelsTyped
<1>1. <<>> \in Seq(Words) /\ Len(<<>>) = 0
  BY EmptySeq
<1>2. ChannelsTyped'
  <2>1. up \in [Streams -> Seq(Words)]
    OBVIOUS
  <2>2. up' \in [Streams -> Seq(Words)]
    BY <1>1, <2>1
  <2> QED BY <2>2
<1>3. \A t \in Streams \ {s} : Local(t)' = Local(t)
  BY DEF Local
<1>4. ASSUME s \notin Foreign PROVE Session(s)'
  <2>1. Session(s) /\ srv'[s] = k /\ (up'[s] = <<>> \/ up'[s] = up[s])
    BY <1>4
  <2>2. cl[s] = "acking" => Acking(s)'
    <3> SUFFICES ASSUME cl[s] = "acking" PROVE Acking(s)'
      OBVIOUS
    <3>1. Acking(s)
      BY <2>1 DEF Session
    <3>2. up'[s] # <<>> => k \in {"incoming", "handshake"}
      BY <1>4, <2>1 DEF Reads
    <3> QED BY <2>1, <3>1, <3>2 DEF Acking
  <2>3. cl[s] = "waiting" => Answering(s)'
    <3> SUFFICES ASSUME cl[s] = "waiting" PROVE Answering(s)'
      OBVIOUS
    <3>1. Answering(s)
      BY <2>1 DEF Session
    <3>2. up'[s] = <<>>
      BY <1>4, <2>1, <3>1 DEF Answering, Reads
    <3>3. Continues(s)'
      BY <3>1 DEF Answering, Continues
    <3> QED BY <2>1, <3>1, <3>2, <3>3 DEF Answering
  <2>4. cl[s] = "done" => Answered(s)'
    BY <2>1 DEF Session, Answered
  <2> QED BY <2>1, <2>2, <2>3, <2>4 DEF Session, ClientGone
<1> QED BY <1>2, <1>3, <1>4 DEF Kept

\* The provider writes to a Navigator that has left, or reads a first message
\* that a session has not got.
LEMMA IdleKeeps ==
    ASSUME TypeOK, Sessions, NEW s \in Streams, s \notin Foreign, ~Reads(s),
           UNCHANGED cl, down'[s] = down[s],
           cl[s] = "done" => /\ produced'[s] = produced[s] /\ content'[s] = content[s]
                             /\ up'[s] = <<>> /\ srv'[s] # "handling"
    PROVE  Session(s)'
BY DEF Sessions, Session, Reads, ClientGone, Answered

\* A stream that no session reads, or whose Navigator is foreign.
LEMMA Unread ==
    ASSUME Sessions, NEW s \in Streams, s \notin Foreign
    PROVE  /\ cl[s] = "done" => up[s] = <<>> /\ srv[s] # "handling"
           /\ cl[s] = "acking" =>
                 /\ srv[s] # "handling"
                 /\ up[s] # <<>> => Head(up[s]) = "handshake" /\ srv[s] \in {"incoming", "handshake"}
           /\ cl[s] = "waiting" =>
                 (up[s] # <<>> => Head(up[s]) = "work" /\ srv[s] = "serving")
<1>1. Session(s)
  BY DEF Sessions
<1>2. CASE cl[s] = "done"
  BY <1>1, <1>2 DEF Session, Answered
<1>3. CASE cl[s] = "acking"
  <2>1. up[s] \in {<<>>, <<"handshake">>} /\ Head(<<"handshake">>) = "handshake"
    BY <1>1, <1>3 DEF Session, Acking
  <2> QED BY <1>1, <1>3, <2>1 DEF Session, Acking
<1>4. CASE cl[s] = "waiting"
  <2>1. up[s] \in {<<>>, <<"work">>} /\ Head(<<"work">>) = "work"
    BY <1>1, <1>4 DEF Session, Answering
  <2> QED BY <1>1, <1>4, <2>1 DEF Session, Answering
<1> QED BY <1>2, <1>3, <1>4

LEMMA ExitKeeps ==
    ASSUME TypeOK, Sessions, NEW s \in Streams,
           ReadEnds(s) \/ ReadFails(s) \/ StopIfBroken(s) \/ ReadCancel(s)
    PROVE  Kept(s)
<1>1. PICK from : Exit(s, from) /\ UNCHANGED <<cl, down, produced, content>>
  BY DEF ReadEnds, ReadFails, StopIfBroken, ReadCancel
<1>2. /\ srv' = [srv EXCEPT ![s] = "exiting"] /\ up' = [up EXCEPT ![s] = <<>>]
      /\ \A t \in Streams \ {s} : broken'[t] = broken[t]
  BY <1>1 DEF Exit, Serve, TypeOK
<1> QED BY <1>1, <1>2, SilentKeeps DEF ServerSteps

LEMMA AdmissionKeeps ==
    ASSUME TypeOK, Sessions, NEW s \in Streams, Admit(s) \/ Reject(s) \/ DropPermit(s)
    PROVE  Kept(s)
<1>1. CASE Admit(s)
  BY <1>1, SilentKeeps DEF Admit, Serve, ServerSteps
<1>2. CASE Reject(s)
  BY <1>2, SilentKeeps DEF Reject, Serve, ServerSteps
<1>3. CASE DropPermit(s)
  <2>1. /\ srv[s] = "exiting" /\ srv' = [srv EXCEPT ![s] = "none"]
        /\ UNCHANGED <<cl, up, down, broken, produced, content>>
    BY <1>3 DEF DropPermit, Serve
  <2>2. s \notin Foreign /\ Reads(s) => up[s] = <<>>
    BY <2>1, Unread DEF Reads
  <2> QED BY <2>1, <2>2, SilentKeeps DEF ServerSteps
<1> QED BY <1>1, <1>2, <1>3

LEMMA RefusalKeeps ==
    ASSUME TypeOK, Sessions, NEW s \in Streams, RefuseFirst(s) \/ ReadUnexpected(s)
    PROVE  Kept(s)
<1> USE DEF TypeOK, Sessions
<1>1. /\ UNCHANGED <<cl, produced, content>> /\ SendLast(s, Plain("error"))
      /\ srv' = [srv EXCEPT ![s] = "exiting"] /\ up' = [up EXCEPT ![s] = <<>>]
      /\ broken' = [broken EXCEPT ![s] = FALSE]
      /\ up[s] # <<>>
      /\ \/ srv[s] = "handshake" /\ Head(up[s]) \in Requests \union {"other"}
         \/ srv[s] = "serving" /\ Head(up[s]) \in {"handshake", "other"}
  BY DEF RefuseFirst, ReadUnexpected, Exit, Serve, Arrives
<1>2. /\ down' \in [Streams -> Seq(Message)]
      /\ \A t \in Streams \ {s} : down'[t] = down[t]
      /\ ~Reads(s) => down'[s] = down[s]
  BY <1>1, MessagesTyped, SendLastGives
<1>3. ChannelsTyped'
  BY <1>1, <1>2, EmptySeq DEF ChannelsTyped
<1>4. \A t \in Streams \ {s} : Local(t)' = Local(t)
  BY <1>1, <1>2 DEF Local, ChannelsTyped
<1>5. ASSUME s \notin Foreign PROVE Session(s)'
  <2>1. ~Reads(s)
    BY <1>1, <1>5, Unread DEF Reads, Requests
  <2> QED BY <1>1, <1>2, <1>5, <2>1, IdleKeeps DEF ChannelsTyped
<1> QED BY <1>3, <1>4, <1>5 DEF Kept

\* A request is taken off the channel.
LEMMA ReceiveGives ==
    ASSUME ChannelsTyped, NEW s \in Streams, NEW kinds, Receive(s, kinds)
    PROVE  /\ up' \in [Streams -> Seq(Words)]
           /\ \A t \in Streams \ {s} : up'[t] = up[t]
           /\ up[s] # <<>> /\ Head(up[s]) \in kinds /\ up'[s] = Tail(up[s])
<1>1. up[s] \in Seq(Words) /\ up[s] # <<>> /\ Head(up[s]) \in kinds
  BY DEF ChannelsTyped, Receive, Arrives
<1>2. Tail(up[s]) \in Seq(Words)
  BY <1>1, HeadTailProperties
<1> QED BY <1>1, <1>2 DEF ChannelsTyped, Receive

LEMMA HandshakeKeeps ==
    ASSUME TypeOK, Sessions, NEW s \in Streams, ReadHandshake(s)
    PROVE  Kept(s)
<1> USE DEF TypeOK, Sessions
<1> DEFINE m == Plain("ack")
<1>1. /\ UNCHANGED <<cl, produced, content>>
      /\ srv[s] = "handshake" /\ srv' = [srv EXCEPT ![s] = "serving"]
  BY DEF ReadHandshake, Serve
<1>2. /\ up' \in [Streams -> Seq(Words)]
      /\ \A t \in Streams \ {s} : up'[t] = up[t]
      /\ up[s] # <<>> /\ up'[s] = Tail(up[s])
  BY ReceiveGives DEF ReadHandshake
<1>3. /\ down' \in [Streams -> Seq(Message)]
      /\ \A t \in Streams \ {s} : down'[t] = down[t] /\ broken'[t] = broken[t]
      /\ down'[s] = down[s] \/ down'[s] = IF Reads(s) THEN Append(down[s], m) ELSE down[s]
  <2>1. m \in Message
    BY MessagesTyped
  <2>2. Send(s, m)
    BY DEF ReadHandshake
  <2> HIDE DEF m
  <2> QED BY <2>1, <2>2, SendGives
<1>4. ChannelsTyped'
  BY <1>1, <1>2, <1>3 DEF ChannelsTyped
<1>5. \A t \in Streams \ {s} : Local(t)' = Local(t)
  BY <1>1, <1>2, <1>3 DEF Local
<1>6. ASSUME s \notin Foreign PROVE Session(s)'
  <2>1. cl[s] \notin {"done", "waiting"}
    BY <1>1, <1>2, <1>6, Unread
  <2>2. CASE cl[s] = "acking"
    <3>1. Acking(s) /\ Session(s)
      BY <1>6, <2>2 DEF Session
    <3>2. down[s] = <<>> /\ up[s] = <<"handshake">>
      BY <1>1, <1>2, <3>1 DEF Acking
    <3>3. up'[s] = <<>> /\ Append(<<>>, m) = <<m>>
      BY <1>2, <3>2
    <3>4. down'[s] \in {<<>>, <<m>>}
      BY <1>3, <3>2, <3>3
    <3>5. Acking(s)'
      BY <1>1, <3>1, <3>3, <3>4 DEF Acking
    <3> QED BY <1>1, <2>2, <3>1, <3>5 DEF Session, ClientGone
  <2>3. CASE cl[s] # "acking"
    <3>1. ~Reads(s)
      BY <2>1, <2>3 DEF Reads
    <3> QED BY <1>1, <1>3, <1>6, <2>1, <3>1, IdleKeeps
  <2> QED BY <2>2, <2>3
<1> QED BY <1>4, <1>5, <1>6 DEF Kept

LEMMA WorkKeeps ==
    ASSUME TypeOK, Sessions, NEW s \in Streams, ReadWork(s)
    PROVE  Kept(s)
<1> USE DEF TypeOK, Sessions
<1>1. /\ UNCHANGED <<cl, down, broken, content>>
      /\ srv[s] = "serving" /\ srv' = [srv EXCEPT ![s] = "handling"]
      /\ produced' = [produced EXCEPT ![s] = 0]
  BY DEF ReadWork, Serve
<1>2. /\ up' \in [Streams -> Seq(Words)]
      /\ \A t \in Streams \ {s} : up'[t] = up[t]
      /\ up[s] # <<>> /\ up'[s] = Tail(up[s])
  BY ReceiveGives DEF ReadWork
<1>3. ChannelsTyped'
  BY <1>1, <1>2 DEF ChannelsTyped
<1>4. \A t \in Streams \ {s} : Local(t)' = Local(t)
  BY <1>1, <1>2 DEF Local
<1>5. ASSUME s \notin Foreign PROVE Session(s)'
  <2>1. cl[s] \notin {"done", "acking"}
    BY <1>1, <1>2, <1>5, Unread
  <2>2. CASE cl[s] = "waiting"
    <3>1. Answering(s) /\ Session(s)
      BY <1>5, <2>2 DEF Session
    <3>2. down[s] = <<>> /\ content[s] = <<>> /\ up[s] = <<"work">>
      BY <1>2, <3>1 DEF Answering
    <3>3. up'[s] = <<>> /\ down'[s] = <<>> /\ content'[s] = <<>> /\ produced'[s] = 0
          /\ Len(<<>>) = 0
      BY <1>1, <1>2, <3>2
    <3>4. Answering(s)'
      BY <3>3 DEF Answering, Continues, Deltas
    <3> QED BY <1>1, <2>2, <3>1, <3>4 DEF Session, ClientGone
  <2>3. CASE cl[s] # "waiting"
    <3>1. ~Reads(s)
      BY <2>1, <2>3 DEF Reads
    <3> QED BY <1>1, <1>5, <2>1, <3>1, IdleKeeps
  <2> QED BY <2>2, <2>3
<1> QED BY <1>3, <1>4, <1>5 DEF Kept

LEMMA ControlKeeps ==
    ASSUME TypeOK, Sessions, NEW s \in Streams, ReadControl(s)
    PROVE  Kept(s)
<1> USE DEF TypeOK, Sessions
<1> DEFINE m == Plain("pong")
<1>1. UNCHANGED <<srv, cl, produced, content>>
  BY DEF ReadControl
<1>2. /\ up' \in [Streams -> Seq(Words)]
      /\ \A t \in Streams \ {s} : up'[t] = up[t]
      /\ up[s] # <<>> /\ Head(up[s]) = "ping"
  BY ReceiveGives DEF ReadControl
<1>3. /\ down' \in [Streams -> Seq(Message)]
      /\ \A t \in Streams \ {s} : down'[t] = down[t] /\ broken'[t] = broken[t]
      /\ down'[s] = down[s] \/ down'[s] = IF Reads(s) THEN Append(down[s], m) ELSE down[s]
  <2>1. m \in Message
    BY MessagesTyped
  <2>2. Send(s, m)
    BY DEF ReadControl
  <2> HIDE DEF m
  <2> QED BY <2>1, <2>2, SendGives
<1>4. ChannelsTyped'
  BY <1>1, <1>2, <1>3 DEF ChannelsTyped
<1>5. \A t \in Streams \ {s} : Local(t)' = Local(t)
  BY <1>1, <1>2, <1>3 DEF Local
<1>6. ASSUME s \notin Foreign PROVE Session(s)'
  <2>1. ~Reads(s) /\ cl[s] # "done"
    BY <1>2, <1>6, Unread DEF Reads
  <2> QED BY <1>1, <1>3, <1>6, <2>1, IdleKeeps
<1> QED BY <1>4, <1>5, <1>6 DEF Kept

\* The handler writes a delta, which continues the answer, or the channel is
\* broken for the rest of it.
LEMMA DeltaKeeps ==
    ASSUME TypeOK, Sessions, NEW s \in Streams, HandlerDelta(s)
    PROVE  Kept(s)
<1> USE DEF TypeOK, Sessions
<1> DEFINE m == Delta(produced[s] + 1)
<1>1. /\ UNCHANGED <<srv, cl, up, content>> /\ srv[s] = "handling"
      /\ produced' = [produced EXCEPT ![s] = @ + 1] /\ Send(s, m)
  BY DEF HandlerDelta
<1>2. produced[s] \in Nat /\ m \in Message
  <2>1. produced[s] + 1 \in Nat
    OBVIOUS
  <2> QED BY <2>1, MessagesTyped
<1>3. /\ down' \in [Streams -> Seq(Message)]
      /\ \A t \in Streams \ {s} : down'[t] = down[t] /\ broken'[t] = broken[t]
      /\ \/ down'[s] = down[s] /\ (broken[s] \/ broken'[s])
         \/ /\ down'[s] = IF Reads(s) THEN Append(down[s], m) ELSE down[s]
            /\ ~broken[s] /\ ~broken'[s]
      /\ broken[s] => down'[s] = down[s] /\ broken'[s]
  <2> HIDE DEF m
  <2> QED BY <1>1, <1>2, SendGives
<1>4. ChannelsTyped'
  BY <1>1, <1>3 DEF ChannelsTyped
<1>5. \A t \in Streams \ {s} : Local(t)' = Local(t)
  BY <1>1, <1>3 DEF Local
<1>6. ASSUME s \notin Foreign PROVE Session(s)'
  <2>1. cl[s] \notin {"done", "acking"}
    BY <1>1, <1>6, Unread
  <2>2. CASE cl[s] = "waiting"
    <3> DEFINE n == Len(content[s])
               k == Len(down[s])
    <3>1. Answering(s) /\ Session(s) /\ Deltas(s) /\ up[s] = <<>>
      BY <1>1, <1>6, <2>2 DEF Session, Answering
    <3>2. n \in Nat /\ k \in Nat /\ content'[s] = content[s] /\ down[s] \in Seq(Message)
      BY <1>1, LenProperties DEF ChannelsTyped
    <3>3. CASE down'[s] = down[s] /\ (broken[s] \/ broken'[s])
      <4>1. broken'[s]
        BY <1>3, <3>3
      <4>2. Deltas(s)' /\ Continues(s)'
        BY <3>1, <3>2, <3>3 DEF Deltas, Continues
      <4> QED BY <1>1, <2>2, <3>1, <3>2, <4>1, <4>2 DEF Session, Answering, ClientGone
    <3>4. CASE down'[s] = Append(down[s], m) /\ ~broken[s] /\ ~broken'[s]
      <4>1. n + k = produced[s]
        BY <1>1, <3>1, <3>4 DEF Answering
      <4>2. /\ Len(down'[s]) = k + 1
            /\ \A i \in 1..k : down'[s][i] = down[s][i]
            /\ down'[s][k + 1] = m
        <5> HIDE DEF m
        <5> QED BY <1>2, <3>2, <3>4, AppendProperties
      <4>3. m = Delta(n + (k + 1))
        <5>1. n + (k + 1) = produced[s] + 1
          <6> HIDE DEF n, k
          <6> QED BY <3>2, <4>1
        <5> QED BY <5>1
      <4>4. ASSUME NEW i \in 1..(k + 1) PROVE down'[s][i] = Delta(n + i)
        <5>1. CASE i \in 1..k
          BY <3>1, <4>2, <5>1 DEF Deltas
        <5>2. CASE i = k + 1
          BY <4>2, <4>3, <5>2
        <5>3. i \in 1..k \/ i = k + 1
          <6> HIDE DEF n, k
          <6> QED BY <3>2
        <5> QED BY <5>1, <5>2, <5>3
      <4>5. Deltas(s)' /\ Continues(s)'
        <5> HIDE DEF m
        <5> QED BY <3>2, <4>2, <4>4 DEF Deltas, Continues
      <4>6. n + (k + 1) = produced'[s]
        <5>1. produced'[s] = produced[s] + 1
          BY <1>1
        <5> HIDE DEF n, k
        <5> QED BY <1>2, <3>2, <4>1, <5>1
      <4>7. Answering(s)'
        <5> HIDE DEF m
        <5> QED BY <1>1, <3>1, <3>2, <4>2, <4>5, <4>6 DEF Answering
      <4> QED BY <1>1, <2>2, <3>1, <4>7 DEF Session, ClientGone
    <3> QED BY <1>3, <2>2, <3>3, <3>4 DEF Reads
  <2>3. CASE cl[s] # "waiting"
    <3>1. ~Reads(s)
      BY <2>1, <2>3 DEF Reads
    <3> QED BY <1>1, <1>3, <1>6, <2>1, <3>1, IdleKeeps
  <2> QED BY <2>2, <2>3
<1> QED BY <1>4, <1>5, <1>6 DEF Kept

\* The handler ends: the completion follows the whole answer, or nothing does.
LEMMA EndKeeps ==
    ASSUME TypeOK, Sessions, NEW s \in Streams, HandlerEnds(s)
    PROVE  Kept(s)
<1> USE DEF TypeOK, Sessions
<1>1. /\ UNCHANGED <<cl, up, produced, content>> /\ srv[s] = "handling"
      /\ srv' = [srv EXCEPT ![s] = "serving"]
  BY DEF HandlerEnds, Serve
<1>2. PICK m \in {Completed(produced[s]), Plain("error")} : Send(s, m)
  BY DEF HandlerEnds
<1>3. m \in Message
  <2>1. produced[s] \in Nat
    OBVIOUS
  <2> QED BY <1>2, <2>1, MessagesTyped
<1>4. /\ down' \in [Streams -> Seq(Message)]
      /\ \A t \in Streams \ {s} : down'[t] = down[t] /\ broken'[t] = broken[t]
      /\ \/ down'[s] = down[s] /\ (broken[s] \/ broken'[s])
         \/ /\ down'[s] = IF Reads(s) THEN Append(down[s], m) ELSE down[s]
            /\ ~broken[s] /\ ~broken'[s]
  BY <1>2, <1>3, SendGives
<1>5. ChannelsTyped'
  BY <1>1, <1>4 DEF ChannelsTyped
<1>6. \A t \in Streams \ {s} : Local(t)' = Local(t)
  BY <1>1, <1>4 DEF Local
<1>7. ASSUME s \notin Foreign PROVE Session(s)'
  <2>1. cl[s] \notin {"done", "acking"}
    BY <1>1, <1>7, Unread
  <2>2. CASE cl[s] = "waiting"
    <3> DEFINE n == Len(content[s])
               k == Len(down[s])
    <3>1. Answering(s) /\ Session(s) /\ Deltas(s) /\ up[s] = <<>>
      BY <1>1, <1>7, <2>2 DEF Session, Answering
    <3>2. n \in Nat /\ k \in Nat /\ content'[s] = content[s] /\ down[s] \in Seq(Message)
      BY <1>1, LenProperties DEF ChannelsTyped
    <3>3. Continues(s)'
      <4>1. CASE down'[s] = down[s]
        BY <1>1, <3>1, <3>2, <4>1 DEF Deltas, Continues
      <4>2. CASE down'[s] = Append(down[s], m) /\ ~broken[s]
        <5>1. n + k = produced[s]
          BY <1>1, <3>1, <4>2 DEF Answering
        <5>2. /\ Len(down'[s]) = k + 1
              /\ \A i \in 1..k : down'[s][i] = down[s][i]
              /\ down'[s][k + 1] = m
          BY <1>3, <3>2, <4>2, AppendProperties
        <5>3. \A i \in 1..k : down'[s][i] = Delta(n + i)
          BY <3>1, <5>2 DEF Deltas
        <5>4. n + (k + 1) - 1 = produced'[s]
          <6>1. produced'[s] = produced[s]
            BY <1>1
          <6> HIDE DEF n, k
          <6> QED BY <3>2, <5>1, <6>1
        <5>5. m = Plain("error") \/ m = Completed(produced'[s])
          BY <1>1, <1>2
        <5>6. \A i \in 1..(k + 1) : i \in 1..k \/ i = k + 1
          BY <3>2
        <5> QED BY <3>2, <5>2, <5>3, <5>4, <5>5, <5>6 DEF Continues
      <4> QED BY <1>4, <2>2, <4>1, <4>2 DEF Reads
    <3>4. srv'[s] = "serving" /\ up'[s] = <<>>
      BY <1>1, <3>1
    <3>5. Answering(s)'
      BY <3>1, <3>2, <3>3, <3>4 DEF Answering
    <3> QED BY <1>1, <2>2, <3>1, <3>5 DEF Session, ClientGone
  <2>3. CASE cl[s] # "waiting"
    <3>1. ~Reads(s)
      BY <2>1, <2>3 DEF Reads
    <3> QED BY <1>1, <1>4, <1>7, <2>1, <3>1, IdleKeeps
  <2> QED BY <2>2, <2>3
<1> QED BY <1>5, <1>6, <1>7 DEF Kept

LEMMA OpenKeeps ==
    ASSUME TypeOK, Sessions, NEW s \in Streams, OpenSession(s)
    PROVE  Kept(s)
<1> USE DEF TypeOK, Sessions
<1>1. /\ ClientGone(s) /\ srv[s] = "none" /\ srv' = [srv EXCEPT ![s] = "incoming"]
      /\ UNCHANGED <<down, broken>>
      /\ produced' = [produced EXCEPT ![s] = 0] /\ content' = [content EXCEPT ![s] = <<>>]
      /\ \/ s \in Foreign /\ cl' = [cl EXCEPT ![s] = "foreign"] /\ UNCHANGED up
         \/ cl' = [cl EXCEPT ![s] = "acking"] /\ up' = [up EXCEPT ![s] = <<"handshake">>]
         \/ cl' = [cl EXCEPT ![s] = "out"] /\ UNCHANGED up
  BY DEF OpenSession, Serve
<1>2. <<"handshake">> \in Seq(Words) /\ <<>> \in Seq(Nat)
  BY DEF Words
<1>3. ChannelsTyped'
  <2>1. content' \in [Streams -> Seq(Nat)]
    BY <1>1, <1>2 DEF ChannelsTyped
  <2>2. up' \in [Streams -> Seq(Words)]
    BY <1>1, <1>2 DEF ChannelsTyped
  <2> QED BY <1>1, <2>1, <2>2 DEF ChannelsTyped
<1>4. \A t \in Streams \ {s} : Local(t)' = Local(t)
  BY <1>1 DEF Local, ChannelsTyped
<1>5. ASSUME s \notin Foreign PROVE Session(s)'
  <2>1. down'[s] = <<>> /\ content'[s] = <<>> /\ srv'[s] = "incoming"
    BY <1>1, <1>5 DEF Session, ChannelsTyped
  <2>2. CASE cl'[s] = "acking" /\ up'[s] = <<"handshake">>
    BY <2>1, <2>2 DEF Session, Acking, ClientGone
  <2>3. CASE cl'[s] = "out"
    BY <2>1, <2>3 DEF Session
  <2> QED BY <1>1, <1>5, <2>2, <2>3 DEF ChannelsTyped
<1> QED BY <1>3, <1>4, <1>5 DEF Kept

\* A message is taken off the channel.
LEMMA TakeGives ==
    ASSUME ChannelsTyped, NEW s \in Streams, Take(s)
    PROVE  /\ down' \in [Streams -> Seq(Message)]
           /\ \A t \in Streams \ {s} : down'[t] = down[t]
           /\ down[s] # <<>> /\ Len(down[s]) \in Nat \ {0} /\ Head(down[s]) = down[s][1]
           /\ Head(down[s]) \in Message
           /\ down'[s] = Tail(down[s]) /\ Len(down'[s]) = Len(down[s]) - 1
           /\ \A i \in 1..Len(down'[s]) : down'[s][i] = down[s][i + 1]
<1>1. down[s] \in Seq(Message) /\ down[s] # <<>>
  BY DEF ChannelsTyped, Take
<1>2. /\ Tail(down[s]) \in Seq(Message) /\ Len(Tail(down[s])) = Len(down[s]) - 1
      /\ \A i \in 1..Len(Tail(down[s])) : Tail(down[s])[i] = down[s][i + 1]
      /\ Head(down[s]) \in Message
  BY <1>1, HeadTailProperties
<1>3. Len(down[s]) \in Nat \ {0} /\ Head(down[s]) = down[s][1]
  BY <1>1, EmptySeq
<1> QED BY <1>1, <1>2, <1>3 DEF ChannelsTyped, Take

LEMMA AckKeeps ==
    ASSUME TypeOK, Sessions, NEW s \in Streams, TakeAck(s)
    PROVE  Kept(s)
<1> USE DEF TypeOK, Sessions
<1>1. /\ UNCHANGED <<srv, broken, produced, content>>
      /\ cl[s] = "acking" /\ cl' = [cl EXCEPT ![s] = "waiting"]
      /\ up' = [up EXCEPT ![s] = IF srv[s] = "serving" THEN Append(@, "work") ELSE @]
  BY DEF TakeAck, Leave
<1>2. /\ down' \in [Streams -> Seq(Message)]
      /\ \A t \in Streams \ {s} : down'[t] = down[t]
      /\ down[s] # <<>> /\ down'[s] = Tail(down[s])
  BY TakeGives DEF TakeAck
<1>3. up[s] \in Seq(Words) /\ Append(up[s], "work") \in Seq(Words)
  <2>1. up[s] \in Seq(Words) /\ "work" \in Words
    BY DEF ChannelsTyped, Words, Requests
  <2> QED BY <2>1, AppendProperties
<1>4. ChannelsTyped'
  BY <1>1, <1>2, <1>3 DEF ChannelsTyped
<1>5. \A t \in Streams \ {s} : Local(t)' = Local(t)
  BY <1>1, <1>2 DEF Local, ChannelsTyped
<1>6. ASSUME s \notin Foreign PROVE Session(s)'
  <2>1. Acking(s)
    BY <1>1, <1>6 DEF Session
  <2>2. down[s] = <<Plain("ack")>> /\ up[s] = <<>> /\ content[s] = <<>>
    BY <1>2, <2>1 DEF Acking
  <2>3. down'[s] = <<>> /\ Append(<<>>, "work") = <<"work">> /\ Len(<<>>) = 0
    BY <1>2, <2>2
  <2>4. up'[s] \in {<<>>, <<"work">>} /\ (up'[s] # <<>> => srv[s] = "serving")
    BY <1>1, <2>2, <2>3 DEF ChannelsTyped
  <2>5. content'[s] = <<>> /\ srv'[s] = srv[s] /\ srv[s] # "handling" /\ cl'[s] = "waiting"
    BY <1>1, <2>1, <2>2 DEF Acking
  <2>6. Answering(s)'
    BY <2>3, <2>4, <2>5 DEF Answering, Continues
  <2> QED BY <2>5, <2>6 DEF Session, ClientGone
<1> QED BY <1>4, <1>5, <1>6 DEF Kept

LEMMA TakeDeltaKeeps ==
    ASSUME TypeOK, Sessions, NEW s \in Streams, TakeDelta(s)
    PROVE  Kept(s)
<1> USE DEF TypeOK, Sessions
<1> DEFINE d == Head(down[s]).n
           n == Len(content[s])
           k == Len(down[s])
<1>1. /\ UNCHANGED <<srv, cl, up, broken, produced>> /\ cl[s] = "waiting"
      /\ content' = [content EXCEPT ![s] = Append(@, d)]
      /\ Head(down[s]).kind = "delta"
  BY DEF TakeDelta
<1>2. /\ down' \in [Streams -> Seq(Message)]
      /\ \A t \in Streams \ {s} : down'[t] = down[t]
      /\ down[s] # <<>> /\ k \in Nat \ {0} /\ Head(down[s]) = down[s][1]
      /\ Head(down[s]) \in Message
      /\ Len(down'[s]) = k - 1
      /\ \A i \in 1..Len(down'[s]) : down'[s][i] = down[s][i + 1]
  BY TakeGives DEF TakeDelta
<1>3. content[s] \in Seq(Nat) /\ n \in Nat /\ d \in Nat
  BY <1>2, LenProperties DEF ChannelsTyped, Message
<1>4. /\ content'[s] = Append(content[s], d) /\ content'[s] \in Seq(Nat)
      /\ Len(content'[s]) = n + 1
      /\ \A i \in 1..n : content'[s][i] = content[s][i]
      /\ content'[s][n + 1] = d
  <2>1. content'[s] = Append(content[s], d)
    BY <1>1 DEF ChannelsTyped
  <2> HIDE DEF d
  <2> QED BY <1>3, <2>1, AppendProperties
<1>5. ChannelsTyped'
  <2>1. content' \in [Streams -> Seq(Nat)]
    <3> HIDE DEF d
    <3> QED BY <1>1, <1>4 DEF ChannelsTyped
  <2> QED BY <1>1, <1>2, <2>1 DEF ChannelsTyped
<1>6. \A t \in Streams \ {s} : Local(t)' = Local(t)
  BY <1>1, <1>2 DEF Local, ChannelsTyped
<1>7. ASSUME s \notin Foreign PROVE Session(s)'
  <2>1. Session(s) /\ Answering(s)
    BY <1>1, <1>7 DEF Session
  <2>2. d = n + 1
    <3>1. 1 \in 1..k
      <4> HIDE DEF k
      <4> QED BY <1>2
    <3>2. down[s][1] = Delta(n + 1)
      <4>1. \/ down[s][1] = Delta(n + 1) \/ down[s][1] = Plain("error")
            \/ down[s][1] = Completed(produced[s])
        BY <2>1, <3>1 DEF Answering, Continues
      <4>2. Plain("error").kind # "delta" /\ Completed(produced[s]).kind # "delta"
        BY DEF Plain, Completed
      <4>3. down[s][1].kind = "delta"
        BY <1>1, <1>2
      <4> HIDE DEF n
      <4> QED BY <4>1, <4>2, <4>3
    <3> QED BY <1>2, <3>2 DEF Delta
  <2>3. \A i \in 1..(n + 1) : content'[s][i] = i
    <3> SUFFICES ASSUME NEW i \in 1..(n + 1) PROVE content'[s][i] = i
      OBVIOUS
    <3>1. CASE i \in 1..n
      BY <1>4, <2>1, <3>1 DEF Answering
    <3>2. CASE i = n + 1
      BY <1>4, <2>2, <3>2
    <3>3. i \in 1..n \/ i = n + 1
      <4> HIDE DEF n
      <4> QED BY <1>3
    <3> QED BY <3>1, <3>2, <3>3
  <2>4. ASSUME NEW i \in 1..(k - 1)
        PROVE  /\ i + 1 \in 1..k /\ (n + 1) + i = n + (i + 1)
               /\ down'[s][i] = down[s][i + 1]
               /\ (i = k - 1) <=> (i + 1 = k)
               /\ (n + 1) + i - 1 = n + (i + 1) - 1
    <3> HIDE DEF n, k
    <3>1. k \in Nat /\ n \in Nat /\ i \in Nat /\ 1 <= i /\ i <= k - 1
      BY <1>2, <1>3
    <3>2. i + 1 \in 1..k
      BY <3>1
    <3>3. (n + 1) + i = n + (i + 1) /\ (n + 1) + i - 1 = n + (i + 1) - 1
      BY <3>1
    <3>4. down'[s][i] = down[s][i + 1]
      BY <1>2
    <3>5. (i = k - 1) <=> (i + 1 = k)
      BY <3>1
    <3> QED BY <3>2, <3>3, <3>4, <3>5
  <2>5. Continues(s)'
    <3> SUFFICES ASSUME NEW i \in 1..(k - 1)
                 PROVE  \/ down'[s][i] = Delta((n + 1) + i)
                        \/ /\ i = k - 1
                           /\ \/ down'[s][i] = Plain("error")
                              \/ /\ down'[s][i] = Completed(produced[s])
                                 /\ (n + 1) + i - 1 = produced[s]
      <4>1. /\ Len(content'[s]) = n + 1 /\ Len(down'[s]) = k - 1
            /\ produced'[s] = produced[s]
        BY <1>1, <1>2, <1>4
      <4> HIDE DEF n, k
      <4> QED BY <4>1 DEF Continues
    <3>1. \/ down[s][i + 1] = Delta(n + (i + 1))
          \/ /\ i + 1 = k
             /\ \/ down[s][i + 1] = Plain("error")
                \/ /\ down[s][i + 1] = Completed(produced[s])
                   /\ n + (i + 1) - 1 = produced[s]
      BY <2>1, <2>4 DEF Answering, Continues
    <3> QED BY <2>4, <3>1
  <2>6. srv[s] = "handling" => Deltas(s)'
    <3> SUFFICES ASSUME srv[s] = "handling", NEW i \in 1..(k - 1)
                 PROVE  down'[s][i] = Delta((n + 1) + i)
      BY <1>2, <1>4 DEF Deltas
    <3>1. down[s][i + 1] = Delta(n + (i + 1))
      BY <2>1, <2>4 DEF Answering, Deltas
    <3> QED BY <2>4, <3>1
  <2>7. Len(content'[s]) + Len(down'[s]) = n + k
    <3>1. Len(content'[s]) = n + 1 /\ Len(down'[s]) = k - 1
      BY <1>2, <1>4
    <3> HIDE DEF n, k
    <3> QED BY <1>2, <1>3, <3>1
  <2>8. Answering(s)'
    <3>1. up'[s] = <<>> /\ srv'[s] = srv[s] /\ broken'[s] = broken[s]
          /\ produced'[s] = produced[s]
      BY <1>1, <1>2, <2>1 DEF Answering
    <3>2. \A i \in 1..Len(content'[s]) : content'[s][i] = i
      BY <1>4, <2>3
    <3>3. srv[s] = "handling" /\ ~broken[s] => n + k = produced[s]
      BY <2>1 DEF Answering
    <3> HIDE DEF n, k
    <3> QED BY <2>5, <2>6, <2>7, <3>1, <3>2, <3>3 DEF Answering
  <2> QED BY <1>1, <2>1, <2>8 DEF Session, ClientGone
<1> QED BY <1>5, <1>6, <1>7 DEF Kept

\* The completion that arrives ends an answer without holes.
LEMMA CompletedKeeps ==
    ASSUME TypeOK, Sessions, NEW s \in Streams, TakeCompleted(s)
    PROVE  Kept(s)
<1> USE DEF TypeOK, Sessions
<1> DEFINE d == Head(down[s]).n
           n == Len(content[s])
           whole == [i \in 1..d |-> i]
<1>1. /\ UNCHANGED <<srv, up, broken, produced>>
      /\ cl[s] = "waiting" /\ cl' = [cl EXCEPT ![s] = "done"]
      /\ down' = [down EXCEPT ![s] = <<>>]
      /\ content' = [content EXCEPT ![s] = IF @ = <<>> THEN whole ELSE @]
      /\ down[s] # <<>> /\ Head(down[s]).kind = "completed"
  BY DEF TakeCompleted, Leave
<1>2. /\ down[s] \in Seq(Message) /\ Len(down[s]) \in Nat \ {0} /\ Head(down[s]) = down[s][1]
      /\ Head(down[s]) \in Message
  <2>1. down[s] \in Seq(Message)
    BY DEF ChannelsTyped
  <2> QED BY <1>1, <2>1, EmptySeq, HeadTailProperties
<1>3. content[s] \in Seq(Nat) /\ n \in Nat /\ content[s] \in [1..n -> Nat] /\ d \in Nat
  BY <1>2, LenProperties DEF ChannelsTyped, Message
<1>4. whole \in Seq(Nat)
  <2> HIDE DEF d
  <2>1. whole \in [1..d -> Nat]
    BY <1>3
  <2> HIDE DEF whole
  <2>2. \E m \in Nat : whole \in [1..m -> Nat]
    BY <1>3, <2>1
  <2>3. whole \in UNION {[1..m -> Nat] : m \in Nat}
    BY <2>2
  <2> QED BY <2>3, SeqDef, Zenon
<1>5. ChannelsTyped'
  <2> HIDE DEF whole
  <2>1. content' \in [Streams -> Seq(Nat)]
    BY <1>1, <1>4 DEF ChannelsTyped
  <2>2. down' \in [Streams -> Seq(Message)]
    BY <1>1, EmptySeq DEF ChannelsTyped
  <2> QED BY <1>1, <2>1, <2>2 DEF ChannelsTyped
<1>6. \A t \in Streams \ {s} : Local(t)' = Local(t)
  BY <1>1 DEF Local, ChannelsTyped
<1>7. ASSUME s \notin Foreign PROVE Session(s)'
  <2>1. Session(s) /\ Answering(s)
    BY <1>1, <1>7 DEF Session
  <2>2. 1 \in 1..Len(down[s])
    BY <1>2
  <2>3. down[s][1] = Completed(produced[s]) /\ n + 1 - 1 = produced[s]
    <3>1. \/ down[s][1] = Delta(n + 1) \/ down[s][1] = Plain("error")
          \/ down[s][1] = Completed(produced[s]) /\ n + 1 - 1 = produced[s]
      BY <2>1, <2>2 DEF Answering, Continues
    <3>2. Plain("error").kind # "completed" /\ Delta(n + 1).kind # "completed"
      BY DEF Plain, Delta
    <3>3. down[s][1].kind = "completed"
      BY <1>1, <1>2
    <3> HIDE DEF n
    <3> QED BY <3>1, <3>2, <3>3
  <2>4. d = produced[s] /\ n = produced[s]
    <3>1. d = produced[s]
      BY <1>2, <2>3 DEF Completed
    <3> HIDE DEF n, d
    <3> QED BY <1>3, <2>3, <3>1
  <2>5. content[s] = [i \in 1..produced[s] |-> i]
    <3>1. \A i \in 1..n : content[s][i] = i
      BY <2>1 DEF Answering
    <3>2. n = produced[s] /\ content[s] \in [1..n -> Nat]
      BY <1>3, <2>4
    <3> HIDE DEF n
    <3> QED BY <3>1, <3>2
  <2>6. content'[s] = [i \in 1..produced'[s] |-> i]
    <3>1. content'[s] = IF content[s] = <<>> THEN whole ELSE content[s]
      <4> HIDE DEF whole
      <4> QED BY <1>1 DEF ChannelsTyped
    <3>2. whole = [i \in 1..produced[s] |-> i]
      BY <2>4
    <3>3. produced'[s] = produced[s]
      BY <1>1
    <3> HIDE DEF whole
    <3> QED BY <2>5, <3>1, <3>2, <3>3
  <2>7. up[s] = <<>> /\ srv[s] # "handling"
    <3>1. srv[s] # "handling"
      <4>1. SUFFICES ASSUME srv[s] = "handling" PROVE FALSE
        OBVIOUS
      <4>2. down[s][1] = Delta(n + 1)
        BY <2>1, <2>2, <4>1 DEF Answering, Deltas
      <4> QED BY <2>3, <4>2 DEF Delta, Completed
    <3> QED BY <1>1, <2>1, <3>1 DEF Answering
  <2>8. Answered(s)'
    BY <1>1, <2>6, <2>7 DEF Answered
  <2> QED BY <1>1, <2>8 DEF Session, ClientGone, ChannelsTyped
<1> QED BY <1>5, <1>6, <1>7 DEF Kept

LEMMA LeavingKeeps ==
    ASSUME TypeOK, Sessions, NEW s \in Streams, SessionFails(s) \/ ForeignSend(s)
    PROVE  Kept(s)
<1> USE DEF TypeOK, Sessions
<1>1. CASE SessionFails(s)
  <2>1. ChannelsTyped'
    BY <1>1, EmptySeq DEF SessionFails, ChannelsTyped
  <2>2. \A t \in Streams \ {s} : Local(t)' = Local(t)
    BY <1>1 DEF SessionFails, Local, ChannelsTyped
  <2>3. cl'[s] = "out" /\ down'[s] = <<>>
    BY <1>1 DEF SessionFails, ChannelsTyped
  <2> QED BY <2>1, <2>2, <2>3 DEF Kept, Session
<1>2. CASE ForeignSend(s)
  <2>1. PICK m \in Words : up' = [up EXCEPT ![s] = <<m>>]
    BY <1>2 DEF ForeignSend, Words
  <2>2. cl[s] = "foreign" /\ UNCHANGED <<srv, cl, down, broken, produced, content>>
    BY <1>2 DEF ForeignSend
  <2>3. ChannelsTyped'
    BY <2>1, <2>2 DEF ChannelsTyped
  <2>4. \A t \in Streams \ {s} : Local(t)' = Local(t)
    BY <2>1, <2>2 DEF Local, ChannelsTyped
  <2>5. s \in Foreign
    BY <2>2 DEF Session
  <2> QED BY <2>3, <2>4, <2>5 DEF Kept
<1> QED BY <1>1, <1>2

LEMMA SessionsStep == TypeOK /\ Sessions /\ [Next]_vars => Sessions'
<1> SUFFICES ASSUME TypeOK, Sessions, [Next]_vars PROVE Sessions'
  OBVIOUS
<1>1. ASSUME NEW s \in Streams, Kept(s) PROVE Sessions'
  <2>1. ASSUME NEW t \in Streams \ Foreign, t # s PROVE Session(t)'
    <3>1. /\ srv'[t] = srv[t] /\ cl'[t] = cl[t] /\ up'[t] = up[t] /\ down'[t] = down[t]
          /\ broken'[t] = broken[t] /\ produced'[t] = produced[t] /\ content'[t] = content[t]
      BY <1>1, <2>1 DEF Kept, Local
    <3>2. Session(t)
      BY DEF Sessions
    <3>3. Acking(t) => Acking(t)'
      BY <3>1 DEF Acking
    <3>4. Answering(t) => Answering(t)'
      BY <3>1 DEF Answering, Continues, Deltas
    <3>5. Answered(t) => Answered(t)'
      BY <3>1 DEF Answered
    <3> QED BY <3>1, <3>2, <3>3, <3>4, <3>5 DEF Session, ClientGone
  <2> QED BY <1>1, <2>1 DEF Kept, Sessions
<1>2. ASSUME NEW s \in Streams, Provider(s) \/ ReadFails(s) PROVE Kept(s)
  BY <1>2, AdmissionKeeps, ExitKeeps, RefusalKeeps, HandshakeKeeps, WorkKeeps, ControlKeeps,
     DeltaKeeps, EndKeeps DEF Provider
<1>3. ASSUME NEW s \in Streams, Navigator(s) PROVE Kept(s)
  BY <1>3, OpenKeeps, AckKeeps, TakeDeltaKeeps, CompletedKeeps, LeavingKeeps DEF Navigator
<1>4. CASE UNCHANGED vars
  <2>1. UNCHANGED <<srv, cl, up, down, broken, produced, content>>
    BY <1>4 DEF vars
  <2> QED BY <2>1 DEF Sessions, ChannelsTyped, Session, Acking, Answering, Continues, Deltas,
                      Answered, ClientGone
<1> QED BY <1>1, <1>2, <1>3, <1>4 DEF Next

(* Whatever is lost on the way and whenever a session ends, a Navigator    *)
(* that got a completion has the answer whole, of any length.              *)
THEOREM AnswersAreWhole == Spec => []NoTruncatedAnswer
<1>1. Init => Sessions
  <2> SUFFICES ASSUME Init PROVE Sessions
    OBVIOUS
  <2>1. ChannelsTyped
    BY EmptySeq DEF Init, ChannelsTyped
  <2>2. \A s \in Streams : cl[s] = "out" /\ down[s] = <<>>
    BY DEF Init
  <2> QED BY <2>1, <2>2 DEF Sessions, Session
<1>2. Sessions => NoTruncatedAnswer
  BY DEF Sessions, Session, Answered, NoTruncatedAnswer
<1> QED BY <1>1, <1>2, SessionsStep, TypeCorrect, PTL DEF Spec
=============================================================================
