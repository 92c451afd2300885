--------------------------- MODULE MobileNode_proofs ---------------------------
(* Proofs about MobileNode: type correctness, its invariants, and that it   *)
(* implements DispatchRule, for any Navigators, messages, streams and size  *)
(* of the book.                                                             *)
EXTENDS MobileNode, FiniteSetTheorems, TLAPS

Running == {s \in Streams : streams[s].step = "running"}

-----------------------------------------------------------------------------
(* What AssignmentBook.remember returns. *)

LEMMA RememberTyped ==
    ASSUME NEW M, NEW map \in Seq(M), NEW x \in M, Len(map) <= Remembered
    PROVE  /\ Remember(map, x) \in Seq(M)
           /\ Len(Remember(map, x)) <= Remembered
<1> DEFINE replaced == [i \in DOMAIN map |-> IF map[i].mission = x.mission THEN x ELSE map[i]]
<1>1. CASE Holds(map, x.mission)
  <2>1. replaced \in Seq(M) /\ Len(replaced) = Len(map)
    OBVIOUS
  <2>2. Remember(map, x) = replaced
    BY <1>1 DEF Remember
  <2> QED
    BY <2>1, <2>2
<1>2. CASE ~Holds(map, x.mission) /\ Len(map) < Remembered
  <2>1. Remember(map, x) = Append(map, x)
    BY <1>2 DEF Remember
  <2> QED
    BY <2>1, <1>2, NodeAssumption
<1>3. CASE ~Holds(map, x.mission) /\ ~(Len(map) < Remembered)
  <2>1. Remember(map, x) = Append(Tail(map), x)
    BY <1>3 DEF Remember
  <2>2. Len(map) = Remembered /\ Len(map) \in Nat /\ Len(map) > 0
    BY <1>3, NodeAssumption
  <2>3. map # <<>>
    BY <2>2
  <2>4. Tail(map) \in Seq(M) /\ Len(Tail(map)) = Len(map) - 1
    BY <2>3
  <2> QED
    BY <2>1, <2>2, <2>4
<1> QED
  BY <1>1, <1>2, <1>3

LEMMA RememberMembers ==
    ASSUME NEW M, NEW map \in Seq(M), NEW x \in M, Len(map) <= Remembered,
           NEW i \in DOMAIN Remember(map, x)
    PROVE  Remember(map, x)[i] = x
             \/ \E j \in DOMAIN map : Remember(map, x)[i] = map[j]
<1>1. CASE Holds(map, x.mission)
  BY <1>1 DEF Remember
<1>2. CASE ~Holds(map, x.mission) /\ Len(map) < Remembered
  <2>1. Remember(map, x) = Append(map, x)
    BY <1>2 DEF Remember
  <2> QED
    BY <2>1
<1>3. CASE ~Holds(map, x.mission) /\ ~(Len(map) < Remembered)
  <2>1. Remember(map, x) = Append(Tail(map), x)
    BY <1>3 DEF Remember
  <2>2. Len(map) \in Nat /\ Len(map) > 0
    BY <1>3, NodeAssumption
  <2>3. map # <<>>
    BY <2>2
  <2>4. Tail(map) \in Seq(M) /\ Len(Tail(map)) = Len(map) - 1
        /\ \A k \in 1..Len(Tail(map)) : Tail(map)[k] = map[k + 1] /\ k + 1 \in DOMAIN map
    BY <2>3, <2>2
  <2>5. i = Len(Tail(map)) + 1 \/ i \in 1..Len(Tail(map))
    BY <2>1, <2>4
  <2>6. CASE i = Len(Tail(map)) + 1
    BY <2>1, <2>4, <2>6
  <2>7. CASE i \in 1..Len(Tail(map))
    <3>1. Append(Tail(map), x)[i] = Tail(map)[i]
      BY <2>4, <2>7
    <3> QED
      BY <3>1, <2>1, <2>4, <2>7
  <2> QED
    BY <2>5, <2>6, <2>7
<1> QED
  BY <1>1, <1>2, <1>3

\* Only the mission remembered can be new in the book.
LEMMA RememberHolds ==
    ASSUME NEW M, NEW map \in Seq(M), NEW x \in M, Len(map) <= Remembered,
           NEW m, Holds(Remember(map, x), m), m # x.mission
    PROVE  Holds(map, m)
<1>1. PICK i \in DOMAIN Remember(map, x) : Remember(map, x)[i].mission = m
  BY DEF Holds
<1>2. Remember(map, x)[i] # x
  BY <1>1
<1>3. PICK j \in DOMAIN map : Remember(map, x)[i] = map[j]
  BY <1>2, RememberMembers
<1> QED
  BY <1>1, <1>3 DEF Holds

-----------------------------------------------------------------------------
(* Types, and the count of the missions that run, which type `active`. *)

LEMMA InitTyped == Init => TypeOK /\ ActiveCounted /\ BookIsSigned
<1> SUFFICES ASSUME Init PROVE TypeOK /\ ActiveCounted /\ BookIsSigned
  OBVIOUS
<1> USE NodeAssumption
<1>1. offers \in Seq(Offer) /\ Len(offers) <= Remembered
      /\ assigns \in Seq(Assign) /\ Len(assigns) <= Remembered
      /\ served \in Seq([mission : Missions, nav : Navigators])
  BY DEF Init
<1>2. Free \in ServeCall /\ Free.step = "free"
  BY DEF Free, ServeCall, Steps
<1>3. streams \in [Streams -> ServeCall] /\ \A s \in Streams : streams[s].step = "free"
  BY <1>2 DEF Init
<1>4. TypeOK
  BY <1>1, <1>3 DEF Init, TypeOK
<1>5. Running = {}
  BY <1>3 DEF Running
<1>6. ActiveCounted
  BY <1>5, FS_EmptySet DEF Init, ActiveCounted, Running
<1>7. BookIsSigned
  BY DEF Init, BookIsSigned
<1> QED
  BY <1>4, <1>6, <1>7

\* How a step of one serve call changes the streams.
LEMMA StreamsTyped ==
    ASSUME streams \in [Streams -> ServeCall], NEW s \in Streams
    PROVE  /\ \A from, to \in Steps : Move(s, from, to) => streams' \in [Streams -> ServeCall]
           /\ \A from \in Steps : Leave(s, from) => streams' \in [Streams -> ServeCall]
           /\ \A n \in Navigators : StreamOpens(s, n) => streams' \in [Streams -> ServeCall]
           /\ \A m \in Missions : CallArrives(s, m) => streams' \in [Streams -> ServeCall]
<1> USE DEF ServeCall, Steps
<1>1. ASSUME NEW to \in Steps PROVE [streams[s] EXCEPT !.step = to] \in ServeCall
  OBVIOUS
<1>2. ASSUME NEW from \in Steps, NEW to \in Steps, Move(s, from, to)
      PROVE streams' \in [Streams -> ServeCall]
  BY <1>1, <1>2 DEF Move
<1>3. Free \in ServeCall
  BY DEF Free
<1>4. ASSUME NEW from \in Steps, Leave(s, from) PROVE streams' \in [Streams -> ServeCall]
  BY <1>3, <1>4 DEF Leave
<1>5. ASSUME NEW n \in Navigators, StreamOpens(s, n) PROVE streams' \in [Streams -> ServeCall]
  <2>1. [step |-> "ready", nav |-> n, mission |-> NoMission] \in ServeCall
    OBVIOUS
  <2> QED
    BY <1>5, <2>1 DEF StreamOpens
<1>6. ASSUME NEW m \in Missions, CallArrives(s, m) PROVE streams' \in [Streams -> ServeCall]
  <2>1. \A to \in Steps : [streams[s] EXCEPT !.step = to, !.mission = m] \in ServeCall
    OBVIOUS
  <2>2. PICK to \in {"called", "waiting"} :
           streams' = [streams EXCEPT ![s] = [streams[s] EXCEPT !.step = to, !.mission = m]]
    BY <1>6 DEF CallArrives
  <2>3. [streams[s] EXCEPT !.step = to, !.mission = m] \in ServeCall
    BY <2>1
  <2> HIDE DEF ServeCall
  <2> QED
    BY <2>2, <2>3
<1> QED
  BY <1>2, <1>4, <1>5, <1>6

LEMMA WakeTyped ==
    ASSUME streams \in [Streams -> ServeCall], NEW m, Wake(m)
    PROVE  /\ streams' \in [Streams -> ServeCall]
           /\ \A s \in Streams : streams'[s].step = "running" <=> streams[s].step = "running"
           /\ \A s \in Streams : streams'[s].step = "waiting" =>
                  streams'[s] = streams[s] /\ streams[s].mission # m
<1>1. \A s \in Streams : [streams[s] EXCEPT !.step = "called"] \in ServeCall
                         /\ [streams[s] EXCEPT !.step = "called"].step = "called"
  BY DEF ServeCall, Steps
<1> QED
  BY <1>1 DEF Wake

\* The cardinality behind `active`.
LEMMA CountSteps ==
    ASSUME ActiveCounted, streams \in [Streams -> ServeCall], NEW s \in Streams
    PROVE  /\ active \in Nat
           /\ streams[s].step # "running" => Cardinality(Running \union {s}) = active + 1
           /\ streams[s].step = "running" =>
                active > 0 /\ Cardinality(Running \ {s}) = active - 1
<1>1. IsFiniteSet(Running)
  BY NodeAssumption, FS_Subset DEF Running
<1>2. Cardinality(Running) \in Nat /\ active = Cardinality(Running)
  BY <1>1, FS_CardinalityType DEF ActiveCounted, Running
<1>3. streams[s].step # "running" => s \notin Running
  BY DEF Running
<1>4. streams[s].step = "running" => s \in Running
  BY DEF Running
<1>5. s \in Running => Cardinality(Running) > 0
  BY <1>1, <1>2, FS_EmptySet
<1> QED
  BY <1>1, <1>2, <1>3, <1>4, <1>5, FS_AddElement, FS_RemoveElement

\* A step of a stream that neither starts nor ends a run.
LEMMA CountKept ==
    ASSUME ActiveCounted, active' = active,
           \A s \in Streams : streams'[s].step = "running" <=> streams[s].step = "running"
    PROVE  ActiveCounted'
<1>1. {s \in Streams : streams'[s].step = "running"} = Running
  BY DEF Running
<1> QED
  BY <1>1 DEF ActiveCounted, Running

\* Which steps touch what: all the rest of the state is as it was.
LEMMA Frames ==
    ASSUME [Next]_vars
    PROVE  \/ \E msg \in Gossip : OfferVerified(msg) \/ AssignVerified(msg)
           \/ \E s \in Streams : Run(s)
           \/ UNCHANGED <<offers, assigns, used, served>>
<1> USE DEF book
<1>1. \A msg \in Gossip : AdvertArrives(msg) \/ OfferArrives(msg) \/ AssignArrives(msg)
        \/ Discard(msg) \/ AdvertVerified(msg) => UNCHANGED <<offers, assigns, used, served>>
  BY DEF AdvertArrives, OfferArrives, AssignArrives, Arrive, Discard, AdvertVerified
<1>2. \A m \in Missions : PublishBid(m) => UNCHANGED <<offers, assigns, used, served>>
  BY DEF PublishBid
<1>3. \A s \in Streams : StreamEnds(s) \/ WaitTimesOut(s) \/ Refuse(s) \/ Complete(s)
        => UNCHANGED <<offers, assigns, used, served>>
  BY DEF StreamEnds, WaitTimesOut, Refuse, Complete
<1>4. \A s \in Streams, n \in Navigators : StreamOpens(s, n)
        => UNCHANGED <<offers, assigns, used, served>>
  BY DEF StreamOpens
<1>5. \A s \in Streams, m \in Missions : CallArrives(s, m)
        => UNCHANGED <<offers, assigns, used, served>>
  BY DEF CallArrives
<1>6. Tick \/ UNCHANGED vars => UNCHANGED <<offers, assigns, used, served>>
  BY DEF Tick, vars
<1> QED
  BY <1>1, <1>2, <1>3, <1>4, <1>5, <1>6 DEF Next, Handler, Serve

(* The types and the count of runs, step by step. *)
LEMMA TypeStep == TypeOK /\ ActiveCounted /\ [Next]_vars => TypeOK' /\ ActiveCounted'
<1> SUFFICES ASSUME TypeOK, ActiveCounted, [Next]_vars PROVE TypeOK' /\ ActiveCounted'
  OBVIOUS
<1> USE NodeAssumption DEF TypeOK, book, auction
<1>s. streams \in [Streams -> ServeCall]
  OBVIOUS
<1>1. ASSUME NEW msg \in Gossip,
             AdvertArrives(msg) \/ OfferArrives(msg) \/ AssignArrives(msg) \/ Discard(msg)
      PROVE  TypeOK' /\ ActiveCounted'
  <2>1. verifying' \subseteq Gossip
        /\ UNCHANGED <<now, navigator, book, auction, streams, active, served>>
    BY <1>1 DEF AdvertArrives, OfferArrives, AssignArrives, Arrive, Discard
  <2> QED
    BY <2>1 DEF ActiveCounted
<1>2. ASSUME NEW msg \in Gossip, AdvertVerified(msg) PROVE TypeOK' /\ ActiveCounted'
  <2>1. msg.nav \in Navigators
    BY <1>2 DEF AdvertVerified, Advert
  <2> QED
    BY <1>2, <2>1 DEF AdvertVerified, Verified, ActiveCounted
<1>3. ASSUME NEW msg \in Gossip, OfferVerified(msg) PROVE TypeOK' /\ ActiveCounted'
  <2>1. msg \in Offer /\ msg.mission \in Missions
    BY <1>3 DEF OfferVerified, Offer
  <2>2. offers' \in Seq(Offer) /\ Len(offers') <= Remembered
    BY <1>3, <2>1, RememberTyped DEF OfferVerified
  <2>3. bidded' \subseteq Missions /\ signing' \in [Missions -> Nat]
    <3>1. [signing EXCEPT ![msg.mission] = @ + 1] \in [Missions -> Nat]
      BY <2>1
    <3>2. bidded \union {msg.mission} \subseteq Missions
      BY <2>1
    <3>3. \/ UNCHANGED <<bidded, signing>>
          \/ /\ bidded' = bidded \union {msg.mission}
             /\ signing' = [signing EXCEPT ![msg.mission] = @ + 1]
      BY <1>3 DEF OfferVerified
    <3> QED
      BY <3>1, <3>2, <3>3
  <2>4. verifying' \subseteq Gossip
        /\ UNCHANGED <<now, navigator, assigns, used, bids, streams, active, served>>
    BY <1>3 DEF OfferVerified, Verified
  <2> QED
    BY <2>2, <2>3, <2>4 DEF ActiveCounted
<1>4. ASSUME NEW msg \in Gossip, AssignVerified(msg) PROVE TypeOK' /\ ActiveCounted'
  <2>1. msg \in Assign /\ Wake(msg.mission)
    BY <1>4 DEF AssignVerified
  <2>2. assigns' \in Seq(Assign) /\ Len(assigns') <= Remembered
    BY <1>4, <2>1, RememberTyped DEF AssignVerified
  <2>3. verifying' \subseteq Gossip
        /\ UNCHANGED <<now, navigator, offers, used, auction, active, served>>
    BY <1>4 DEF AssignVerified, Verified
  <2> QED
    BY <1>s, <2>1, <2>2, <2>3, WakeTyped, CountKept
<1>5. ASSUME NEW m \in Missions, PublishBid(m) PROVE TypeOK' /\ ActiveCounted'
  <2>1. signing[m] \in Nat /\ signing[m] > 0
    BY <1>5 DEF PublishBid
  <2>2. signing[m] - 1 \in Nat
    BY <2>1
  <2>3. [signing EXCEPT ![m] = @ - 1] \in [Missions -> Nat]
        /\ [bids EXCEPT ![m] = @ + 1] \in [Missions -> Nat]
    BY <2>2
  <2>4. signing' \in [Missions -> Nat] /\ bids' \in [Missions -> Nat]
    BY <1>5, <2>3 DEF PublishBid
  <2> QED
    BY <1>5, <2>4 DEF PublishBid, ActiveCounted
<1>6. ASSUME NEW s \in Streams,
             \/ StreamEnds(s) \/ WaitTimesOut(s) \/ Refuse(s)
             \/ \E n \in Navigators : StreamOpens(s, n)
             \/ \E m \in Missions : CallArrives(s, m)
      PROVE  TypeOK' /\ ActiveCounted'
  <2>1. streams' \in [Streams -> ServeCall]
    BY <1>6, <1>s, StreamsTyped DEF StreamEnds, WaitTimesOut, Refuse, Steps
  <2>2. UNCHANGED <<now, navigator, verifying, book, auction, active, served>>
    BY <1>6 DEF StreamEnds, WaitTimesOut, Refuse, StreamOpens, CallArrives
  <2>3. \A t \in Streams : streams'[t].step = "running" <=> streams[t].step = "running"
    <3>1. CASE StreamEnds(s) \/ Refuse(s)
      <4>1. streams' = [streams EXCEPT ![s] = Free] /\ streams[s].step # "running"
        BY <3>1 DEF StreamEnds, Refuse, Leave
      <4>2. streams'[s].step = "free"
        BY <4>1, <1>s DEF Free
      <4> QED
        BY <4>1, <4>2, <1>s
    <3>2. CASE WaitTimesOut(s)
      BY <3>2, <1>s DEF WaitTimesOut, Move, ServeCall
    <3>3. ASSUME NEW n \in Navigators, StreamOpens(s, n)
          PROVE  \A t \in Streams : streams'[t].step = "running" <=> streams[t].step = "running"
      BY <3>3, <1>s DEF StreamOpens
    <3>4. ASSUME NEW m \in Missions, CallArrives(s, m)
          PROVE  \A t \in Streams : streams'[t].step = "running" <=> streams[t].step = "running"
      <4>1. PICK to \in {"called", "waiting"} :
              streams' = [streams EXCEPT ![s].step = to, ![s].mission = m]
        BY <3>4 DEF CallArrives
      <4>2. streams'[s].step = to /\ streams[s].step = "ready"
        BY <4>1, <3>4, <1>s DEF CallArrives, ServeCall
      <4> QED
        BY <4>1, <4>2, <1>s
    <3> QED
      BY <1>6, <3>1, <3>2, <3>3, <3>4
  <2> QED
    BY <2>1, <2>2, <2>3, CountKept
<1>7. ASSUME NEW s \in Streams, Run(s) PROVE TypeOK' /\ ActiveCounted'
  <2>1. streams' \in [Streams -> ServeCall] /\ active' = active + 1
    BY <1>7, <1>s, StreamsTyped DEF Run, Steps
  <2>2. streams[s].nav \in Navigators /\ streams[s].mission \in Missions
    <3>1. PICK i \in DOMAIN offers, j \in DOMAIN assigns :
            offers[i].mission = streams[s].mission /\ offers[i].nav = streams[s].nav
      BY <1>7 DEF Run, Authorised
    <3>2. offers[i] \in Offer
      BY <3>1
    <3> QED
      BY <3>1, <3>2 DEF Offer
  <2>3. used' \subseteq Missions /\ served' \in Seq([mission : Missions, nav : Navigators])
    BY <1>7, <2>2 DEF Run
  <2>4. streams[s].step # "running"
        /\ {t \in Streams : streams'[t].step = "running"} = Running \union {s}
    BY <1>7, <1>s DEF Run, Move, Running, ServeCall
  <2>5. ActiveCounted'
    BY <1>s, <2>1, <2>4, CountSteps DEF ActiveCounted
  <2> QED
    BY <1>7, <2>1, <2>3, <2>5 DEF Run
<1>8. ASSUME NEW s \in Streams, Complete(s) PROVE TypeOK' /\ ActiveCounted'
  <2>1. streams' \in [Streams -> ServeCall] /\ active' = active - 1
    BY <1>8, <1>s, StreamsTyped DEF Complete, Steps
  <2>2. streams[s].step = "running"
        /\ {t \in Streams : streams'[t].step = "running"} = Running \ {s}
    BY <1>8, <1>s DEF Complete, Leave, Free, Running, ServeCall
  <2>3. active' \in Nat /\ ActiveCounted'
    <3>1. active \in Nat /\ active > 0 /\ Cardinality(Running \ {s}) = active - 1
      BY <1>s, <2>2, CountSteps
    <3>2. ActiveCounted'
      BY <2>1, <2>2, <3>1 DEF ActiveCounted
    <3> QED
      BY <2>1, <3>1, <3>2
  <2> QED
    BY <1>8, <2>1, <2>3 DEF Complete
<1>9. CASE Tick
  BY <1>9 DEF Tick, ActiveCounted
<1>10. CASE UNCHANGED vars
  BY <1>10 DEF vars, ActiveCounted
<1> QED
  BY <1>1, <1>2, <1>3, <1>4, <1>5, <1>6, <1>7, <1>8, <1>9, <1>10 DEF Next, Handler, Serve

(* The types hold in every reachable state, and with them that `active` is  *)
(* the number of runs.                                                      *)
THEOREM TypeCorrect == Spec => []TypeOK
<1>1. TypeOK /\ ActiveCounted /\ [Next]_vars => (TypeOK /\ ActiveCounted)'
  BY TypeStep
<1>2. Spec => [](TypeOK /\ ActiveCounted)
  BY <1>1, InitTyped, PTL DEF Spec
<1> QED
  BY <1>2, PTL

(* Every way a run ends gives its place back, for any number of streams.    *)
THEOREM RunsAreCounted == Spec => []ActiveCounted
<1>1. TypeOK /\ ActiveCounted /\ [Next]_vars => (TypeOK /\ ActiveCounted)'
  BY TypeStep
<1>2. Spec => [](TypeOK /\ ActiveCounted)
  BY <1>1, InitTyped, PTL DEF Spec
<1> QED
  BY <1>2, PTL

-----------------------------------------------------------------------------
(* What the book holds.  The checks made before the signature is awaited    *)
(* still hold after it, because a message does not change.                  *)

Screened == \A msg \in verifying : msg \in Assign => msg.mine

LEMMA ScreenedStep == Screened /\ [Next]_vars => Screened'
<1> SUFFICES ASSUME Screened, [Next]_vars PROVE Screened'
  OBVIOUS
<1> USE DEF Screened
<1>1. ASSUME NEW msg \in Gossip, AssignArrives(msg) PROVE Screened'
  BY <1>1 DEF AssignArrives, Arrive
<1>2. ASSUME NEW msg \in Gossip, AdvertArrives(msg) \/ OfferArrives(msg) PROVE Screened'
  <2>1. msg \notin Assign
    BY <1>2 DEF AdvertArrives, OfferArrives, Advert, Offer, Assign
  <2> QED
    BY <1>2, <2>1 DEF AdvertArrives, OfferArrives, Arrive
<1>3. ASSUME NEW msg \in Gossip,
             Discard(msg) \/ AdvertVerified(msg) \/ OfferVerified(msg) \/ AssignVerified(msg)
      PROVE  Screened'
  BY <1>3 DEF Discard, AdvertVerified, OfferVerified, AssignVerified, Verified
<1>4. ASSUME NEW s \in Streams, Serve(s) PROVE verifying' = verifying
  BY <1>4 DEF Serve, StreamEnds, WaitTimesOut, Run, Refuse, Complete, StreamOpens, CallArrives
<1>5. (\E m \in Missions : PublishBid(m)) \/ Tick \/ UNCHANGED vars => verifying' = verifying
  BY DEF PublishBid, Tick, vars
<1> QED
  BY <1>1, <1>2, <1>3, <1>4, <1>5 DEF Next, Handler

LEMMA BookStep == TypeOK /\ Screened /\ BookIsSigned /\ [Next]_vars => BookIsSigned'
<1> SUFFICES ASSUME TypeOK, Screened, BookIsSigned, [Next]_vars PROVE BookIsSigned'
  OBVIOUS
<1> USE DEF TypeOK, BookIsSigned
<1>1. ASSUME NEW msg \in Gossip, OfferVerified(msg) PROVE BookIsSigned'
  <2>1. offers' = Remember(offers, msg) /\ assigns' = assigns
        /\ msg \in Offer /\ msg \in Signed
    BY <1>1 DEF OfferVerified, Verified
  <2>2. \A i \in DOMAIN offers' : offers'[i] = msg \/ \E j \in DOMAIN offers : offers'[i] = offers[j]
    BY <2>1, RememberMembers
  <2> QED
    BY <2>1, <2>2
<1>2. ASSUME NEW msg \in Gossip, AssignVerified(msg) PROVE BookIsSigned'
  <2>1. assigns' = Remember(assigns, msg) /\ offers' = offers
        /\ msg \in Assign /\ msg \in Signed /\ msg.mine
    BY <1>2 DEF AssignVerified, Verified, Screened
  <2>2. \A i \in DOMAIN assigns' : assigns'[i] = msg \/ \E j \in DOMAIN assigns : assigns'[i] = assigns[j]
    BY <2>1, RememberMembers
  <2> QED
    BY <2>1, <2>2
<1>3. ASSUME NEW s \in Streams, Run(s) PROVE BookIsSigned'
  BY <1>3 DEF Run
<1>4. UNCHANGED <<offers, assigns, used, served>> => BookIsSigned'
  OBVIOUS
<1> QED
  BY <1>1, <1>2, <1>3, <1>4, Frames

\* What the dispatch rule rests on.
DispatchInv == TypeOK /\ ActiveCounted /\ Screened /\ BookIsSigned /\ used = Rule!ServedMissions

LEMMA UsedStep ==
    TypeOK /\ used = Rule!ServedMissions /\ [Next]_vars => used' = Rule!ServedMissions'
<1> SUFFICES ASSUME TypeOK, used = Rule!ServedMissions, [Next]_vars
             PROVE  used' = Rule!ServedMissions'
  OBVIOUS
<1> USE DEF Rule!ServedMissions
<1>1. ASSUME NEW s \in Streams, Run(s) PROVE used' = Rule!ServedMissions'
  <2> DEFINE r == [mission |-> streams[s].mission, nav |-> streams[s].nav]
  <2>1. served' = Append(served, r) /\ used' = used \union {r.mission}
    BY <1>1 DEF Run
  <2>2. Len(served) \in Nat /\ DOMAIN served = 1..Len(served)
    BY DEF TypeOK
  <2>3. DOMAIN served' = DOMAIN served \union {Len(served) + 1}
        /\ served'[Len(served) + 1] = r
        /\ \A i \in DOMAIN served : served'[i] = served[i]
    BY <2>1, <2>2 DEF TypeOK
  <2>4. {served'[i].mission : i \in DOMAIN served'}
          = {served[i].mission : i \in DOMAIN served} \union {r.mission}
    BY <2>3
  <2> QED
    BY <2>1, <2>4
<1>2. ASSUME NEW msg \in Gossip, OfferVerified(msg) \/ AssignVerified(msg)
      PROVE  UNCHANGED <<used, served>>
  BY <1>2 DEF OfferVerified, AssignVerified
<1> QED
  BY <1>1, <1>2, Frames

LEMMA DispatchInvariant == Spec => []DispatchInv
<1>1. Init => DispatchInv
  BY InitTyped DEF Init, DispatchInv, Screened, Rule!ServedMissions
<1>2. DispatchInv /\ [Next]_vars => DispatchInv'
  BY TypeStep, ScreenedStep, BookStep, UsedStep DEF DispatchInv
<1> QED
  BY <1>1, <1>2, PTL DEF Spec

(* The book holds signed messages only, whatever arrives while a signature  *)
(* is being verified.                                                       *)
THEOREM BookStaysSigned == Spec => []BookIsSigned
<1>1. DispatchInv => BookIsSigned
  BY DEF DispatchInv
<1> QED
  BY <1>1, DispatchInvariant, PTL

\* consume lets a mission through only under the rule.
LEMMA AuthorisedUnderRule ==
    ASSUME DispatchInv, NEW m, NEW n, Authorised(m, n)
    PROVE  m \in Missions /\ n \in Navigators /\ Rule!InForce(m, n) /\ m \notin Rule!ServedMissions
<1>1. PICK i \in DOMAIN offers, j \in DOMAIN assigns :
        /\ offers[i].mission = m /\ assigns[j].mission = m
        /\ offers[i].nav = n /\ assigns[j].nav = n
        /\ now <= offers[i].deadline + Grace
  BY DEF Authorised
<1>2. offers[i] \in Offer \intersect Signed
  BY <1>1 DEF DispatchInv, TypeOK, BookIsSigned
<1>3. assigns[j] \in {a \in Assign \intersect Signed : a.mine}
  BY <1>1 DEF DispatchInv, TypeOK, BookIsSigned
<1>4. m \in Missions /\ n \in Navigators
  BY <1>1, <1>2 DEF Offer
<1>5. Rule!InForce(m, n)
  BY <1>1, <1>2, <1>3 DEF Rule!InForce
<1>6. m \notin Rule!ServedMissions
  BY DEF Authorised, DispatchInv
<1> QED
  BY <1>4, <1>5, <1>6

(* MobileNode implements the dispatch rule: the clock is its clock, Run is  *)
(* its Dispatch, and every other step is a stutter of it.                   *)
THEOREM ImplementsDispatchRule == Spec => KeepsDispatchRule
<1>1. Init => Rule!Init
  BY DEF Init, Rule!Init
<1>2. DispatchInv /\ [Next]_vars => [Rule!Next]_(Rule!rvars)
  <2> SUFFICES ASSUME DispatchInv, [Next]_vars PROVE [Rule!Next]_(Rule!rvars)
    OBVIOUS
  <2> USE DEF Rule!rvars
  <2>1. ASSUME NEW s \in Streams, Run(s) PROVE Rule!Next
    <3>1. Authorised(streams[s].mission, streams[s].nav)
          /\ served' = Append(served, [mission |-> streams[s].mission, nav |-> streams[s].nav])
          /\ UNCHANGED now
      BY <2>1 DEF Run
    <3>2. Rule!Dispatch(streams[s].mission, streams[s].nav)
      BY <3>1, AuthorisedUnderRule DEF Rule!Dispatch
    <3> QED
      BY <3>1, <3>2, AuthorisedUnderRule DEF Rule!Next
  <2>2. CASE Tick
    BY <2>2 DEF Tick, Rule!Next, Rule!Elapse
  <2>3. ASSUME NEW msg \in Gossip, Handler(msg) PROVE UNCHANGED <<now, served>>
    BY <2>3 DEF Handler, AdvertArrives, OfferArrives, AssignArrives, Arrive, Discard,
                AdvertVerified, OfferVerified, AssignVerified
  <2>4. ASSUME NEW s \in Streams, Serve(s), ~Run(s) PROVE UNCHANGED <<now, served>>
    BY <2>4 DEF Serve, StreamEnds, WaitTimesOut, Refuse, Complete, StreamOpens, CallArrives
  <2>5. (\E m \in Missions : PublishBid(m)) \/ UNCHANGED vars => UNCHANGED <<now, served>>
    BY DEF PublishBid, vars
  <2> QED
    BY <2>1, <2>2, <2>3, <2>4, <2>5 DEF Next
<1> QED
  BY <1>1, <1>2, DispatchInvariant, PTL DEF Spec, KeepsDispatchRule, Rule!Spec

-----------------------------------------------------------------------------
(* Waits and bids. *)

LEMMA WakeupStep == TypeOK /\ NoLostWakeup /\ [Next]_vars => NoLostWakeup'
<1> SUFFICES ASSUME TypeOK, NoLostWakeup, [Next]_vars,
                    NEW t \in Streams, streams'[t].step = "waiting"
             PROVE  ~Holds(assigns', streams'[t].mission)
  BY DEF NoLostWakeup, Holds
<1>s. streams \in [Streams -> ServeCall]
  BY DEF TypeOK
<1>1. ASSUME NEW msg \in Gossip, AssignVerified(msg)
      PROVE  ~Holds(assigns', streams'[t].mission)
  <2>1. msg \in Assign /\ Wake(msg.mission) /\ assigns' = Remember(assigns, msg)
    BY <1>1 DEF AssignVerified
  <2>2. streams'[t] = streams[t] /\ streams[t].mission # msg.mission
    BY <1>s, <2>1, WakeTyped
  <2>3. ~Holds(assigns, streams[t].mission)
    BY <2>2 DEF NoLostWakeup
  <2>4. ~Holds(Remember(assigns, msg), streams[t].mission)
    BY <2>1, <2>2, <2>3, RememberHolds DEF TypeOK
  <2> QED
    BY <2>1, <2>2, <2>4
<1>2. CASE assigns' = assigns /\ streams'[t] = streams[t]
  BY <1>2 DEF NoLostWakeup
<1>3. ASSUME NEW msg \in Gossip, Handler(msg), ~AssignVerified(msg)
      PROVE  assigns' = assigns /\ streams' = streams
  BY <1>3 DEF Handler, AdvertArrives, OfferArrives, AssignArrives, Arrive, Discard,
              AdvertVerified, OfferVerified, book
<1>4. (\E m \in Missions : PublishBid(m)) \/ Tick \/ UNCHANGED vars
        => assigns' = assigns /\ streams' = streams
  BY DEF PublishBid, Tick, vars, book
<1>5. ASSUME NEW s \in Streams, Serve(s) PROVE ~Holds(assigns', streams'[t].mission)
  <2>1. assigns' = assigns
    BY <1>5 DEF Serve, StreamEnds, WaitTimesOut, Run, Refuse, Complete, StreamOpens,
                CallArrives, book
  <2>2. s # t => streams'[t] = streams[t]
    BY <1>5, <1>s DEF Serve, StreamEnds, WaitTimesOut, Run, Refuse, Complete, StreamOpens,
                      CallArrives, Move, Leave
  <2>3. ASSUME s = t, NEW m \in Missions, CallArrives(s, m)
        PROVE  ~Holds(assigns, streams'[t].mission)
    <3>1. CASE Holds(assigns, m)
      BY <2>3, <3>1, <1>s DEF CallArrives, ServeCall
    <3>2. CASE ~Holds(assigns, m)
      BY <2>3, <3>2, <1>s DEF CallArrives, ServeCall
    <3> QED
      BY <3>1, <3>2
  <2>4. ASSUME s = t, NEW n \in Navigators, StreamOpens(s, n) PROVE FALSE
    BY <2>4, <1>s DEF StreamOpens
  <2>5. ASSUME s = t, StreamEnds(s) \/ Refuse(s) \/ Complete(s) PROVE FALSE
    <3>1. streams' = [streams EXCEPT ![s] = Free]
      BY <2>5 DEF StreamEnds, Refuse, Complete, Leave
    <3> QED
      BY <2>5, <3>1, <1>s DEF Free
  <2>6. ASSUME s = t, WaitTimesOut(s) PROVE FALSE
    BY <2>6, <1>s DEF WaitTimesOut, Move, ServeCall
  <2>7. ASSUME s = t, Run(s) PROVE FALSE
    BY <2>7, <1>s DEF Run, Move, ServeCall
  <2> QED
    BY <1>2, <1>5, <2>1, <2>2, <2>3, <2>4, <2>5, <2>6, <2>7 DEF Serve
<1> QED
  BY <1>1, <1>2, <1>3, <1>4, <1>5 DEF Next

(* No call waits for an assignment that the book already has. *)
THEOREM NoWakeupIsLost == Spec => []NoLostWakeup
<1>1. Init => NoLostWakeup
  BY DEF Init, NoLostWakeup, Free
<1> QED
  BY <1>1, TypeCorrect, WakeupStep, PTL DEF Spec

\* A bid is signed or published only for a mission in `bidded`.
BidsBacked ==
    \A m \in Missions : bids[m] + signing[m] <= (IF m \in bidded THEN 1 ELSE 0)

LEMMA BidsStep == TypeOK /\ BidsBacked /\ [Next]_vars => BidsBacked'
<1> SUFFICES ASSUME TypeOK, BidsBacked, [Next]_vars PROVE BidsBacked'
  OBVIOUS
<1> USE DEF BidsBacked
<1>t. bids \in [Missions -> Nat] /\ signing \in [Missions -> Nat]
  BY DEF TypeOK
<1>1. ASSUME NEW msg \in Gossip, OfferVerified(msg) PROVE BidsBacked'
  <2>1. bids' = bids /\ msg.mission \in Missions
    BY <1>1 DEF OfferVerified, Offer
  <2>2. CASE UNCHANGED <<bidded, signing>>
    BY <2>1, <2>2
  <2>3. CASE /\ msg.mission \notin bidded
             /\ bidded' = bidded \union {msg.mission}
             /\ signing' = [signing EXCEPT ![msg.mission] = @ + 1]
    <3> SUFFICES ASSUME NEW m \in Missions
                 PROVE  bids'[m] + signing'[m] <= (IF m \in bidded' THEN 1 ELSE 0)
      OBVIOUS
    <3>1. CASE m = msg.mission
      <4>1. bids[m] + signing[m] <= 0 /\ signing'[m] = signing[m] + 1 /\ m \in bidded'
        BY <2>3, <3>1, <1>t
      <4> QED
        BY <4>1, <2>1, <1>t
    <3>2. CASE m # msg.mission
      BY <2>1, <2>3, <3>2, <1>t
    <3> QED
      BY <3>1, <3>2
  <2> QED
    BY <1>1, <2>2, <2>3 DEF OfferVerified, MayBid
<1>2. ASSUME NEW k \in Missions, PublishBid(k) PROVE BidsBacked'
  <2> SUFFICES ASSUME NEW m \in Missions
               PROVE  bids'[m] + signing'[m] <= (IF m \in bidded' THEN 1 ELSE 0)
    OBVIOUS
  <2>1. bidded' = bidded /\ signing' = [signing EXCEPT ![k] = @ - 1]
        /\ (bids' = [bids EXCEPT ![k] = @ + 1] \/ bids' = bids)
    BY <1>2 DEF PublishBid
  <2>2. bids'[m] + signing'[m] <= bids[m] + signing[m]
    <3>1. CASE m = k
      <4>1. signing'[m] = signing[m] - 1 /\ (bids'[m] = bids[m] + 1 \/ bids'[m] = bids[m])
        BY <2>1, <3>1, <1>t
      <4> QED
        BY <4>1, <1>t
    <3>2. CASE m # k
      BY <2>1, <3>2, <1>t
    <3> QED
      BY <3>1, <3>2
  <2>3. bids'[m] \in Int /\ signing'[m] \in Int
    BY <2>1, <1>t
  <2>4. bids[m] + signing[m] <= (IF m \in bidded THEN 1 ELSE 0)
    OBVIOUS
  <2> QED
    BY <2>1, <2>2, <2>3, <2>4, <1>t
<1>3. CASE UNCHANGED <<bidded, signing, bids>>
  BY <1>3
<1>4. ASSUME NEW msg \in Gossip, Handler(msg), ~OfferVerified(msg)
      PROVE  UNCHANGED <<bidded, signing, bids>>
  BY <1>4 DEF Handler, AdvertArrives, OfferArrives, AssignArrives, Arrive, Discard,
              AdvertVerified, AssignVerified, auction
<1>5. ASSUME NEW s \in Streams, Serve(s) PROVE UNCHANGED <<bidded, signing, bids>>
  BY <1>5 DEF Serve, StreamEnds, WaitTimesOut, Run, Refuse, Complete, StreamOpens,
              CallArrives, auction
<1>6. Tick \/ UNCHANGED vars => UNCHANGED <<bidded, signing, bids>>
  BY DEF Tick, vars, auction
<1> QED
  BY <1>1, <1>2, <1>3, <1>4, <1>5, <1>6 DEF Next

(* At most one bid for a mission, however often its offer is delivered and  *)
(* however the publication of the first one goes.                           *)
THEOREM OneBidForAMission == Spec => []BidsOnce
<1>1. Init => BidsBacked
  BY DEF Init, BidsBacked
<1>2. TypeOK /\ BidsBacked => BidsOnce
  <2> SUFFICES ASSUME TypeOK, BidsBacked, NEW m \in Missions
               PROVE  bids[m] + signing[m] <= 1
    BY DEF BidsOnce
  <2>1. bids[m] + signing[m] <= (IF m \in bidded THEN 1 ELSE 0)
    BY DEF BidsBacked
  <2>2. bids[m] \in Nat /\ signing[m] \in Nat
    BY DEF TypeOK
  <2> QED
    BY <2>1, <2>2
<1> QED
  BY <1>1, <1>2, TypeCorrect, BidsStep, PTL DEF Spec
=============================================================================
