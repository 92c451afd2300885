------------------------- MODULE DecodeBudget_proofs -------------------------
(***************************************************************************)
(* Proofs about DecodeBudget, for any number of streams and any limits.    *)
(*                                                                         *)
(* The bound on the waiting frames is not inductive: what keeps it is that *)
(* the counter never falls below the number of frames between fetch_add    *)
(* and fetch_sub, so that a frame that reads less than MAX_BUDGET_WAITERS  *)
(* finds fewer than that many admitted before it.                          *)
(***************************************************************************)
EXTENDS DecodeBudget, Basics, FiniteSetTheorems, TLAPS

IInv ==
    /\ TypeOK
    /\ WaitersAccounted
    /\ Cardinality(Admitted) <= MaxWaiters

LEMMA NeedType == \A l \in Nat : Need(l) \in Nat
  BY LimitsAssumption DEF Need, CeilDiv

LEMMA SetsFinite ==
  /\ IsFiniteSet(Counted) /\ Cardinality(Counted) \in Nat
  /\ IsFiniteSet(Admitted) /\ Cardinality(Admitted) \in Nat
  /\ IsFiniteSet(Waiting) /\ Cardinality(Waiting) \in Nat
  /\ Cardinality(Waiting) <= Cardinality(Admitted)
  /\ Cardinality(Admitted) <= Cardinality(Counted)
<1>1. /\ Counted \subseteq Streams /\ Admitted \subseteq Counted
      /\ Waiting \subseteq Admitted
  BY DEF Counted, Admitted, Waiting
<1>2. IsFiniteSet(Counted)
  BY <1>1, StreamsAssumption, FS_Subset
<1>3. IsFiniteSet(Admitted) /\ Cardinality(Admitted) <= Cardinality(Counted)
  BY <1>1, <1>2, FS_Subset
<1>4. IsFiniteSet(Waiting) /\ Cardinality(Waiting) <= Cardinality(Admitted)
  BY <1>1, <1>3, FS_Subset
<1>5. QED
  BY <1>2, <1>3, <1>4, FS_CardinalityType

\* A stream outside the counted section that stays outside moves no counter.
LEMMA StaysOut ==
  ASSUME TypeOK, NEW s \in Streams, NEW x \in Steps,
         s \notin Counted, pc' = [pc EXCEPT ![s] = x],
         x \notin {"overflow", "acquire", "waiting", "granted", "expired"}
  PROVE  Counted' = Counted /\ Admitted' = Admitted
  BY DEF TypeOK, Counted, Admitted

\* Moving between two places of the admitted section changes neither set.
LEMMA StaysAdmitted ==
  ASSUME TypeOK, NEW s \in Streams, s \in Admitted,
         NEW x \in {"acquire", "waiting", "granted", "expired"},
         pc' = [pc EXCEPT ![s] = x]
  PROVE  Counted' = Counted /\ Admitted' = Admitted
  BY DEF TypeOK, Counted, Admitted

\* Leaving the counted section takes one stream out of both sets.
LEMMA GoesOut ==
  ASSUME TypeOK, NEW s \in Streams, s \in Counted,
         NEW x \in {"body", "closed"}, pc' = [pc EXCEPT ![s] = x]
  PROVE  /\ Cardinality(Counted') = Cardinality(Counted) - 1
         /\ Cardinality(Admitted') <= Cardinality(Admitted)
<1>1. Counted' = Counted \ {s} /\ Admitted' = Admitted \ {s}
  BY DEF TypeOK, Counted, Admitted
<1>2. Cardinality(Counted \ {s}) = Cardinality(Counted) - 1
  BY SetsFinite, FS_RemoveElement
<1>3. Cardinality(Admitted \ {s}) <= Cardinality(Admitted)
  BY SetsFinite, FS_Subset
<1>4. QED
  BY <1>1, <1>2, <1>3

\* fetch_add: one more counted, and one more admitted if the test lets it in.
LEMMA GoesIn ==
  ASSUME TypeOK, NEW s \in Streams, s \notin Counted,
         NEW x \in {"overflow", "acquire"}, pc' = [pc EXCEPT ![s] = x]
  PROVE  /\ Cardinality(Counted') = Cardinality(Counted) + 1
         /\ x = "overflow" => Admitted' = Admitted
         /\ x = "acquire" => Cardinality(Admitted') = Cardinality(Admitted) + 1
<1>1. Counted' = Counted \union {s}
  BY DEF TypeOK, Counted
<1>2. s \notin Admitted
  BY DEF Counted, Admitted
<1>3. x = "acquire" => Admitted' = Admitted \union {s}
  BY DEF TypeOK, Admitted
<1>4. x = "overflow" => Admitted' = Admitted
  BY <1>2 DEF TypeOK, Admitted
<1>5. QED
  BY <1>1, <1>2, <1>3, <1>4, SetsFinite, FS_AddElement

\* Steps that touch neither WAITERS nor the counted section.
Outside(s) ==
    \/ PrefixEnds(s) \/ TooLarge(s) \/ ReadPrefix(s) \/ ReadBody(s)
    \/ BodyFails(s) \/ Open(s) \/ TryAcquire(s) \/ TryAcquireFails(s)
    \/ Deliver(s) \/ Discard(s) \/ DecodeFails(s)

LEMMA TypeStep == TypeOK /\ [Next]_vars => TypeOK'
<1> SUFFICES ASSUME TypeOK, [Next]_vars PROVE TypeOK'
  OBVIOUS
<1> USE LimitsAssumption, LensAssumption DEF TypeOK, Steps, Goto
<1>n. \A s \in Streams : Need(len[s]) \in Nat
  BY NeedType
<1>0. CASE UNCHANGED vars
  BY <1>0 DEF vars
<1>1. ASSUME NEW s \in Streams, PrefixEnds(s) \/ TooLarge(s) \/ ReadPrefix(s) PROVE TypeOK'
  BY <1>1 DEF PrefixEnds, TooLarge, ReadPrefix, Close
<1>2. ASSUME NEW s \in Streams, ReadBody(s) \/ BodyFails(s) \/ Open(s) PROVE TypeOK'
  BY <1>2, <1>n DEF ReadBody, BodyFails, Open, Close, Release
<1>3. ASSUME NEW s \in Streams, TryAcquire(s) \/ TryAcquireFails(s) PROVE TypeOK'
  BY <1>3, <1>n DEF TryAcquire, TryAcquireFails
<1>4. ASSUME NEW s \in Streams, Deliver(s) \/ DecodeFails(s) PROVE TypeOK'
  BY <1>4, <1>n DEF Deliver, DecodeFails, Close, Release
<1>5. ASSUME NEW s \in Streams, Discard(s) PROVE TypeOK'
  BY <1>5, <1>n DEF Discard, Close, Release
<1>6. ASSUME NEW s \in Streams, Count(s) \/ Refuse(s) \/ Enqueue(s) PROVE TypeOK'
  BY <1>6 DEF Count, Refuse, Enqueue, Close, Waiting
<1>7. ASSUME NEW s \in Streams, Grant(s) \/ Expire(s) PROVE TypeOK'
  BY <1>7, <1>n DEF Grant, Expire, LeaveQueue
<1>8. ASSUME NEW s \in Streams, SettleGranted(s) \/ SettleExpired(s) PROVE TypeOK'
  BY <1>8 DEF SettleGranted, SettleExpired, Close
<1>9. ASSUME NEW s \in Streams, Cancel(s) PROVE TypeOK'
  BY <1>9, <1>n DEF Cancel, Close, Release, LeaveQueue
<1>10. QED
  BY <1>0, <1>1, <1>2, <1>3, <1>4, <1>5, <1>6, <1>7, <1>8, <1>9
  DEF Next, Progress, Environment

\* What a step does to the counter and to the sets it is compared with.
LEMMA CountingStep == IInv /\ [Next]_vars => WaitersAccounted' /\ Cardinality(Admitted)' <= MaxWaiters
<1> SUFFICES ASSUME IInv, [Next]_vars
             PROVE  WaitersAccounted' /\ Cardinality(Admitted') <= MaxWaiters
  OBVIOUS
<1> USE LimitsAssumption, SetsFinite DEF IInv, WaitersAccounted
<1>t. TypeOK /\ leaked \in Nat /\ waiters \in Int
  BY DEF TypeOK
<1>0. CASE UNCHANGED vars
  BY <1>0 DEF vars, Counted, Admitted
<1>1. ASSUME NEW s \in Streams, Outside(s)
      PROVE  WaitersAccounted' /\ Cardinality(Admitted') <= MaxWaiters
  <2>1. s \notin Counted /\ UNCHANGED <<waiters, leaked>>
    BY <1>1 DEF Outside, PrefixEnds, TooLarge, ReadPrefix, ReadBody, BodyFails, Open,
                TryAcquire, TryAcquireFails, Deliver, Discard, DecodeFails, Goto, Close, Counted
  <2>2. \E x \in {"prefix", "reserve", "count", "body", "verify", "closed"} :
           pc' = [pc EXCEPT ![s] = x]
    BY <1>1 DEF Outside, PrefixEnds, TooLarge, ReadPrefix, ReadBody, BodyFails, Open,
                TryAcquire, TryAcquireFails, Deliver, Discard, DecodeFails, Goto, Close
  <2>3. Counted' = Counted /\ Admitted' = Admitted
    BY <1>t, <2>1, <2>2, StaysOut DEF Steps
  <2>4. QED
    BY <2>1, <2>3
<1>2. ASSUME NEW s \in Streams, Count(s)
      PROVE  WaitersAccounted' /\ Cardinality(Admitted') <= MaxWaiters
  <2>1. s \notin Counted /\ waiters' = waiters + 1 /\ leaked' = leaked
    BY <1>2 DEF Count, Goto, Counted
  <2>2. CASE waiters >= MaxWaiters
    <3>1. pc' = [pc EXCEPT ![s] = "overflow"]
      BY <1>2, <2>2 DEF Count, Goto
    <3>2. Cardinality(Counted') = Cardinality(Counted) + 1 /\ Admitted' = Admitted
      BY <1>t, <2>1, <3>1, GoesIn
    <3>3. QED
      BY <1>t, <2>1, <3>2
  <2>3. CASE waiters < MaxWaiters
    <3>0. ~(waiters >= MaxWaiters)
      BY <1>t, <2>3
    <3>1. pc' = [pc EXCEPT ![s] = "acquire"]
      BY <1>2, <3>0 DEF Count, Goto
    <3>2. /\ Cardinality(Counted') = Cardinality(Counted) + 1
          /\ Cardinality(Admitted') = Cardinality(Admitted) + 1
      BY <1>t, <2>1, <3>1, GoesIn
    <3>3. Cardinality(Admitted) < MaxWaiters
      BY <1>t, <2>3
    <3>4. QED
      BY <1>t, <2>1, <3>2, <3>3
  <2>4. QED
    BY <1>t, <2>2, <2>3
<1>3. ASSUME NEW s \in Streams, Refuse(s) \/ SettleGranted(s) \/ SettleExpired(s)
      PROVE  WaitersAccounted' /\ Cardinality(Admitted') <= MaxWaiters
  <2>1. s \in Counted /\ waiters' = waiters - 1 /\ leaked' = leaked
    BY <1>3 DEF Refuse, SettleGranted, SettleExpired, Goto, Close, Counted
  <2>2. \E x \in {"body", "closed"} : pc' = [pc EXCEPT ![s] = x]
    BY <1>3 DEF Refuse, SettleGranted, SettleExpired, Goto, Close
  <2>3. /\ Cardinality(Counted') = Cardinality(Counted) - 1
        /\ Cardinality(Admitted') <= Cardinality(Admitted)
    BY <1>t, <2>1, <2>2, GoesOut
  <2>4. Cardinality(Admitted') \in Nat
    BY <1>t, <2>1, <2>2, FS_Subset, FS_CardinalityType, StreamsAssumption DEF Admitted
  <2>5. QED
    BY <1>t, <2>1, <2>3, <2>4
<1>4. ASSUME NEW s \in Streams, Enqueue(s) \/ Grant(s) \/ Expire(s)
      PROVE  WaitersAccounted' /\ Cardinality(Admitted') <= MaxWaiters
  <2>1. s \in Admitted /\ UNCHANGED <<waiters, leaked>>
    BY <1>4 DEF Enqueue, Grant, Expire, Goto, Admitted
  <2>2. \E x \in {"waiting", "granted", "expired"} : pc' = [pc EXCEPT ![s] = x]
    BY <1>4 DEF Enqueue, Grant, Expire, Goto
  <2>3. Counted' = Counted /\ Admitted' = Admitted
    BY <1>t, <2>1, <2>2, StaysAdmitted
  <2>4. QED
    BY <2>1, <2>3
<1>5. ASSUME NEW s \in Streams, Cancel(s)
      PROVE  WaitersAccounted' /\ Cardinality(Admitted') <= MaxWaiters
  <2>1. waiters' = waiters /\ pc' = [pc EXCEPT ![s] = "closed"]
    BY <1>5 DEF Cancel, Close, Goto
  <2>2. CASE pc[s] = "waiting"
    <3>1. s \in Counted /\ leaked' = leaked + 1
      BY <1>5, <2>2 DEF Cancel, Close, Goto, Counted
    <3>2. /\ Cardinality(Counted') = Cardinality(Counted) - 1
          /\ Cardinality(Admitted') <= Cardinality(Admitted)
      BY <1>t, <2>1, <3>1, GoesOut
    <3>3. Cardinality(Admitted') \in Nat
      BY FS_Subset, FS_CardinalityType, StreamsAssumption DEF Admitted
    <3>4. QED
      BY <1>t, <2>1, <3>1, <3>2, <3>3
  <2>3. CASE pc[s] # "waiting"
    <3>1. s \notin Counted /\ leaked' = leaked
      BY <1>5, <2>3 DEF Cancel, Close, Goto, Counted
    <3>2. Counted' = Counted /\ Admitted' = Admitted
      BY <1>t, <2>1, <3>1, StaysOut DEF Steps
    <3>3. QED
      BY <2>1, <3>1, <3>2
  <2>4. QED
    BY <2>2, <2>3
<1>6. QED
  BY <1>0, <1>1, <1>2, <1>3, <1>4, <1>5 DEF Next, Progress, Environment, Outside

LEMMA InitHolds == Init => IInv
<1> SUFFICES ASSUME Init PROVE IInv
  OBVIOUS
<1>1. TypeOK
  BY LimitsAssumption DEF Init, TypeOK, Steps
<1>2. Counted = {} /\ Admitted = {}
  BY DEF Init, Counted, Admitted
<1>3. QED
  BY <1>1, <1>2, FS_EmptySet, LimitsAssumption DEF Init, IInv, WaitersAccounted

(* The counter is exact up to the waits that were dropped, and the waiting *)
(* frames never exceed MAX_BUDGET_WAITERS, with or without cancellation.   *)
THEOREM CountingInvariant == Spec => []IInv
<1>1. IInv /\ [Next]_vars => IInv'
  BY TypeStep, CountingStep DEF IInv
<1>2. QED
  BY <1>1, InitHolds, PTL DEF Spec

THEOREM TypeCorrect == Spec => []TypeOK
  BY CountingInvariant, PTL DEF IInv

(* framing.rs reserve: however the fetch_adds of the threads interleave,   *)
(* no more than MAX_BUDGET_WAITERS frames are ever queued.                 *)
THEOREM WaitersStayBounded == Spec => []WaitersBounded
<1>1. IInv => WaitersBounded
  BY SetsFinite, LimitsAssumption DEF IInv, WaitersBounded
<1>2. QED
  BY <1>1, CountingInvariant, PTL

(* WAITERS is accounted for: its value is explained by the frames in the   *)
(* waiting section and the waits an outer timeout dropped.                 *)
THEOREM WaitersExplained == Spec => []WaitersAccounted
  BY CountingInvariant, PTL DEF IInv

-----------------------------------------------------------------------------

NoLeak == leaked = 0

(* Without readers that an outer timeout may drop, a frame is turned away  *)
(* only when MAX_BUDGET_WAITERS others occupy the waiting section: the     *)
(* cancellation is the only cause of the violation TLC finds.              *)
THEOREM UncancelledRefusals ==
  ASSUME Cancellable = {}
  PROVE  Spec => RefusedOnlyWhenFull
<1>1. Init => NoLeak
  BY DEF Init, NoLeak
<1>2. NoLeak /\ [Next]_vars => NoLeak'
  <2> SUFFICES ASSUME NoLeak, [Next]_vars PROVE NoLeak'
    OBVIOUS
  <2>1. CASE UNCHANGED vars
    BY <2>1 DEF vars, NoLeak
  <2>2. ASSUME NEW s \in Streams, Progress(s) PROVE NoLeak'
    BY <2>2 DEF NoLeak, Progress, TryAcquire, TryAcquireFails, Count, Refuse, Enqueue, Grant,
                Expire, SettleGranted, SettleExpired, Deliver, Discard, DecodeFails
  <2>3. ASSUME NEW s \in Streams, Environment(s) PROVE NoLeak'
    BY <2>3 DEF NoLeak, Environment, PrefixEnds, TooLarge, ReadPrefix, ReadBody, BodyFails,
                Cancel, Open
  <2>4. QED
    BY <2>1, <2>2, <2>3 DEF Next
<1>3. IInv /\ NoLeak /\ [Next]_vars
        => \A s \in Streams :
             pc[s] = "count" /\ pc'[s] = "overflow" => Cardinality(Counted) >= MaxWaiters
  <2> SUFFICES ASSUME IInv, NoLeak, [Next]_vars,
                      NEW s \in Streams, pc[s] = "count", pc'[s] = "overflow"
               PROVE  Cardinality(Counted) >= MaxWaiters
    OBVIOUS
  <2>1. waiters = Cardinality(Counted)
    BY SetsFinite DEF IInv, WaitersAccounted, NoLeak
  <2>2. PICK r \in Streams : Progress(r) \/ Environment(r)
    BY DEF Next, vars
  <2>3. \E x \in Steps : pc' = [pc EXCEPT ![r] = x]
    BY <2>2 DEF Steps, Progress, Environment, TryAcquire, TryAcquireFails, Count, Refuse,
                Enqueue, Grant, Expire, SettleGranted, SettleExpired, Deliver, Discard,
                DecodeFails, PrefixEnds, TooLarge, ReadPrefix, ReadBody, BodyFails, Cancel,
                Open, Goto, Close
  <2>4. r = s
    BY <2>3 DEF IInv, TypeOK
  <2>5. Count(s)
    BY <2>2, <2>4 DEF Progress, Environment, TryAcquire, TryAcquireFails, Refuse, Enqueue,
                Grant, Expire, SettleGranted, SettleExpired, Deliver, Discard, DecodeFails,
                PrefixEnds, TooLarge, ReadPrefix, ReadBody, BodyFails, Cancel, Open, Goto, Close
  <2>6. waiters >= MaxWaiters
    BY <2>5, LimitsAssumption DEF Count, Goto, IInv, TypeOK
  <2>7. QED
    BY <2>1, <2>6
<1>4. QED
  BY <1>1, <1>2, <1>3, CountingInvariant, PTL DEF Spec, RefusedOnlyWhenFull

-----------------------------------------------------------------------------
(* The units of the budget.  That none is lost needs one fact more to be   *)
(* kept by every step and to bound the memory: the semaphore is never      *)
(* overdrawn, because whoever takes units took no more than were free.     *)

BudgetInv ==
    /\ TypeOK
    /\ PermitsConserved
    /\ free >= 0

Held == {"granted", "body", "verify"}
Needs == [s \in Streams |-> Need(len[s])]

\* A step of s leaves every other stream where it was.
Elsewhere(s) == \A r \in Streams \ {s} : pc'[r] = pc[r] /\ len'[r] = len[r]

LEMMA LenType == TypeOK => \A s \in Streams : len[s] \in Nat
<1>1. \A l \in Lens \union {0} : l \in Nat
  BY LensAssumption
<1> QED BY <1>1 DEF TypeOK

LEMMA NeedsType == TypeOK => \A s \in Streams : Needs[s] \in Nat
  BY NeedType, LensAssumption DEF TypeOK, Needs

LEMMA HoldingFinite == IsFiniteSet(Holding) /\ IsFiniteSet(Holding') /\ IsFiniteSet(Waiting)
  BY StreamsAssumption, FS_Subset DEF Holding, Waiting

LEMMA NeedOfSum == \A S : NeedOf(S) = SumFunctionOnSet(Needs, S)
  BY DEF NeedOf, Needs

LEMMA NeedOfNextSum == NeedOf(Holding)' = SumFunctionOnSet(Needs', Holding')
  BY DEF NeedOf, Needs

LEMMA NeedOfType ==
  TypeOK => \A S \in SUBSET Streams : NeedOf(S) \in Nat /\ \A s \in S : Needs[s] <= NeedOf(S)
<1> SUFFICES ASSUME TypeOK, NEW S \in SUBSET Streams
             PROVE  NeedOf(S) \in Nat /\ \A s \in S : Needs[s] <= NeedOf(S)
  OBVIOUS
<1>1. IsFiniteSet(S) /\ \A s \in S : Needs[s] \in Nat
  BY StreamsAssumption, FS_Subset, NeedsType
<1>2. NeedOf(S) \in Nat
  BY <1>1, SumType, NeedOfSum
<1>3. ASSUME NEW s \in S PROVE Needs[s] <= NeedOf(S)
  <2>1. IsFiniteSet(S \ {s}) /\ \A r \in S \ {s} : Needs[r] \in Nat
    BY <1>1, FS_Subset
  <2>2. SumFunctionOnSet(Needs, S \ {s}) \in Int /\ SumFunctionOnSet(Needs, S \ {s}) >= 0
    BY <2>1, SumType
  <2>3. SumFunctionOnSet(Needs, S) = Needs[s] + SumFunctionOnSet(Needs, S \ {s})
    BY <1>1, SumElement
  <2> QED BY <1>1, <2>2, <2>3, NeedOfSum
<1> QED BY <1>2, <1>3

\* What a step of one stream does to the units in the hands of all: they stay,
\* it takes its own, or it gives them back.
LEMMA UnitsStay ==
  ASSUME TypeOK, TypeOK', NEW s \in Streams, Elsewhere(s),
         \/ pc[s] \notin Held /\ pc'[s] \notin Held
         \/ pc[s] \in Held /\ pc'[s] \in Held /\ len'[s] = len[s]
  PROVE  NeedOf(Holding)' = NeedOf(Holding)
<1>1. Holding' = Holding
  BY DEF Holding, Held, Elsewhere
<1>2. \A r \in Holding : Needs'[r] = Needs[r] /\ Needs[r] \in Int
  BY NeedsType DEF Holding, Held, Elsewhere, Needs
<1>3. SumFunctionOnSet(Needs', Holding) = SumFunctionOnSet(Needs, Holding)
  BY <1>2, HoldingFinite, SumSame
<1> QED BY <1>1, <1>3, NeedOfSum, NeedOfNextSum

LEMMA UnitsTaken ==
  ASSUME TypeOK, TypeOK', NEW s \in Streams, Elsewhere(s),
         pc[s] \notin Held, pc'[s] \in Held, len'[s] = len[s]
  PROVE  NeedOf(Holding)' = NeedOf(Holding) + Need(len[s])
<1>1. Holding' = Holding \union {s} /\ s \notin Holding
  BY DEF Holding, Held, Elsewhere
<1>2. Needs' = Needs
  BY DEF Elsewhere, Needs
<1>3. \A r \in Holding \union {s} : Needs[r] \in Int
  BY NeedsType DEF Holding
<1>4. SumFunctionOnSet(Needs, Holding \union {s}) = SumFunctionOnSet(Needs, Holding) + Needs[s]
  BY <1>1, <1>3, HoldingFinite, SumAdd
<1> QED BY <1>1, <1>2, <1>4, NeedOfSum, NeedOfNextSum DEF Needs

LEMMA UnitsReturned ==
  ASSUME TypeOK, TypeOK', NEW s \in Streams, Elsewhere(s),
         pc[s] \in Held, pc'[s] \notin Held
  PROVE  NeedOf(Holding)' = NeedOf(Holding) - Need(len[s])
<1>1. Holding' = Holding \ {s} /\ s \in Holding
  BY DEF Holding, Held, Elsewhere
<1>2. \A r \in Holding \ {s} : Needs'[r] = Needs[r] /\ Needs[r] \in Int
  BY NeedsType DEF Holding, Elsewhere, Needs
<1>3. SumFunctionOnSet(Needs', Holding \ {s}) = SumFunctionOnSet(Needs, Holding \ {s})
  <2>1. IsFiniteSet(Holding \ {s})
    BY HoldingFinite, FS_Subset
  <2> QED BY <1>2, <2>1, SumSame
<1>4. \A r \in Holding : Needs[r] \in Int
  BY NeedsType DEF Holding
<1>5. SumFunctionOnSet(Needs, Holding) = Needs[s] + SumFunctionOnSet(Needs, Holding \ {s})
  BY <1>1, <1>4, HoldingFinite, SumElement
<1>6. Needs[s] = Need(len[s]) /\ Needs[s] \in Int
  BY NeedsType DEF Needs
<1>7. SumFunctionOnSet(Needs, Holding \ {s}) \in Int
  <2>1. IsFiniteSet(Holding \ {s}) /\ \A r \in Holding \ {s} : Needs[r] \in Int
    BY HoldingFinite, FS_Subset, <1>4
  <2> QED BY <2>1, SumType
<1> QED BY <1>1, <1>3, <1>5, <1>6, <1>7, NeedOfSum, NeedOfNextSum

LEMMA BudgetStep == BudgetInv /\ [Next]_vars => BudgetInv'
<1> SUFFICES ASSUME BudgetInv, [Next]_vars PROVE PermitsConserved' /\ free' >= 0
  BY TypeStep DEF BudgetInv
<1>t. TypeOK /\ TypeOK' /\ free \in Int /\ Budget \in Nat
  BY TypeStep, LimitsAssumption DEF BudgetInv, TypeOK
<1>n. \A s \in Streams : Need(len[s]) \in Nat /\ Needs[s] = Need(len[s])
  BY <1>t, NeedsType DEF Needs
<1>h. NeedOf(Holding) \in Nat /\ NeedOf(Waiting) \in Nat
  BY <1>t, NeedOfType DEF Holding, Waiting
<1>e. ASSUME NEW s \in Streams, Progress(s) \/ Environment(s) PROVE Elsewhere(s)
  BY <1>t, <1>e DEF TypeOK, Elsewhere, Progress, Environment, PrefixEnds, TooLarge, ReadPrefix,
     ReadBody, BodyFails, Open, TryAcquire, TryAcquireFails, Count, Refuse, Enqueue, Grant,
     Expire, SettleGranted, SettleExpired, Deliver, Discard, DecodeFails, Cancel, Goto, Close
<1> USE DEF BudgetInv, PermitsConserved
<1>0. CASE UNCHANGED vars
  BY <1>0, <1>t DEF vars, NeedOf, Holding, Need
<1>1. ASSUME NEW s \in Streams,
             \/ PrefixEnds(s) \/ TooLarge(s) \/ ReadPrefix(s) \/ Open(s) \/ TryAcquireFails(s)
             \/ Count(s) \/ Refuse(s) \/ Enqueue(s) \/ Expire(s) \/ SettleExpired(s)
      PROVE  PermitsConserved' /\ free' >= 0
  <2>1. pc[s] \notin Held /\ pc'[s] \notin Held /\ free' = free
    BY <1>1, <1>t DEF TypeOK, Held, PrefixEnds, TooLarge, ReadPrefix, Open, TryAcquireFails,
       Count, Refuse, Enqueue, Expire, SettleExpired, Goto, Close
  <2>2. NeedOf(Holding)' = NeedOf(Holding)
    BY <1>1, <1>e, <1>t, <2>1, UnitsStay DEF Progress, Environment
  <2> QED BY <2>1, <2>2
<1>2. ASSUME NEW s \in Streams, SettleGranted(s) \/ ReadBody(s)
      PROVE  PermitsConserved' /\ free' >= 0
  <2>1. pc[s] \in Held /\ pc'[s] \in Held /\ len'[s] = len[s] /\ free' = free
    BY <1>2, <1>t DEF TypeOK, Held, SettleGranted, ReadBody, Goto
  <2>2. NeedOf(Holding)' = NeedOf(Holding)
    BY <1>2, <1>e, <1>t, <2>1, UnitsStay DEF Progress, Environment
  <2> QED BY <2>1, <2>2
<1>3. ASSUME NEW s \in Streams, TryAcquire(s) \/ Grant(s)
      PROVE  PermitsConserved' /\ free' >= 0
  <2>1. /\ pc[s] \notin Held /\ pc'[s] \in Held /\ len'[s] = len[s]
        /\ free' = free - Need(len[s])
    BY <1>3, <1>t DEF TypeOK, Held, TryAcquire, Grant, Goto
  <2>2. NeedOf(Holding)' = NeedOf(Holding) + Need(len[s])
    BY <1>3, <1>e, <1>t, <2>1, UnitsTaken DEF Progress
  <2>3. Need(len[s]) <= free
    <3>1. CASE TryAcquire(s)
      BY <3>1, <1>n, <1>h, <1>t DEF TryAcquire, CanTake
    <3>2. CASE Grant(s)
      <4> DEFINE S == ahead[s] \union {s}
      <4>1. S \in SUBSET Streams /\ s \in S
        BY <1>t DEF TypeOK
      <4>2. NeedOf(S) \in Nat /\ Needs[s] <= NeedOf(S)
        <5> HIDE DEF S
        <5> QED BY <4>1, <1>t, NeedOfType
      <4>3. NeedOf(S) <= free
        BY <3>2 DEF Grant, Assigned
      <4> HIDE DEF S
      <4> QED BY <4>2, <4>3, <1>n, <1>t
    <3> QED BY <1>3, <3>1, <3>2
  <2> QED BY <1>n, <1>h, <1>t, <2>1, <2>2, <2>3
<1>4. ASSUME NEW s \in Streams,
             \/ BodyFails(s) \/ Deliver(s) \/ Discard(s) \/ DecodeFails(s)
             \/ Cancel(s) /\ pc[s] = "body"
      PROVE  PermitsConserved' /\ free' >= 0
  <2>1. pc[s] \in Held /\ pc'[s] \notin Held /\ free' = free + Need(len[s])
    BY <1>4, <1>t DEF TypeOK, Held, BodyFails, Deliver, Discard, DecodeFails, Cancel, Goto,
       Close, Release
  <2>2. NeedOf(Holding)' = NeedOf(Holding) - Need(len[s])
    BY <1>4, <1>e, <1>t, <2>1, UnitsReturned DEF Progress, Environment
  <2> QED BY <1>n, <1>h, <1>t, <2>1, <2>2
<1>5. ASSUME NEW s \in Streams, Cancel(s), pc[s] # "body"
      PROVE  PermitsConserved' /\ free' >= 0
  <2>1. pc[s] \notin Held /\ pc'[s] \notin Held /\ free' = free
    BY <1>5, <1>t DEF TypeOK, Held, Cancel, Goto, Close
  <2>2. NeedOf(Holding)' = NeedOf(Holding)
    BY <1>5, <1>e, <1>t, <2>1, UnitsStay DEF Environment
  <2> QED BY <2>1, <2>2
<1> QED BY <1>0, <1>1, <1>2, <1>3, <1>4, <1>5 DEF Next, Progress, Environment

LEMMA BudgetInit == Init => BudgetInv
<1> SUFFICES ASSUME Init PROVE BudgetInv
  OBVIOUS
<1>1. TypeOK
  BY InitHolds DEF IInv
<1>2. Holding = {}
  BY DEF Init, Holding
<1>3. NeedOf(Holding) = 0
  BY <1>2, SumEmpty, NeedOfSum
<1> QED BY <1>1, <1>3, LimitsAssumption DEF Init, BudgetInv, PermitsConserved

\* The units of a frame cover it twice, whatever the unit.
LEMMA NeedCovers == \A l \in Nat : 2 * l <= Unit * Need(l)
<1> SUFFICES ASSUME NEW l \in Nat, l # 0 PROVE 2 * l <= Unit * Need(l)
  BY LimitsAssumption DEF Need
<1> DEFINE a == 2 * l + Unit - 1
<1>1. a \in Nat /\ Unit \in Nat \ {0}
  BY LimitsAssumption
<1>2. Need(l) = a \div Unit
  BY DEF Need, CeilDiv
<1> HIDE DEF a
<1>3. a = Unit * (a \div Unit) + (a % Unit) /\ a % Unit \in 0..(Unit - 1) /\ a \div Unit \in Nat
  BY <1>1
<1>4. Unit * (a \div Unit) \in Int
  BY <1>1, <1>3
<1> QED BY <1>1, <1>2, <1>3, <1>4 DEF a

(* framing.rs: however frames end, by delivery, a bad signature, a decode  *)
(* error, a reset, an expiry or a cancellation, every unit of the budget   *)
(* is free or in the hands of one frame.                                   *)
THEOREM PermitsAreConserved == Spec => []PermitsConserved
  BY BudgetInit, BudgetStep, PTL DEF Spec, BudgetInv

(* framing.rs: the bodies read and their decoded copies stay within        *)
(* DECODE_BUDGET_BYTES, for any frame lengths, unit and number of streams. *)
THEOREM MemoryStaysBounded == Spec => []MemoryBounded
<1>1. BudgetInv => MemoryBounded
  <2> SUFFICES ASSUME BudgetInv PROVE MemoryBounded
    OBVIOUS
  <2> DEFINE bytes == [s \in Streams |-> IF pc[s] = "verify" THEN 2 * len[s] ELSE len[s]]
             R == {s \in Streams : pc[s] \in {"body", "verify"}}
  <2>0. TypeOK /\ free \in Int /\ Unit \in Nat \ {0} /\ Budget \in Nat
    BY LimitsAssumption DEF BudgetInv, TypeOK
  <2>1. R \subseteq Holding /\ IsFiniteSet(R)
    BY HoldingFinite, FS_Subset DEF Holding
  <2>2. \A s \in R : bytes[s] \in Int /\ Needs[s] \in Nat /\ bytes[s] <= Unit * Needs[s]
    <3> SUFFICES ASSUME NEW s \in R
                 PROVE  bytes[s] \in Int /\ Needs[s] \in Nat /\ bytes[s] <= Unit * Needs[s]
      OBVIOUS
    <3>0. s \in Streams /\ len[s] \in Nat
      <4>1. s \in Streams
        OBVIOUS
      <4> HIDE DEF R, bytes
      <4> QED BY <2>0, <4>1, LenType
    <3>1. Needs[s] = Need(len[s]) /\ Needs[s] \in Nat
      BY <3>0, NeedType DEF Needs
    <3>2. 2 * len[s] <= Unit * Needs[s] /\ Unit * Needs[s] \in Int
      BY <3>0, <3>1, <2>0, NeedCovers
    <3>3. bytes[s] \in {len[s], 2 * len[s]}
      OBVIOUS
    <3> QED BY <3>0, <3>1, <3>2, <3>3
  <2>3. SumFunctionOnSet(bytes, R) <= Unit * SumFunctionOnSet(Needs, R)
    <3> HIDE DEF bytes, R
    <3> QED BY <2>0, <2>1, <2>2, SumAtMost
  <2>4. SumFunctionOnSet(bytes, R) \in Int /\ SumFunctionOnSet(Needs, R) \in Int
    <3> HIDE DEF bytes, R
    <3> QED BY <2>1, <2>2, SumType
  <2>5. SumFunctionOnSet(Needs, R) <= NeedOf(Holding)
    <3>1. \A s \in Holding : Needs[s] \in Nat
      BY <2>0, NeedsType DEF Holding
    <3> HIDE DEF R
    <3> QED BY <2>1, <3>1, HoldingFinite, SumOfPart, NeedOfSum
  <2>6. NeedOf(Holding) <= Budget /\ NeedOf(Holding) \in Nat
    <3>1. NeedOf(Holding) \in Nat
      BY <2>0, NeedOfType DEF Holding
    <3> QED BY <2>0, <3>1 DEF BudgetInv, PermitsConserved
  <2> DEFINE total == SumFunctionOnSet(Needs, R)
             used == SumFunctionOnSet(bytes, R)
  <2>7. used <= Budget * Unit
    <3>1. used \in Int /\ total \in Int /\ total <= Budget /\ used <= Unit * total
      BY <2>3, <2>4, <2>5, <2>6, <2>0
    <3> HIDE DEF used, total
    <3>2. Unit * total <= Unit * Budget
      BY <2>0, <3>1
    <3>3. Unit * total \in Int /\ Unit * Budget = Budget * Unit /\ Unit * Budget \in Int
      BY <2>0, <3>1
    <3> QED BY <3>1, <3>2, <3>3
  <2> QED BY <2>7 DEF MemoryBounded
<1>2. QED
  BY <1>1, BudgetInit, BudgetStep, PTL DEF Spec
=============================================================================
