---------------------------- MODULE DecodeBudget ----------------------------
(***************************************************************************)
(* Reading frames under the node-wide decoding budget                      *)
(* (rust/fhs/src/p2p/framing.rs).                                          *)
(*                                                                         *)
(* Every open stream runs the loop of `read_verified`: read a length       *)
(* prefix, reserve twice that length from one global semaphore, read the   *)
(* body, verify it, drop the permit.  A frame that finds the semaphore     *)
(* short registers in the global counter WAITERS and waits for at most     *)
(* BUDGET_WAIT.  The streams of `Cancellable` belong to client sessions:   *)
(* `client::chat` and `client::call_tool` wrap their reads in              *)
(* tokio::time::timeout, which drops the whole future at any await point.  *)
(***************************************************************************)
EXTENDS Integers, FiniteSets, Functions

CONSTANTS
    Streams,      \* streams being read by this process
    Cancellable,  \* those whose reading future an outer timeout may drop
    Lens,         \* lengths a peer may announce in the varint prefix (bytes)
    MaxFrame,     \* MAX_FRAME_BYTES
    Unit,         \* BUDGET_UNIT, bytes per semaphore unit
    Budget,       \* DECODE_BUDGET_BYTES / BUDGET_UNIT
    MaxWaiters,   \* MAX_BUDGET_WAITERS
    MaxInvalid,   \* MAX_INVALID_FRAMES
    MaxLeaks      \* bound on cancelled waits, for TLC only

ASSUME StreamsAssumption == IsFiniteSet(Streams) /\ Cancellable \subseteq Streams
ASSUME LimitsAssumption ==
    /\ MaxWaiters \in Nat \ {0}
    /\ MaxInvalid \in Nat \ {0}
    /\ MaxFrame \in Nat /\ Unit \in Nat \ {0} /\ Budget \in Nat /\ MaxLeaks \in Nat
    /\ 2 * MaxFrame <= Budget * Unit
ASSUME LensAssumption == Lens \subseteq Nat

VARIABLES
    pc,       \* where each stream's read_verified is
    len,      \* length announced by the frame being read
    invalid,  \* consecutive frames with a bad signature on this stream
    free,     \* units of BUDGET no reader owns
    ahead,    \* FIFO order of the semaphore: who queued before each waiter
    waiters,  \* WAITERS
    leaked    \* history: waits dropped between fetch_add and fetch_sub

vars == <<pc, len, invalid, free, ahead, waiters, leaked>>

Steps == {"prefix", "reserve", "count", "overflow", "acquire", "waiting",
          "granted", "expired", "body", "verify", "closed"}

Waiting == {s \in Streams : pc[s] = "waiting"}

\* Between WAITERS.fetch_add and WAITERS.fetch_sub.
Counted == {s \in Streams : pc[s] \in {"overflow", "acquire", "waiting", "granted", "expired"}}

\* Those of them that passed the MAX_BUDGET_WAITERS check.
Admitted == {s \in Streams : pc[s] \in {"acquire", "waiting", "granted", "expired"}}

\* Streams owning a FramePermit.
Holding == {s \in Streams : pc[s] \in {"granted", "body", "verify"}}

CeilDiv(a, b) == (a + b - 1) \div b
NeedWithoutCopy(l) == IF l = 0 THEN 1 ELSE CeilDiv(l, Unit)

\* Units of a frame: body plus decoded copy, rounded up, at least one.
Need(l) == IF l = 0 THEN 1 ELSE CeilDiv(2 * l, Unit)
NeedOf(S) == SumFunctionOnSet([s \in Streams |-> Need(len[s])], S)

Goto(s, from, to) == pc[s] = from /\ pc' = [pc EXCEPT ![s] = to]

\* read_verified returns for good: its locals go away with it.
Close(s, from) ==
    /\ Goto(s, from, "closed")
    /\ len' = [len EXCEPT ![s] = 0]
    /\ invalid' = [invalid EXCEPT ![s] = 0]

Init ==
    /\ pc = [s \in Streams |-> "prefix"]
    /\ len = [s \in Streams |-> 0]
    /\ invalid = [s \in Streams |-> 0]
    /\ free = Budget
    /\ ahead = [s \in Streams |-> {}]
    /\ waiters = 0
    /\ leaked = 0

\* read_varint: end of stream or a malformed length ends the reading.
PrefixEnds(s) ==
    /\ Close(s, "prefix")
    /\ UNCHANGED <<free, ahead, waiters, leaked>>

\* read_frame: the length is checked before anything is reserved.
TooLarge(s) ==
    /\ \E l \in Lens : l > MaxFrame
    /\ Close(s, "prefix")
    /\ UNCHANGED <<free, ahead, waiters, leaked>>

ReadPrefix(s) == \E l \in Lens :
    /\ l <= MaxFrame
    /\ Goto(s, "prefix", "reserve")
    /\ len' = [len EXCEPT ![s] = l]
    /\ UNCHANGED <<invalid, free, ahead, waiters, leaked>>

\* BUDGET.try_acquire_many: tokio hands freed units to the queue first, so it
\* succeeds only with what every queued reader leaves over.
CanTake(s) == NeedOf(Waiting) + Need(len[s]) <= free

TryAcquire(s) ==
    /\ CanTake(s)
    /\ Goto(s, "reserve", "body")
    /\ free' = free - Need(len[s])
    /\ UNCHANGED <<len, invalid, ahead, waiters, leaked>>

TryAcquireFails(s) ==
    /\ ~CanTake(s)
    /\ Goto(s, "reserve", "count")
    /\ UNCHANGED <<len, invalid, free, ahead, waiters, leaked>>

\* WAITERS.fetch_add(1) and the test of the value it returns.
Count(s) ==
    /\ Goto(s, "count", IF waiters >= MaxWaiters THEN "overflow" ELSE "acquire")
    /\ waiters' = waiters + 1
    /\ UNCHANGED <<len, invalid, free, ahead, leaked>>

RefuseUncounted(s) ==
    /\ Close(s, "overflow")
    /\ UNCHANGED <<free, ahead, waiters, leaked>>

\* WAITERS.fetch_sub(1), then Err(Overloaded).
Refuse(s) ==
    /\ Close(s, "overflow")
    /\ waiters' = waiters - 1
    /\ UNCHANGED <<free, ahead, leaked>>

\* First poll of BUDGET.acquire_many: joins the semaphore's queue.
Enqueue(s) ==
    /\ Goto(s, "acquire", "waiting")
    /\ ahead' = [ahead EXCEPT ![s] = Waiting]
    /\ UNCHANGED <<len, invalid, free, waiters, leaked>>

LeaveQueue(s) == ahead' = [r \in Streams |-> IF r = s THEN {} ELSE ahead[r] \ {s}]

\* The units freed so far cover this reader and all those queued before it.
Assigned(s) == NeedOf(ahead[s] \union {s}) <= free

Grant(s) ==
    /\ Assigned(s)
    /\ Goto(s, "waiting", "granted")
    /\ free' = free - Need(len[s])
    /\ LeaveQueue(s)
    /\ UNCHANGED <<len, invalid, waiters, leaked>>

NeverExpire(s) ==
    /\ FALSE
    /\ UNCHANGED vars

\* BUDGET_WAIT elapsed; `timeout` polls the acquisition before the timer.
Expire(s) ==
    /\ ~Assigned(s)
    /\ Goto(s, "waiting", "expired")
    /\ LeaveQueue(s)
    /\ UNCHANGED <<len, invalid, free, waiters, leaked>>

\* WAITERS.fetch_sub(1) after the wait, and the result of reserve.
SettleGranted(s) ==
    /\ Goto(s, "granted", "body")
    /\ waiters' = waiters - 1
    /\ UNCHANGED <<len, invalid, free, ahead, leaked>>

SettleExpired(s) ==
    /\ Close(s, "expired")
    /\ waiters' = waiters - 1
    /\ UNCHANGED <<free, ahead, leaked>>

Release(s) == free' = free + Need(len[s])

\* read_exact gets the whole body.  Nothing bounds how long it takes.
ReadBody(s) ==
    /\ Goto(s, "body", "verify")
    /\ UNCHANGED <<len, invalid, free, ahead, waiters, leaked>>

BodyFailsKeepingPermit(s) ==
    /\ Close(s, "body")
    /\ UNCHANGED <<free, ahead, waiters, leaked>>

\* The peer closes or resets the stream in the middle of the body.
BodyFails(s) ==
    /\ Close(s, "body")
    /\ Release(s)
    /\ UNCHANGED <<ahead, waiters, leaked>>

\* Valid signature: read_verified returns and drops the permit; the caller
\* reads the next frame with a fresh count of invalid ones.
Deliver(s) ==
    /\ Goto(s, "verify", "prefix")
    /\ len' = [len EXCEPT ![s] = 0]
    /\ invalid' = [invalid EXCEPT ![s] = 0]
    /\ Release(s)
    /\ UNCHANGED <<ahead, waiters, leaked>>

DiscardOneMore(s) ==
    /\ \/ /\ invalid[s] + 1 > MaxInvalid
          /\ Close(s, "verify")
       \/ /\ invalid[s] + 1 <= MaxInvalid
          /\ Goto(s, "verify", "prefix")
          /\ len' = [len EXCEPT ![s] = 0]
          /\ invalid' = [invalid EXCEPT ![s] = @ + 1]
    /\ Release(s)
    /\ UNCHANGED <<ahead, waiters, leaked>>

\* Missing or wrong signature: dropped, and the MaxInvalid-th in a row closes.
Discard(s) ==
    /\ \/ /\ invalid[s] + 1 >= MaxInvalid
          /\ Close(s, "verify")
       \/ /\ invalid[s] + 1 < MaxInvalid
          /\ Goto(s, "verify", "prefix")
          /\ len' = [len EXCEPT ![s] = 0]
          /\ invalid' = [invalid EXCEPT ![s] = @ + 1]
    /\ Release(s)
    /\ UNCHANGED <<ahead, waiters, leaked>>

\* The bytes are not an Envelope: the decode error ends the reading.
DecodeFails(s) ==
    /\ Close(s, "verify")
    /\ Release(s)
    /\ UNCHANGED <<ahead, waiters, leaked>>

\* The outer timeout drops the future at one of its await points.  The permit
\* and the place in the semaphore's queue are released by their destructors;
\* WAITERS has none.
Cancel(s) ==
    /\ s \in Cancellable
    /\ \/ /\ Close(s, "prefix")
          /\ UNCHANGED <<free, ahead, leaked>>
       \/ /\ Close(s, "waiting")
          /\ leaked < MaxLeaks
          /\ leaked' = leaked + 1
          /\ LeaveQueue(s)
          /\ UNCHANGED free
       \/ /\ Close(s, "body")
          /\ Release(s)
          /\ UNCHANGED <<ahead, leaked>>
    /\ UNCHANGED waiters

\* A new stream takes the place of a closed one.
Open(s) ==
    /\ Goto(s, "closed", "prefix")
    /\ UNCHANGED <<len, invalid, free, ahead, waiters, leaked>>

\* Steps the runtime and its timer take without help from the peer.
Progress(s) ==
    \/ TryAcquire(s) \/ TryAcquireFails(s)
    \/ Count(s) \/ Refuse(s) \/ Enqueue(s)
    \/ Grant(s) \/ Expire(s)
    \/ SettleGranted(s) \/ SettleExpired(s)
    \/ Deliver(s) \/ Discard(s) \/ DecodeFails(s)

\* Steps that wait for the peer or for the owner of the stream.
Environment(s) ==
    \/ PrefixEnds(s) \/ TooLarge(s) \/ ReadPrefix(s) \/ ReadBody(s) \/ BodyFails(s)
    \/ Cancel(s) \/ Open(s)

Next == \E s \in Streams : Progress(s) \/ Environment(s)

Fairness == \A s \in Streams : WF_vars(Progress(s))

Spec == Init /\ [][Next]_vars
FairSpec == Spec /\ Fairness

-----------------------------------------------------------------------------

TypeOK ==
    /\ pc \in [Streams -> Steps]
    /\ len \in [Streams -> Lens \union {0}]
    /\ invalid \in [Streams -> 0..(MaxInvalid - 1)]
    /\ free \in Int
    /\ ahead \in [Streams -> SUBSET Streams]
    /\ waiters \in Int
    /\ leaked \in 0..MaxLeaks

(* Every unit of the budget is either free or owned by a frame being read  *)
(* or decoded, on every path out of a frame: delivery, bad signature,      *)
(* decode error, peer reset, expiry and cancellation (FramePermit, RAII).  *)
PermitsConserved == free + NeedOf(Holding) = Budget

(* The bytes that frames really occupy, the body while it is read and the  *)
(* body and its decoded copy while it is verified, stay within             *)
(* DECODE_BUDGET_BYTES (framing.rs, "presupuesto global de decodificacion")*)
MemoryBounded ==
    LET bytes == [s \in Streams |-> IF pc[s] = "verify" THEN 2 * len[s] ELSE len[s]]
    IN SumFunctionOnSet(bytes, {s \in Streams : pc[s] \in {"body", "verify"}}) <= Budget * Unit

(* At most MAX_BUDGET_WAITERS frames wait for the budget, although the     *)
(* counter is incremented before it is tested and by several threads.      *)
WaitersBounded == Cardinality(Waiting) <= MaxWaiters

(* WAITERS counts the frames between their fetch_add and their fetch_sub   *)
(* plus every wait that was dropped in between: nothing else moves it.     *)
WaitersAccounted == waiters = Cardinality(Counted) + leaked

(* A frame is turned away at the door only when MAX_BUDGET_WAITERS others  *)
(* are in the waiting section at that moment (framing.rs:10-11: "como      *)
(* maximo MAX_BUDGET_WAITERS frames esperando el presupuesto").            *)
RefusedOnlyWhenFull ==
    [][\A s \in Streams :
         pc[s] = "count" /\ pc'[s] = "overflow" => Cardinality(Counted) >= MaxWaiters]_vars

(* A frame that asked for budget gets its body read or its stream closed:  *)
(* peers that hold the budget forever cannot hang the others (BUDGET_WAIT).*)
ReservationsEnd ==
    \A s \in Streams : pc[s] = "reserve" ~> pc[s] \in {"body", "closed"}
=============================================================================
