--------------------------- MODULE ProviderStreams ---------------------------
(***************************************************************************)
(* Mission streams `/fhs/v1/0.1.0` between Navigators and one provider:    *)
(* admission (rust/fhs/src/p2p/limits.rs), the provider's accept loop and  *)
(* `run_stream` (provider.rs), and the Navigator's `open_session` and      *)
(* `chat` (client.rs).                                                     *)
(*                                                                         *)
(* Each stream is a pair of FIFO byte channels.  Any write may fail and a  *)
(* Navigator may leave at any await point: its outer timeout drops the     *)
(* stream.  Streams of `Foreign` belong to Navigators that are not built   *)
(* on client.rs and send any message kind in any order.                    *)
(***************************************************************************)
EXTENDS Integers, FiniteSets, Sequences

CONSTANTS
    Streams,     \* stream slots
    Peers,       \* Navigators, by PeerId
    PeerMaps,    \* which Navigator may open which stream
    Foreign,     \* streams of Navigators not built on client.rs
    MaxStreams,  \* MAX_INBOUND_STREAMS
    MaxPerPeer,  \* MAX_INBOUND_STREAMS_PER_PEER
    MaxDeltas    \* longest answer on each stream, in deltas

ASSUME StreamsAssumption ==
    /\ IsFiniteSet(Streams)
    /\ PeerMaps \subseteq [Streams -> Peers]
    /\ Foreign \subseteq Streams
ASSUME LimitsAssumption ==
    MaxStreams \in Nat \ {0} /\ MaxPerPeer \in Nat \ {0} /\ MaxDeltas \in [Streams -> Nat]

VARIABLES
    peerOf,    \* the Navigator at the other end of each stream
    total,     \* State::total of the StreamLimiter
    perPeer,   \* State::per_peer, a map from PeerId to a positive count
    srv,       \* the provider's task for each stream
    cl,        \* the Navigator's end of each stream
    up,        \* Navigator to provider
    down,      \* provider to Navigator
    broken,    \* Reply::broken
    produced,  \* deltas the provider's handler produced for the request
    content    \* deltas the Navigator accumulated

\* peerOf never changes: a slot is used again by the same Navigator.
limiter == <<peerOf, total, perPeer>>
vars == <<limiter, srv, cl, up, down, broken, produced, content>>

ServerSteps == {"none", "incoming", "handshake", "serving", "handling", "exiting"}
ClientSteps == {"out", "acking", "waiting", "done", "foreign"}

\* Streams holding a StreamPermit: admitted and not yet dropped.
Live == {s \in Streams : srv[s] \in {"handshake", "serving", "handling", "exiting"}}
LiveOf(p) == {s \in Live : peerOf[s] = p}

\* The Navigator no longer has its end of the stream.
ClientGone(s) == cl[s] \in {"out", "done"}

Delta(n) == [kind |-> "delta", n |-> n]
Completed(n) == [kind |-> "completed", n |-> n]
Plain(k) == [kind |-> k, n |-> 0]

Init ==
    /\ peerOf \in PeerMaps
    /\ total = 0
    /\ perPeer = <<>>
    /\ srv = [s \in Streams |-> "none"]
    /\ cl = [s \in Streams |-> "out"]
    /\ up = [s \in Streams |-> <<>>]
    /\ down = [s \in Streams |-> <<>>]
    /\ broken = [s \in Streams |-> FALSE]
    /\ produced = [s \in Streams |-> 0]
    /\ content = [s \in Streams |-> <<>>]

Serve(s, from, to) == srv[s] = from /\ srv' = [srv EXCEPT ![s] = to]

\* run_stream returns: its end of the stream and its Reply are dropped.
Exit(s, from) ==
    /\ Serve(s, from, "exiting")
    /\ up' = [up EXCEPT ![s] = <<>>]
    /\ broken' = [broken EXCEPT ![s] = FALSE]

-----------------------------------------------------------------------------
\* Admission: one critical section each, under the limiter's mutex.

OpenOf(p) == IF p \in DOMAIN perPeer THEN perPeer[p] ELSE 0
SetOpen(p, n) ==
    perPeer' = [q \in DOMAIN perPeer \union {p} |-> IF q = p THEN n ELSE perPeer[q]]
Forget(p) == perPeer' = [q \in DOMAIN perPeer \ {p} |-> perPeer[q]]

AdmitOneMore(s) ==
    /\ total <= MaxStreams
    /\ OpenOf(peerOf[s]) <= MaxPerPeer
    /\ Serve(s, "incoming", "handshake")
    /\ total' = total + 1
    /\ SetOpen(peerOf[s], OpenOf(peerOf[s]) + 1)
    /\ UNCHANGED <<peerOf, cl, up, down, broken, produced, content>>

\* try_admit succeeds; serve spawns run_stream with the permit.
Admit(s) ==
    /\ total < MaxStreams
    /\ OpenOf(peerOf[s]) < MaxPerPeer
    /\ Serve(s, "incoming", "handshake")
    /\ total' = total + 1
    /\ SetOpen(peerOf[s], OpenOf(peerOf[s]) + 1)
    /\ UNCHANGED <<peerOf, cl, up, down, broken, produced, content>>

RejectHalfCounted(s) ==
    /\ total >= MaxStreams \/ OpenOf(peerOf[s]) >= MaxPerPeer
    /\ Serve(s, "incoming", "none")
    /\ total' = total + 1
    /\ up' = [up EXCEPT ![s] = <<>>]
    /\ UNCHANGED <<peerOf, perPeer, cl, down, broken, produced, content>>

\* NodeFull or PeerFull: the stream is dropped before anything is read.
Reject(s) ==
    /\ total >= MaxStreams \/ OpenOf(peerOf[s]) >= MaxPerPeer
    /\ Serve(s, "incoming", "none")
    /\ up' = [up EXCEPT ![s] = <<>>]
    /\ UNCHANGED <<limiter, cl, down, broken, produced, content>>

DropKeepingEntry(s) ==
    /\ Serve(s, "exiting", "none")
    /\ total' = total - 1
    /\ SetOpen(peerOf[s], OpenOf(peerOf[s]) - 1)
    /\ UNCHANGED <<peerOf, cl, up, down, broken, produced, content>>

\* The task ends: Drop for StreamPermit.
DropPermit(s) ==
    /\ Serve(s, "exiting", "none")
    /\ total' = total - 1
    /\ \/ /\ OpenOf(peerOf[s]) > 1
          /\ SetOpen(peerOf[s], OpenOf(peerOf[s]) - 1)
       \/ /\ OpenOf(peerOf[s]) = 1
          /\ Forget(peerOf[s])
    /\ UNCHANGED <<peerOf, cl, up, down, broken, produced, content>>

-----------------------------------------------------------------------------
\* The provider's end: run_stream and Reply.

Reads(s) == cl[s] \in {"acking", "waiting"}
Deliver(s, m) == down' = [down EXCEPT ![s] = IF Reads(s) THEN Append(@, m) ELSE @]

SendAlways(s, m) ==
    \/ /\ Deliver(s, m)
       /\ UNCHANGED broken
    \/ /\ broken' = [broken EXCEPT ![s] = TRUE]
       /\ UNCHANGED down

\* Reply::send: nothing after a failed write; otherwise the write succeeds
\* (a Navigator that left reads none of it) or fails.
Send(s, m) ==
    \/ /\ broken[s]
       /\ UNCHANGED <<down, broken>>
    \/ /\ ~broken[s]
       /\ SendAlways(s, m)

\* A last message before run_stream returns: it arrives or it does not.
SendLast(s, m) == Deliver(s, m) \/ UNCHANGED down

Arrives(s, kinds) == up[s] # <<>> /\ Head(up[s]) \in kinds
Receive(s, kinds) == Arrives(s, kinds) /\ up' = [up EXCEPT ![s] = Tail(@)]

Requests == {"work", "ping", "cancel"}

ReadEndsWhileServing(s) ==
    /\ ClientGone(s)
    /\ Exit(s, "serving")
    /\ UNCHANGED <<limiter, cl, down, produced, content>>

\* read_verified returns None or an error: the Navigator closed or reset.
ReadEnds(s) ==
    /\ ClientGone(s)
    /\ srv[s] \in {"handshake", "serving"}
    /\ Exit(s, srv[s])
    /\ UNCHANGED <<limiter, cl, down, produced, content>>

\* read_verified fails for another reason: frames that are too large, badly
\* signed or not an Envelope, or no decoding budget for them.
ReadFails(s) ==
    /\ srv[s] \in {"handshake", "serving"}
    /\ Exit(s, srv[s])
    /\ UNCHANGED <<limiter, cl, down, produced, content>>

ReadHandshake(s) ==
    /\ Receive(s, {"handshake"})
    /\ Serve(s, "handshake", "serving")
    /\ Send(s, Plain("ack"))
    /\ UNCHANGED <<limiter, cl, produced, content>>

\* Anything else as the first message: an error and the stream ends.
RefuseFirst(s) ==
    /\ Arrives(s, Requests \union {"other"})
    /\ Exit(s, "handshake")
    /\ SendLast(s, Plain("error"))
    /\ UNCHANGED <<limiter, cl, produced, content>>

\* `while reply.is_open()`: after a failed write the task ends.
StopIfBroken(s) ==
    /\ broken[s]
    /\ Exit(s, "serving")
    /\ UNCHANGED <<limiter, cl, down, produced, content>>

\* chat_request or tool_call: Provider::handle starts.
ReadWork(s) ==
    /\ ~broken[s]
    /\ Receive(s, {"work"})
    /\ Serve(s, "serving", "handling")
    /\ produced' = [produced EXCEPT ![s] = 0]
    /\ UNCHANGED <<limiter, cl, down, broken, content>>

\* tool_list and ping are answered and the loop goes on.
ReadControl(s) ==
    /\ ~broken[s]
    /\ srv[s] = "serving"
    /\ Receive(s, {"ping"})
    /\ Send(s, Plain("pong"))
    /\ UNCHANGED <<limiter, srv, cl, produced, content>>

\* chat_cancel and tool_cancel end the stream.
ReadCancel(s) ==
    /\ ~broken[s]
    /\ Arrives(s, {"cancel"})
    /\ Exit(s, "serving")
    /\ UNCHANGED <<limiter, cl, down, produced, content>>

\* Any other payload: an error and the stream ends.
ReadUnexpected(s) ==
    /\ ~broken[s]
    /\ Arrives(s, {"handshake", "other"})
    /\ Exit(s, "serving")
    /\ SendLast(s, Plain("error"))
    /\ UNCHANGED <<limiter, cl, produced, content>>

\* The handler streams one more delta.
HandlerDelta(s) ==
    /\ srv[s] = "handling"
    /\ produced[s] < MaxDeltas[s]
    /\ produced' = [produced EXCEPT ![s] = @ + 1]
    /\ Send(s, Delta(produced[s] + 1))
    /\ UNCHANGED <<limiter, srv, cl, up, content>>

\* It ends with chat_completed, which repeats the whole answer, or chat_error.
HandlerEnds(s) ==
    /\ Serve(s, "handling", "serving")
    /\ \E m \in {Completed(produced[s]), Plain("error")} : Send(s, m)
    /\ UNCHANGED <<limiter, cl, up, produced, content>>

-----------------------------------------------------------------------------
\* The Navigator's end: open_session and chat.

Leave(s, from, to) == cl[s] = from /\ cl' = [cl EXCEPT ![s] = to]

\* open_stream and the handshake, which the outer timeout may forestall; the
\* provider's accept loop will see the stream.
OpenSession(s) ==
    /\ ClientGone(s)
    /\ Serve(s, "none", "incoming")
    /\ \/ /\ s \in Foreign
          /\ cl' = [cl EXCEPT ![s] = "foreign"]
          /\ UNCHANGED up
       \/ /\ s \notin Foreign
          /\ cl' = [cl EXCEPT ![s] = "acking"]
          /\ up' = [up EXCEPT ![s] = <<"handshake">>]
       \/ /\ s \notin Foreign
          /\ cl' = [cl EXCEPT ![s] = "out"]
          /\ UNCHANGED up
    /\ produced' = [produced EXCEPT ![s] = 0]
    /\ content' = [content EXCEPT ![s] = <<>>]
    /\ UNCHANGED <<limiter, down, broken>>

Take(s) == down[s] # <<>> /\ down' = [down EXCEPT ![s] = Tail(@)]

\* handshake_ack, then the chat_request.
TakeAck(s) ==
    /\ Take(s) /\ Head(down[s]).kind = "ack"
    /\ Leave(s, "acking", "waiting")
    /\ up' = [up EXCEPT ![s] = IF srv[s] = "serving" THEN Append(@, "work") ELSE @]
    /\ UNCHANGED <<limiter, srv, broken, produced, content>>

TakeDelta(s) ==
    /\ cl[s] = "waiting"
    /\ Take(s) /\ Head(down[s]).kind = "delta"
    /\ content' = [content EXCEPT ![s] = Append(@, Head(down[s]).n)]
    /\ UNCHANGED <<limiter, srv, cl, up, broken, produced>>

\* chat_completed: its own text counts only if no delta arrived.
TakeCompleted(s) ==
    /\ down[s] # <<>> /\ Head(down[s]).kind = "completed"
    /\ down' = [down EXCEPT ![s] = <<>>]
    /\ Leave(s, "waiting", "done")
    /\ content' = [content EXCEPT ![s] =
                     IF @ = <<>> THEN [i \in 1..Head(down[s]).n |-> i] ELSE @]
    /\ UNCHANGED <<limiter, srv, up, broken, produced>>

\* An error answer, a stream that ended, or the outer timeout: Err, and the
\* stream and what was accumulated are dropped.
SessionFails(s) ==
    /\ ~ClientGone(s)
    /\ cl' = [cl EXCEPT ![s] = "out"]
    /\ down' = [down EXCEPT ![s] = <<>>]
    /\ content' = [content EXCEPT ![s] = <<>>]
    /\ UNCHANGED <<limiter, srv, up, broken, produced>>

\* A foreign Navigator sends what it likes.
ForeignSend(s) ==
    /\ cl[s] = "foreign" /\ srv[s] \notin {"exiting", "none"} /\ up[s] = <<>>
    /\ \E m \in Requests \union {"handshake", "other"} : up' = [up EXCEPT ![s] = <<m>>]
    /\ UNCHANGED <<limiter, srv, cl, down, broken, produced, content>>

-----------------------------------------------------------------------------

\* The provider's tasks: spawned, so each one runs when it can.  That a read
\* fails is no help to count on.
Provider(s) ==
    \/ Admit(s) \/ Reject(s) \/ DropPermit(s)
    \/ ReadEnds(s) \/ ReadHandshake(s) \/ RefuseFirst(s) \/ StopIfBroken(s)
    \/ ReadWork(s) \/ ReadControl(s) \/ ReadCancel(s) \/ ReadUnexpected(s)
    \/ HandlerDelta(s) \/ HandlerEnds(s)

Navigator(s) ==
    \/ OpenSession(s) \/ TakeAck(s) \/ TakeDelta(s) \/ TakeCompleted(s)
    \/ SessionFails(s) \/ ForeignSend(s)

Next == \E s \in Streams : Provider(s) \/ ReadFails(s) \/ Navigator(s)

Fairness == \A s \in Streams : WF_vars(Provider(s))

Spec == Init /\ [][Next]_vars
FairSpec == Spec /\ Fairness

-----------------------------------------------------------------------------

TypeOK ==
    /\ peerOf \in [Streams -> Peers]
    /\ total \in Nat
    /\ DOMAIN perPeer \subseteq Peers
    /\ perPeer \in [DOMAIN perPeer -> Nat \ {0}]
    /\ srv \in [Streams -> ServerSteps]
    /\ cl \in [Streams -> ClientSteps]
    /\ broken \in [Streams -> BOOLEAN]
    /\ produced \in [Streams -> Nat]

(* The limiter's two counters never drift from the permits in existence,   *)
(* over any sequence of admissions, refusals and every way a stream ends,  *)
(* and a peer without streams has no entry in the map.                     *)
PermitsCounted ==
    /\ total = Cardinality(Live)
    /\ \A p \in Peers : OpenOf(p) = Cardinality(LiveOf(p))

(* rust/README.md, DEC-0095: at most MAX_INBOUND_STREAMS streams in        *)
(* service per node and MAX_INBOUND_STREAMS_PER_PEER per peer.             *)
LimitsHold ==
    /\ Cardinality(Live) <= MaxStreams
    /\ \A p \in Peers : Cardinality(LiveOf(p)) <= MaxPerPeer

(* A Navigator that gets chat_completed has the whole answer, in order: a  *)
(* delta that could not be written is never followed by the completion.    *)
NoTruncatedAnswer ==
    \A s \in Streams \ Foreign :
        cl[s] = "done" => content[s] = [i \in 1..produced[s] |-> i]

(* Once its Navigator has gone, an admitted stream gives its permit back,  *)
(* wherever run_stream was: mid handshake, mid answer or between requests. *)
(* (No new session takes the slot before, so it suffices that, again and   *)
(* again, no permit is held for a Navigator that left.)                    *)
PermitsReturn ==
    \A s \in Streams : []<>~(ClientGone(s) /\ s \in Live)
=============================================================================
