--------------------------------- MODULE Kubo ---------------------------------
(***************************************************************************)
(* The client of a local Kubo daemon, rust/fhs/src/ipfs.rs: add, pin_rm,   *)
(* pin_ls and cat.  Several tasks call at the same time.  A call may break *)
(* off or time out at any moment, and what was asked is still with the     *)
(* daemon, which may do it later, or never.  A CID is the content it       *)
(* names: its version and base go with canonical_cid.                      *)
(***************************************************************************)
EXTENDS Integers, SequencesExt

CONSTANTS
    Clients,        \* tasks that make one call each
    Contents,       \* what may be stored: sequences of bytes
    Limits          \* the max_bytes a cat is given

ASSUME KuboAssumption == Contents \subseteq Seq(0..255) /\ Limits \subseteq Nat

VARIABLES
    pins,       \* contents pinned at the daemon
    asked,      \* the call of each client
    client,     \* how far the client is with it
    reply,      \* what the daemon has answered
    out,        \* what a cat has kept of the body
    answer,     \* what the method returned
    during      \* history: what was pinned at each moment while the client waited

kuboVars == <<pins, asked, client, reply, out, answer, during>>

Cids == [of : Contents, parses : BOOLEAN]
CanonicalCid(cid) == IF cid.parses THEN {cid.of} ELSE {}

Ok(value) == [kind |-> "ok", value |-> value]
Error(kind) == [kind |-> kind]
Api(message) == [kind |-> "api", message |-> message]
NoText == ""
NoAnswer == Error("none")

Requests ==
    [op : {"add"}, of : Contents, onlyHash : BOOLEAN]
    \union [op : {"pin_rm"}, cid : Cids]
    \union [op : {"cat"}, cid : Cids, max : Limits]
    \union [op : {"pin_ls"}]
NoRequest == [op |-> "none"]

\* Replies: an error status, a success without a body that is read, CIDs, a
\* body that is not what the method expects, and the content of a cat.
Silence == [kind |-> "none"]
Pending == [kind |-> "pending"]
Refusal == [kind |-> "error", message |-> "refused"]
NotPinned == [kind |-> "error", message |-> "not pinned"]
Done == [kind |-> "done"]
Garbled == [kind |-> "garbled"]
CidsReply(cids) == [kind |-> "cids", cids |-> cids]
BodyReply(left) == [kind |-> "body", left |-> left]

KuboInit ==
    /\ pins \in SUBSET Contents
    /\ asked = [c \in Clients |-> NoRequest]
    /\ client = [c \in Clients |-> "idle"]
    /\ reply = [c \in Clients |-> Silence]
    /\ out = [c \in Clients |-> <<>>]
    /\ answer = [c \in Clients |-> NoAnswer]
    /\ during = [c \in Clients |-> {}]

Return(c, result) ==
    /\ client' = [client EXCEPT ![c] = "done"]
    /\ answer' = [answer EXCEPT ![c] = result]

\* A method is called: one with a CID that does not parse goes no further.
Begin(c) ==
    /\ client[c] = "idle"
    /\ \E r \in Requests :
           /\ asked' = [asked EXCEPT ![c] = r]
           /\ IF r.op \in {"pin_rm", "cat"} /\ CanonicalCid(r.cid) = {}
              THEN Return(c, Error("cid")) /\ UNCHANGED <<reply, during>>
              ELSE /\ client' = [client EXCEPT ![c] = "waiting"]
                   /\ reply' = [reply EXCEPT ![c] = Pending]
                   /\ during' = [during EXCEPT ![c] = {pins}]
                   /\ UNCHANGED answer
    /\ UNCHANGED <<pins, out>>

-----------------------------------------------------------------------------
(* The daemon, which does not know whether the client still waits.         *)

Reply(c, r) ==
    /\ reply' = [reply EXCEPT ![c] = r]
    /\ during' = [d \in Clients |-> IF client[d] = "waiting" THEN during[d] \union {pins'}
                                                            ELSE during[d]]

ServeAdd(c) ==
    /\ asked[c].op = "add"
    /\ pins' = IF asked[c].onlyHash THEN pins ELSE pins \union {asked[c].of}
    /\ \/ \E parses \in BOOLEAN : Reply(c, CidsReply({[of |-> asked[c].of, parses |-> parses]}))
       \/ Reply(c, Garbled)

ServeRemoval(c) ==
    /\ asked[c].op = "pin_rm"
    /\ pins' = pins \ {asked[c].cid.of}
    /\ Reply(c, IF asked[c].cid.of \in pins THEN Done ELSE NotPinned)

ServeList(c) ==
    /\ asked[c].op = "pin_ls"
    /\ pins' = pins
    /\ \/ \E parses \in BOOLEAN : Reply(c, CidsReply({[of |-> p, parses |-> parses] : p \in pins}))
       \/ Reply(c, Garbled)

\* length=max+1: the daemon sends that much of the content at most.
Length(c) == asked[c].max + 1

ServeCat(c) ==
    LET content == asked[c].cid.of
        sent == IF Length(c) < Len(content) THEN Length(c) ELSE Len(content)
    IN /\ asked[c].op = "cat"
       /\ pins' = pins
       /\ Reply(c, BodyReply(SubSeq(content, 1, sent)))

\* The daemon takes up a call that was sent, or refuses it.
Serve(c) ==
    /\ reply[c] = Pending
    /\ \/ ServeAdd(c) \/ ServeRemoval(c) \/ ServeList(c) \/ ServeCat(c)
       \/ pins' = pins /\ Reply(c, Refusal)
    /\ UNCHANGED <<asked, client, out, answer>>

-----------------------------------------------------------------------------
(* The client.                                                             *)

\* Mutant: a removal that was done before fails.
ErrorAlways(op, message) == Api(message)

\* An error status.  "Not pinned" is a success of pin_rm.
ErrorOf(op, message) ==
    IF op = "pin_rm" /\ message = "not pinned" THEN Ok({}) ELSE Api(message)

\* A chunk of the body arrives: kept, or too much with what is kept.
Chunk(c) ==
    /\ client[c] = "waiting" /\ reply[c].kind = "body"
    /\ LET left == reply[c].left IN
       \E n \in 1..Len(left) :
           \/ Len(out[c]) + n > asked[c].max
              /\ Return(c, Error("too large")) /\ UNCHANGED <<reply, out>>
           \/ /\ Len(out[c]) + n <= asked[c].max
              /\ out' = [out EXCEPT ![c] = @ \o SubSeq(left, 1, n)]
              /\ reply' = [reply EXCEPT ![c] = BodyReply(SubSeq(left, n + 1, Len(left)))]
              /\ UNCHANGED <<client, answer>>
    /\ UNCHANGED <<pins, asked, during>>

\* The answer has come whole.
Finish(c) ==
    /\ client[c] = "waiting"
    /\ LET r == reply[c] IN
       \/ r.kind = "error" /\ Return(c, ErrorOf(asked[c].op, r.message))
       \/ r.kind = "done" /\ Return(c, Ok({}))
       \/ r.kind = "garbled" /\ Return(c, Error("parse"))
       \/ /\ r.kind = "cids"
          /\ IF \E cid \in r.cids : ~cid.parses THEN Return(c, Error("cid"))
             ELSE Return(c, Ok(UNION {CanonicalCid(cid) : cid \in r.cids}))
       \/ r.kind = "body" /\ r.left = <<>> /\ Return(c, Ok(out[c]))
    /\ UNCHANGED <<pins, asked, reply, out, during>>

\* The connection breaks or CALL_TIMEOUT passes.  Of an error status whose
\* text is lost, the status remains.
Break(c) ==
    /\ client[c] = "waiting"
    /\ \/ Return(c, Error("http"))
       \/ reply[c].kind = "error" /\ Return(c, ErrorOf(asked[c].op, NoText))
    /\ UNCHANGED <<pins, asked, reply, out, during>>

KuboNext == \E c \in Clients : Begin(c) \/ Serve(c) \/ Chunk(c) \/ Finish(c) \/ Break(c)

KuboSpec == KuboInit /\ [][KuboNext]_kuboVars

-----------------------------------------------------------------------------
\* What a call of add, pin_rm or pin_ls says was so at some moment of the
\* call, whatever the calls before it and beside it, also those given up, do
\* meanwhile.  A cat gives the whole content, or says it is too large, however
\* the body is cut.  And an error with a text is one the daemon gave to this
\* call: to repeat a removal that was done, its answer lost, is no error.
TrueAnswer(c) ==
    LET r == asked[c]
        a == answer[c]
    IN /\ a.kind = "ok" =>
              CASE r.op = "add" ->
                       a.value = {r.of} /\ (r.onlyHash \/ \E P \in during[c] : r.of \in P)
                [] r.op = "pin_rm" -> \E P \in during[c] : r.cid.of \notin P
                [] r.op = "pin_ls" -> a.value \in during[c]
                [] r.op = "cat" -> a.value = r.cid.of /\ Len(r.cid.of) <= r.max
       /\ a.kind = "too large" => r.op = "cat" /\ Len(r.cid.of) > r.max
       /\ a.kind = "api" /\ a.message # NoText => reply[c] = Refusal

AnswersAreTrue == \A c \in Clients : client[c] = "done" => TrueAnswer(c)
=============================================================================
