--------------------------------- MODULE Wire ---------------------------------
(***************************************************************************)
(* Signed messages and envelopes between two implementations of Protobuf:  *)
(* rust/fhs/src/signing.rs and rust/fhs/src/p2p/wire.rs.                   *)
(*                                                                         *)
(* An encoded message is the sequence of its fields <<tag, value>>, as the *)
(* encoder that wrote it ordered them.  A value is a scalar or, for a      *)
(* nested message, its own encoding.  A signature names its key and the    *)
(* text that was signed.                                                   *)
(***************************************************************************)
EXTENDS Texts

CONSTANTS
    PayloadTags,    \* ENVELOPE_PAYLOAD_TAGS
    KnownTags,      \* the fields of a beacon this build decodes
    Signers         \* those that hold an Ed25519 key

IdTag == 1
SourceTag == 2
DestTag == 3
TimeTag == 4
SignatureTag == 6

ASSUME WireAssumption ==
    /\ PayloadTags \intersect {IdTag, SourceTag, DestTag, TimeTag, SignatureTag} = {}
    /\ "" \notin Signers

NoSignature == [key |-> "", text |-> <<>>]

\* Where a message has fields with these tags.
Positions(message, tags) == {i \in DOMAIN message : message[i][1] \in tags}

\* The value of a field, the last if it is repeated, or its default.
Field(message, tag, default) ==
    LET at == Positions(message, {tag})
    IN IF at = {} THEN default ELSE message[Max(at)][2]

Sign(did, text) == [key |-> did, text |-> text]

Verify(did, text, signature) == did \in Signers /\ signature = Sign(did, text)

-----------------------------------------------------------------------------
(* Envelopes.                                                              *)

\* Mutant: the payload encoded again, with its map in an order of its own.
PayloadEncodedAgain(envelope) ==
    LET at == Positions(envelope, PayloadTags)
    IN IF at = {} THEN <<>>
       ELSE SortSeq(envelope[Min(at)][2],
                    LAMBDA f, g : f[1] < g[1] \/ (f[1] = g[1] /\ f[2] < g[2]))

\* raw_envelope_payload: the bytes of the first payload field, as they came.
RawEnvelopePayload(envelope) ==
    LET at == Positions(envelope, PayloadTags)
    IN IF at = {} THEN <<>> ELSE envelope[Min(at)][2]

EnvelopeSignaturePayload(envelope, payload) ==
    <<Field(envelope, IdTag, 0), Field(envelope, SourceTag, ""), Field(envelope, DestTag, ""),
      Field(envelope, TimeTag, 0), payload>>

\* sealed_envelope: signed over the payload as this sender encodes it, which
\* is how it travels.
SealedEnvelope(did, head, tag, payload) ==
    LET unsigned == head \o <<<<SourceTag, did>>, <<tag, payload>>>>
    IN Append(unsigned, <<SignatureTag, Sign(did, EnvelopeSignaturePayload(unsigned, payload))>>)

\* verify_envelope_bytes: the envelopes accepted, none or this one.
VerifyEnvelopeBytes(envelope) ==
    LET source == Field(envelope, SourceTag, "")
        signature == Field(envelope, SignatureTag, NoSignature)
    IN IF /\ source # "" /\ signature # NoSignature
          /\ Verify(source,
                    EnvelopeSignaturePayload(envelope, RawEnvelopePayload(envelope)),
                    signature)
       THEN {envelope} ELSE {}

-----------------------------------------------------------------------------
(* The messages of the topics: a record with the fields that are signed,   *)
(* in one text, and the list of capabilities a bid signs sorted.           *)

\* The beacon is signed as this build encodes it again.  That has one form for
\* what was decoded, the fields that the build knows, and so stands by them.
Reencoded(beacon) == [t \in KnownTags |-> Field(beacon, t, 0)]

SignedText(m) ==
    CASE m.type = "advertise" -> <<m.did, Reencoded(m.beacon), m.time, m.ttl>>
      [] m.type = "beacon" -> <<m.did, Reencoded(m.beacon), m.time, m.ttl>>
      [] m.type = "offer" -> <<m.mission, m.did, m.kind, m.deadline, m.time>>
      [] m.type = "bid" -> <<m.mission, m.did, Sorted(m.capabilities), m.time>>
      [] m.type = "assign" -> <<m.mission, m.did, m.assigned, m.time>>

\* signed_*: the node fills in its DID and the time, clears the signature,
\* and signs.
Signed(did, time, message) ==
    LET m == [message EXCEPT !.did = did, !.time = time, !.signature = NoSignature]
    IN [m EXCEPT !.signature = Sign(did, SignedText(m))]

\* verified_*: what is accepted, none or this message.
Verified(m) ==
    IF m.signature # NoSignature /\ Verify(m.did, SignedText(m), m.signature) THEN {m} ELSE {}

-----------------------------------------------------------------------------
(* What may happen to a message without changing what it says.             *)

\* A message with no field twice, so that their order says nothing.
OnceEach(message) == \A i, j \in DOMAIN message : message[i][1] = message[j][1] => i = j

\* What a sender may write before its DID and the payload.
IsHead(head) ==
    /\ head \in Seq(ToSet(head)) /\ OnceEach(head)
    /\ \A i \in DOMAIN head : head[i][1] \notin PayloadTags \union {SourceTag, SignatureTag}

\* A message of a topic, as the node makes it: with the fields of its type, of
\* which only these are not scalars.
IsTopic(message) ==
    /\ message = [f \in DOMAIN message |-> message[f]]
    /\ {"type", "did", "time", "signature"} \subseteq DOMAIN message
    /\ message.type \in {"advertise", "beacon", "offer", "bid", "assign"}
    /\ message.type = "bid" =>
           "capabilities" \in DOMAIN message /\ message.capabilities \in Seq(Text)
    /\ message.type \in {"advertise", "beacon"} =>
           /\ "beacon" \in DOMAIN message
           /\ message.beacon \in Seq(ToSet(message.beacon)) /\ OnceEach(message.beacon)

\* An envelope verifies whatever the order of its fields, and of the maps in
\* its payload, known to this build or not; with any other payload it does
\* not.
SealSurvives(did, head, tag, payloads) ==
    \A payload \in payloads :
        LET sealed == SealedEnvelope(did, head, tag, payload)
        IN /\ \A moved \in Reorderings(sealed) : VerifyEnvelopeBytes(moved) = {moved}
           /\ \A i \in DOMAIN sealed, value \in payloads \ {payload} :
                  sealed[i][1] = tag =>
                      VerifyEnvelopeBytes([sealed EXCEPT ![i] = <<tag, value>>]) = {}

\* A message of a topic verifies at whoever lists the capabilities, or the
\* fields of the beacon, in another order.
TopicSurvives(did, time, message) ==
    LET signed == Signed(did, time, message)
    IN /\ Verified(signed) = {signed}
       /\ message.type = "bid" =>
              \A c \in Reorderings(message.capabilities) :
                  Verified([signed EXCEPT !.capabilities = c]) # {}
       /\ message.type \in {"advertise", "beacon"} =>
              \A b \in Reorderings(message.beacon) :
                  Verified([signed EXCEPT !.beacon = b]) # {}
=============================================================================
