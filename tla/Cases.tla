-------------------------------- MODULE Cases --------------------------------
(***************************************************************************)
(* The parts that keep nothing from one call to the next: a case, what one *)
(* part is called with, is drawn and looked at.                            *)
(***************************************************************************)
EXTENDS Wire, Curp, CommandLine, DynamicJson

CONSTANT Drawn   \* the cases of each part, by its name

\* The callers of the code have no others: texts, commands of a beacon that was
\* accepted, JSON that nests no deeper than a value, values it has decoded,
\* lists that fit in a message, batches whose items differ in their id,
\* messages it has built or decoded, names that are words.
ASSUME DrawnAssumption ==
    /\ {"line", "call", "json", "value", "chunks", "batch", "envelope", "topic", "person"}
           \subseteq DOMAIN Drawn
    /\ Drawn["line"] \subseteq Text
    /\ \A c \in Drawn["call"] :
           /\ c.d \in CommandDescriptor /\ ValidDescriptor(c.d, DOMAIN Registry)
           /\ c.rest \in Text
    /\ \A json \in Drawn["json"] : IsJson(json)
    /\ \A c \in Drawn["value"] : IsValue(Call(c.tool, c.v)) /\ IsValue(Call(c.other, c.w))
    /\ \A c \in Drawn["chunks"] :
           /\ {c.domain, c.other} \subseteq {DomainTool, DomainQuery}
           /\ IsFiles(c.chunks) /\ IsFiles(c.others)
    /\ \A c \in Drawn["batch"] :
           /\ IsBatch(c.head, c.items) /\ IsBatch(c.other, c.others)
    /\ \A c \in Drawn["envelope"] : c.did \in Signers /\ c.tag \in PayloadTags /\ IsHead(c.head)
    /\ \A c \in Drawn["topic"] : c.did \in Signers /\ IsTopic(c.message)
    /\ \A p \in Drawn["person"] :
           {p.nombre, p.paterno, p.materno} \subseteq Seq(Seq(Character))

VARIABLE case

NoCase == [part |-> "none"]

CaseInit == case = NoCase

Draw == case = NoCase /\ \E part \in DOMAIN Drawn : case' \in [part : {part}, in : Drawn[part]]

CaseSpec == CaseInit /\ [][Draw]_case

-----------------------------------------------------------------------------
\* Nothing of a line is lost or taken for something else; the arguments of a
\* call, written again, are the same arguments, each in a field of its own of
\* what is sent; what is shown of an answer is shown the same again; and a
\* value that leaves as JSON enters again as the same value (classify_line,
\* parse_args, args_value, validate_result, from_json, to_json).
CallsAndResultsSettle ==
    /\ case.part = "json" => JsonStable(case.in)
    /\ case.part = "line" => LineKept(case.in)
    /\ case.part = "call" =>
           CallSurvives(case.in.d, case.in.rest) /\ ResultSettles(case.in.d, case.in.rest)

\* What a person authorises is what the node gets: a digest stands for one
\* call, batch, file or set of fragments and for no other (encode_value,
\* command_args_digest, batch_digest, ipfs_digest and chunks_digest).
DigestsTellApart ==
    /\ case.part = "value" =>
           ValuesToldApart(case.in.tool, case.in.v, case.in.other, case.in.w)
    /\ case.part = "chunks" =>
           FilesToldApart(case.in.domain, case.in.chunks, case.in.other, case.in.others)
    /\ case.part = "batch" =>
           BatchesToldApart(case.in.head, case.in.items, case.in.other, case.in.others)

\* What is sealed or signed verifies at the other end (sealed_envelope,
\* signed_* against verify_envelope_bytes, verified_*).
SignaturesSurvive ==
    /\ case.part = "envelope" =>
           SealSurvives(case.in.did, case.in.head, case.in.tag, case.in.payloads)
    /\ case.part = "topic" => TopicSurvives(case.in.did, case.in.time, case.in.message)

\* Every CURP the worker computes is one it accepts, of the same date.
CurpRoundTrips == case.part = "person" => RoundTrips(case.in)
=============================================================================
