-------------------------------- MODULE Values --------------------------------
(***************************************************************************)
(* The canonical form of a dynamic value and of a batch, whose digest a    *)
(* person authorises: rust/fhs/src/authorization.rs.                       *)
(*                                                                         *)
(* A value is a record with its kind; a number in floating point is its    *)
(* sign and magnitude.  What the code computes of a value from what it     *)
(* holds is a function on all the parts of the value.                      *)
(***************************************************************************)
EXTENDS Digests, FiniteSets

CONSTANTS
    MaxDepth,   \* how deep values nest: what the decoder of Protobuf accepts
    Width       \* the bytes of an i64 and of an f64: 8

ASSUME ValuesAssumption == MaxDepth \in Nat /\ Width \in Nat \ {0}

\* Half of the numbers that so many bytes hold.
Half == LET power[i \in 1..Width] == IF i = 1 THEN 128 ELSE 256 * power[i - 1] IN power[Width]

\* i64::to_be_bytes: the big end first, in two's complement.
BigEndian(n) ==
    LET rest[i \in 0..Width - 1] == IF i = 0 THEN n ELSE rest[i - 1] \div 256
    IN [i \in 1..Width |-> rest[Width - i] % 256]

\* f64::to_bits: the first bit is the sign.  The zeros are one number.
Bits(num) == IF num.neg /\ num.mag # 0 THEN num.mag - Half ELSE num.mag

-----------------------------------------------------------------------------
(* Values and their parts.                                                 *)

Children(v) ==
    CASE v.kind = "list" -> ToSet(v.items)
      [] v.kind = "object" -> {v.fields[key] : key \in DOMAIN v.fields}
      [] OTHER -> {}

\* What a value holds so many levels down.
Layers(v) ==
    LET layer[n \in 0..MaxDepth] ==
            IF n = 0 THEN {v} ELSE UNION {Children(w) : w \in layer[n - 1]}
    IN layer

Parts(v) == UNION {Layers(v)[n] : n \in 0..MaxDepth}

\* DynamicValue, but for what its parts are.
WellFormed(v) ==
    \/ v \in [kind : {"none", "nonfinite"}]
    \/ v \in [kind : {"bool"}, bool : BOOLEAN]
    \/ v.kind = "int" /\ v = [kind |-> "int", int |-> v.int] /\ v.int \in -Half..Half - 1
    \/ /\ v.kind = "number" /\ v = [kind |-> "number", num |-> v.num]
       /\ v.num \in [neg : BOOLEAN, mag : 0..Half - 1]
    \/ v.kind = "string" /\ v = [kind |-> "string", text |-> v.text] /\ v.text \in Bytes
    \/ v.kind = "bytes" /\ v = [kind |-> "bytes", bytes |-> v.bytes] /\ v.bytes \in Bytes
    \/ v.kind = "artifact"
    \/ /\ v.kind = "list" /\ v = [kind |-> "list", items |-> v.items]
       /\ v.items \in Seq(ToSet(v.items)) /\ Len(v.items) \in Sizes
    \/ /\ v.kind = "object" /\ v = [kind |-> "object", fields |-> v.fields]
       /\ v.fields = [key \in DOMAIN v.fields |-> v.fields[key]]
       /\ DOMAIN v.fields \subseteq Bytes
       /\ IsFiniteSet(DOMAIN v.fields) /\ Cardinality(DOMAIN v.fields) \in Sizes

IsValue(v) ==
    /\ \A w \in Parts(v) : WellFormed(w)
    /\ \A w \in Layers(v)[MaxDepth] : Children(w) = {}

-----------------------------------------------------------------------------
(* encode_value.                                                           *)

Encodable(v) == \A w \in Parts(v) : w.kind \notin {"artifact", "nonfinite"}

\* The keys of an object, in order.
SortedKeys(v) == Sorted(SetToSeq(DOMAIN v.fields))

\* The key and the code of each field of an object.
FieldCodes(fields, keys, code) ==
    [i \in DOMAIN keys |-> PushBytes(keys[i]) \o code[fields[keys[i]]]]

\* What a value comes to when code has what its children come to.
Code(v, code) ==
    CASE v.kind = "none" -> <<0>>
      [] v.kind = "bool" -> <<1, IF v.bool THEN 1 ELSE 0>>
      [] v.kind = "int" -> <<2>> \o BigEndian(v.int)
      [] v.kind = "number" -> <<3>> \o BigEndian(Bits(v.num))
      [] v.kind = "string" -> <<4>> \o PushBytes(v.text)
      [] v.kind = "bytes" -> <<5>> \o PushBytes(v.bytes)
      [] v.kind = "list" ->
             <<6>> \o PushLen(Len(v.items))
                   \o FlattenSeq([i \in DOMAIN v.items |-> code[v.items[i]]])
      [] v.kind = "object" ->
             <<7>> \o PushLen(Len(SortedKeys(v)))
                   \o FlattenSeq(FieldCodes(v.fields, SortedKeys(v), code))

EncodeValue(v) == LET code[w \in Parts(v)] == Code(w, code) IN code[v]

ValueDigest(domain, v) == Framed(domain, EncodeValue(v))

\* What command_args_digest encodes: an object with "args" and "tool", which
\* stand by their first letters.
Call(tool, args) ==
    [kind |-> "object",
     fields |-> [key \in {<<97>>, <<116>>} |->
                    IF key = <<97>> THEN args ELSE [kind |-> "string", text |-> tool]]]

CommandArgsDigest(tool, args) == ValueDigest(DomainArgs, Call(tool, args))

-----------------------------------------------------------------------------
(* Batches: an item is its id, six texts of what goes where and for how    *)
(* long, the ids it depends on, and three texts that bind a command.       *)

PushItem(item) ==
    PushBytes(item.id) \o PushAll(item.context) \o PushList(Sorted(item.deps))
        \o PushAll(item.command)

\* batch_digest: a batch is the four texts of its head and its items.
BatchDigest(head, items) ==
    LET sorted == SortedBy(items, [item \in ToSet(items) |-> item.id])
    IN Framed(DomainBatch,
              PushAll(head) \o PushLen(Len(items))
                  \o FlattenSeq([i \in DOMAIN sorted |-> PushItem(sorted[i])]))

\* A batch as the code has it: texts, and items that differ in their id, by
\* which the decision on each names it.
IsBatch(head, items) ==
    /\ head \in [1..4 -> Bytes]
    /\ Len(items) \in Sizes
    /\ items \in Seq([id : Bytes, context : [1..6 -> Bytes], deps : Lists,
                      command : [1..3 -> Bytes]])
    /\ \A i, j \in DOMAIN items : items[i].id = items[j].id => i = j

-----------------------------------------------------------------------------
\* A value without what nobody sees of it: the zeros are one number.
PlainNumber(num) == [neg |-> num.neg /\ num.mag # 0, mag |-> num.mag]
PlainFrom(v, plain) ==
    CASE v.kind = "number" -> [kind |-> "number", num |-> PlainNumber(v.num)]
      [] v.kind = "list" ->
             [kind |-> "list", items |-> [i \in DOMAIN v.items |-> plain[v.items[i]]]]
      [] v.kind = "object" ->
             [kind |-> "object", fields |-> [key \in DOMAIN v.fields |-> plain[v.fields[key]]]]
      [] OTHER -> v

Plain(v) == LET plain[w \in Parts(v)] == PlainFrom(w, plain) IN plain[v]

\* Whoever authorises the arguments of a tool authorises those and no others
\* (the encoding of one value never runs into that of another).
ValuesToldApart(tool, v, other, w) ==
    Encodable(v) /\ Encodable(w) =>
        ((CommandArgsDigest(tool, v) = CommandArgsDigest(other, w))
            <=> (tool = other /\ Plain(v) = Plain(w)))

\* A batch has one digest, however its items and what they depend on are
\* listed, and no other batch has it.
BatchesToldApart(head, items, other, others) ==
    LET Shown(batch) ==
            {[id |-> i.id, context |-> i.context, command |-> i.command,
              deps |-> Sorted(i.deps)] : i \in ToSet(batch)}
    IN (BatchDigest(head, items) = BatchDigest(other, others))
           <=> (head = other /\ Shown(items) = Shown(others))
===============================================================================
