--------------------------- MODULE CommandContract ---------------------------
(***************************************************************************)
(* The commands a node may declare in Beacon.commands, and the closed      *)
(* registry that says which capability may declare which tools:            *)
(* rust/fhs/src/commands.rs.                                               *)
(*                                                                         *)
(* A text is the sequence of its code points.  Capabilities, tools and     *)
(* DIDs are opaque.  A fingerprint is a SHA-256: two contracts have the    *)
(* same one exactly when they are equal, so the contract stands for it.    *)
(***************************************************************************)
EXTENDS Texts

CONSTANTS
    Printable,      \* the code points is_printable accepts
    Registry,       \* capability -> [tools, admission, codes]
    EncodedLen(_)   \* length of a descriptor in Protobuf

MaxCommands == 8
MaxArgs == 4
MaxCommandsBytes == 4096
MaxSummaryChars == 120
MaxDescriptionChars == 80
MaxAllowedChars == 128
MaxStringLength == 1024
MaxNesting == 64
MaxEnumValues == 16
MaxEnumValueChars == 64
MaxResultChars == 64

Space == 32
Hyphen == 45
Underscore == 95
Digit == 48..57
Upper == 65..90
Lower == 97..122

\* "ayuda", "help" and "comandos".
ReservedNames ==
    {<<97, 121, 117, 100, 97>>, <<104, 101, 108, 112>>, <<99, 111, 109, 97, 110, 100, 111, 115>>}

IsPlainText(text, max) == Len(text) <= max /\ ToSet(text) \subseteq Printable

IsIdent(text, max, extra) ==
    /\ text # <<>> /\ Head(text) \in Lower
    /\ Len(text) <= max
    /\ ToSet(Tail(text)) \subseteq Lower \union Digit \union {extra}

\* A list with neither disorder nor repetition.
Ascending(texts) == \A i \in 1..Len(texts) - 1 : Precedes(texts[i], texts[i + 1])

-----------------------------------------------------------------------------
(* The registry.                                                           *)

ValidCode(code) ==
    /\ code # <<>> /\ Head(code) \in Upper
    /\ Len(code) <= 32
    /\ ToSet(Tail(code)) \subseteq Upper \union Digit \union {Underscore}

ValidEntry(entry) ==
    /\ Len(entry.tools) \in 1..8
    /\ IsInjective(entry.tools)
    /\ entry.admission \in {"open", "trusted"}
    /\ Cardinality(DOMAIN entry.codes) <= 16
    /\ \A code \in DOMAIN entry.codes :
           /\ ValidCode(code)
           /\ entry.codes[code] # <<>> /\ IsPlainText(entry.codes[code], 120)

\* Registry::parse, after the JSON is read: the program does not start with
\* a registry it refuses.
Accepted(registry) ==
    /\ DOMAIN registry # {}
    /\ \A capability \in DOMAIN registry : ValidEntry(registry[capability])

ASSUME RegistryAssumption == Accepted(Registry)

-----------------------------------------------------------------------------
(* Descriptors.                                                            *)

CommandArg ==
    [name : Text, description : Text, type : STRING, required : BOOLEAN, rest : BOOLEAN,
     maxLength : Int, allowed : Text, nesting : Int, values : Seq(Text)]

CommandDescriptor ==
    [name : Text, capability : STRING, tool : STRING, summary : Text,
     args : Seq(CommandArg), result : [type : STRING, maxChars : Int]]

CanonicalChars(chars) ==
    /\ Len(chars) <= MaxAllowedChars
    /\ \A i \in 1..Len(chars) - 1 : chars[i] < chars[i + 1]
    /\ ToSet(chars) \subseteq Printable

NoStringFields(arg) ==
    arg.maxLength = 0 /\ arg.allowed = <<>> /\ arg.nesting = 0 /\ ~arg.rest

ValidArg(arg, last) ==
    /\ IsIdent(arg.name, 24, Underscore)
    /\ IsPlainText(arg.description, MaxDescriptionChars)
    /\ \/ /\ arg.type = "string"
          /\ arg.maxLength \in 1..MaxStringLength
          /\ CanonicalChars(arg.allowed)
          /\ arg.nesting \in 0..MaxNesting
          /\ arg.values = <<>>
          /\ arg.rest => last
       \/ /\ arg.type = "enum"
          /\ Len(arg.values) \in 1..MaxEnumValues
          /\ Ascending(arg.values)
          /\ \A value \in ToSet(arg.values) :
                 /\ Len(value) \in 1..MaxEnumValueChars
                 /\ ToSet(value) \subseteq Printable \ {Space}
          /\ NoStringFields(arg)
       \/ /\ arg.type \in {"integer", "number", "boolean"}
          /\ NoStringFields(arg)
          /\ arg.values = <<>>

ValidDescriptor(d, capabilities) ==
    /\ IsIdent(d.name, 24, Hyphen) /\ d.name \notin ReservedNames
    /\ d.capability \in DOMAIN Registry \intersect capabilities
    /\ d.tool \in ToSet(Registry[d.capability].tools)
    /\ IsPlainText(d.summary, MaxSummaryChars)
    /\ Len(d.args) <= MaxArgs
    /\ \A i, j \in 1..Len(d.args) :
           i < j => /\ d.args[i].name # d.args[j].name
                    /\ d.args[j].required => d.args[i].required
    /\ \A i \in 1..Len(d.args) : ValidArg(d.args[i], i = Len(d.args))
    /\ d.result.type \in {"number", "integer", "boolean"}
    /\ d.result.maxChars \in 1..MaxResultChars

\* On the wire each descriptor follows a one-byte tag and its own length, a
\* varint.
WireLen(d) == 1 + (IF EncodedLen(d) < 128 THEN 1 ELSE 2) + EncodedLen(d)

\* One fault invalidates all the commands of the beacon.
ValidDescriptors(commands, capabilities) ==
    /\ Len(commands) <= MaxCommands
    /\ SumFunction([i \in DOMAIN commands |-> WireLen(commands[i])]) <= MaxCommandsBytes
    /\ Ascending([i \in DOMAIN commands |-> commands[i].name])
    /\ \A d \in ToSet(commands) : ValidDescriptor(d, capabilities)

\* What fingerprint() hashes: the texts for people stay out of it.
Contract(d) ==
    [d EXCEPT !.summary = <<>>,
              !.args = [i \in DOMAIN d.args |-> [d.args[i] EXCEPT !.description = <<>>]]]
=============================================================================
