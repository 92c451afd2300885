------------------------------- MODULE Identity -------------------------------
(***************************************************************************)
(* The identity of a node over starts and crashes of its process:          *)
(* NodeIdentity::load_or_create, rust/fhs/src/p2p/identity.rs.             *)
(*                                                                         *)
(* The file survives the process, and what the process wrote survives it   *)
(* too: the machine itself does not fail.  Nor does the call that asks     *)
(* whether the file is there: path.exists() takes an error for its absence. *)
(***************************************************************************)
EXTENDS Naturals, FiniteSets

CONSTANTS
    Keys,           \* the Ed25519 keys a node may have
    OtherKeys,      \* keys of another type, in a well-formed file
    Bad,            \* a field that does not decode
    None            \* a field that is missing

ASSUME KeysAssumption == Keys \intersect OtherKeys = {} /\ {Bad, None} \intersect Keys = {}

VARIABLES
    original,   \* history: the file before the first start
    file,       \* at IDENTITY_KEY_PATH
    node,       \* the process: [at, key]
    answered    \* history: the keys that load_or_create answered with

idVars == <<original, file, node, answered>>

Absent == [kind |-> "absent"]
Partial == [kind |-> "partial"]       \* truncated, or any text that is no JSON
Persisted(hex, base64) == [kind |-> "json", hex |-> hex, base64 |-> base64]

Files ==
    {Absent, Partial}
    \union {Persisted(h, b) : h \in Keys \union OtherKeys \union {Bad, None},
                              b \in Keys \union {Bad, None}}

\* protobuf_key and from_keypair: the key of a file, if it has one.
\* privateKeyHex counts before key, even when it does not decode.
KeyOf(f) ==
    IF f.kind # "json" THEN {}
    ELSE (IF f.hex # None THEN {f.hex} ELSE {f.base64}) \intersect Keys

Down == [at |-> "down", key |-> None]

IdInit ==
    /\ original \in Files
    /\ file = original
    /\ node = Down
    /\ answered = {}

\* Mutant: a file that cannot be read is replaced.
StartHealing ==
    /\ node = Down
    /\ IF KeyOf(file) # {}
       THEN node' = [at |-> "read", key |-> None]
       ELSE \E k \in Keys : node' = [at |-> "generated", key |-> k]
    /\ UNCHANGED <<original, file, answered>>

\* path.exists(), and a new key when there is no file.
Start ==
    /\ node = Down
    /\ IF file # Absent
       THEN node' = [at |-> "read", key |-> None]
       ELSE \E k \in Keys : node' = [at |-> "generated", key |-> k]
    /\ UNCHANGED <<original, file, answered>>

Answer(k) ==
    /\ node' = [at |-> "up", key |-> k]
    /\ answered' = answered \union {k}

Fail == node' = [at |-> "failed", key |-> None] /\ UNCHANGED answered

\* read_to_string may fail; else the file says who the node is.
Read ==
    /\ node.at = "read"
    /\ Fail \/ \E k \in KeyOf(file) : Answer(k)
    /\ UNCHANGED <<original, file>>

\* create_dir_all, and the opening of the file, which empties it.
Open ==
    /\ node.at = "generated"
    /\ \/ Fail /\ UNCHANGED file
       \/ file' = Partial /\ node' = [node EXCEPT !.at = "writing"] /\ UNCHANGED answered
    /\ UNCHANGED original

\* The rest of fs::write, which may stop half way.
Write ==
    /\ node.at = "writing"
    /\ \/ Fail /\ UNCHANGED file
       \/ file' = Persisted(node.key, None) /\ Answer(node.key)
    /\ UNCHANGED original

\* The process ends, by itself or not, wherever it is.
Crash ==
    /\ node # Down
    /\ node' = Down
    /\ UNCHANGED <<original, file, answered>>

IdNext == Start \/ Read \/ Open \/ Write \/ Crash

IdSpec == IdInit /\ [][IdNext]_idVars

-----------------------------------------------------------------------------
\* A node has one identity over all its starts, the one of its file: a file
\* that was there is left as it was, in either format, and whoever was
\* answered a key finds it there on the next start.
IdentityKept ==
    /\ Cardinality(answered) <= 1
    /\ answered \subseteq KeyOf(file)
    /\ original # Absent => file = original
=============================================================================
