------------------------------ MODULE DynamicJson ------------------------------
(***************************************************************************)
(* Dynamic values as JSON and back: rust/fhs/src/p2p/dynamic.rs.           *)
(*                                                                         *)
(* Values are those of module Values, and so are the lists and the objects *)
(* of JSON: only what they hold differs.  The words of an artifact's JSON  *)
(* stand by their first letters.                                           *)
(***************************************************************************)
EXTENDS Values

Transport == <<116>>
Inline == <<105>>
Ipfs == <<105, 112>>
Base64 == <<98>>
Filename == <<102>>
Retention == <<114>>
Reuse == <<114, 117>>
Ephemeral == <<101>>

\* cid, network and gatewayUrl.
Places == {<<99>>, <<110>>, <<103>>}

ArtifactKeys == {Transport, Base64, Filename, Retention} \union Places

\* Base64, a bijection from bytes to some texts.
BaseEncode(bytes) == [i \in DOMAIN bytes |-> 1000 + bytes[i]]
IsBase64(text) == \A i \in DOMAIN text : text[i] >= 1000
BaseDecode(text) == [i \in DOMAIN text |-> text[i] - 1000]

\* serde_json::Value, but for what its parts are.
WellFormedJson(json) ==
    \/ json = [kind |-> "null"]
    \/ json \in [kind : {"boolean"}, bool : BOOLEAN]
    \/ json.kind = "integer" /\ json = [kind |-> "integer", int |-> json.int]
    \/ json.kind = "float" /\ json = [kind |-> "float", num |-> json.num]
    \/ json.kind = "text" /\ json = [kind |-> "text", text |-> json.text] /\ json.text \in Seq(Nat)
    \/ /\ json.kind = "list" /\ json = [kind |-> "list", items |-> json.items]
       /\ json.items \in Seq(ToSet(json.items))
    \/ /\ json.kind = "object" /\ json = [kind |-> "object", fields |-> json.fields]
       /\ json.fields = [key \in DOMAIN json.fields |-> json.fields[key]]

IsJson(json) ==
    /\ \A part \in Parts(json) : WellFormedJson(part)
    /\ \A part \in Layers(json)[MaxDepth] : Children(part) = {}

\* The text under a key of a JSON value, empty when there is none.
TextAt(json, key) ==
    IF json.kind = "object" /\ key \in DOMAIN json.fields /\ json.fields[key].kind = "text"
    THEN json.fields[key].text ELSE <<>>

IsArtifact(json) ==
    \/ TextAt(json, Transport) = Inline /\ IsBase64(TextAt(json, Base64))
    \/ TextAt(json, Transport) = Ipfs

ArtifactFromJson(json) ==
    IF TextAt(json, Transport) = Inline
    THEN [transport |-> Inline, data |-> BaseDecode(TextAt(json, Base64)),
          filename |-> TextAt(json, Filename)]
    ELSE [transport |-> Ipfs, places |-> [key \in Places |-> TextAt(json, key)],
          filename |-> TextAt(json, Filename),
          retention |-> IF TextAt(json, Retention) = Reuse THEN Reuse ELSE Ephemeral]

ArtifactText(a, key) ==
    CASE key = Transport -> a.transport
      [] key = Filename -> a.filename
      [] key = Base64 /\ a.transport = Inline -> BaseEncode(a.data)
      [] key = Retention /\ a.transport = Ipfs ->
             IF a.retention = Reuse THEN Reuse ELSE Ephemeral
      [] key \in Places /\ a.transport = Ipfs -> a.places[key]
      [] OTHER -> <<>>

\* Texts that are not empty are put in the object, and base64 always.
ArtifactToJson(a) ==
    LET put == {key \in ArtifactKeys :
                    ArtifactText(a, key) # <<>> \/ (key = Base64 /\ a.transport = Inline)}
    IN IF a.transport = <<>> THEN [kind |-> "null"]
       ELSE [kind |-> "object",
             fields |-> [key \in put |-> [kind |-> "text", text |-> ArtifactText(a, key)]]]

-----------------------------------------------------------------------------
(* What comes of a JSON value, or of a value, when value, convertible or   *)
(* json has what its parts come to.                                        *)

\* from_json finds no null.
ConvertibleFrom(json, convertible) ==
    CASE json.kind = "null" -> FALSE
      [] json.kind = "list" -> \A i \in DOMAIN json.items : convertible[json.items[i]]
      [] json.kind = "object" ->
             IsArtifact(json) \/ \A key \in DOMAIN json.fields : convertible[json.fields[key]]
      [] OTHER -> TRUE

ValueFrom(json, value) ==
    CASE json.kind = "boolean" -> [kind |-> "bool", bool |-> json.bool]
      [] json.kind = "integer" -> [kind |-> "int", int |-> json.int]
      [] json.kind = "float" -> [kind |-> "number", num |-> json.num]
      [] json.kind = "text" -> [kind |-> "string", text |-> json.text]
      [] json.kind = "list" ->
             [kind |-> "list", items |-> [i \in DOMAIN json.items |-> value[json.items[i]]]]
      [] json.kind = "object" /\ IsArtifact(json) ->
             [kind |-> "artifact", artifact |-> ArtifactFromJson(json)]
      [] json.kind = "object" /\ ~IsArtifact(json) ->
             [kind |-> "object", fields |-> [key \in DOMAIN json.fields |-> value[json.fields[key]]]]
      [] OTHER -> [kind |-> "none"]

JsonFrom(v, json) ==
    CASE v.kind = "bool" -> [kind |-> "boolean", bool |-> v.bool]
      [] v.kind = "int" -> [kind |-> "integer", int |-> v.int]
      [] v.kind = "number" -> [kind |-> "float", num |-> v.num]
      [] v.kind = "string" -> [kind |-> "text", text |-> v.text]
      [] v.kind = "bytes" -> [kind |-> "text", text |-> BaseEncode(v.bytes)]
      [] v.kind = "list" ->
             [kind |-> "list", items |-> [i \in DOMAIN v.items |-> json[v.items[i]]]]
      [] v.kind = "object" ->
             [kind |-> "object", fields |-> [key \in DOMAIN v.fields |-> json[v.fields[key]]]]
      [] v.kind = "artifact" -> ArtifactToJson(v.artifact)
      [] OTHER -> [kind |-> "null"]

Convertible(json) ==
    LET convertible[part \in Parts(json)] == ConvertibleFrom(part, convertible)
    IN convertible[json]

FromJson(json) == LET value[part \in Parts(json)] == ValueFrom(part, value) IN value[json]

ToJson(v) == LET json[part \in Parts(v)] == JsonFrom(part, json) IN json[v]

-----------------------------------------------------------------------------
\* What enters as JSON leaves as JSON that enters as the same value.
JsonStable(json) ==
    Convertible(json) =>
        /\ Convertible(ToJson(FromJson(json)))
        /\ FromJson(ToJson(FromJson(json))) = FromJson(json)
=============================================================================
