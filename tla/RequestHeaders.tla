----------------------------- MODULE RequestHeaders -----------------------------
(***************************************************************************)
(* The headers that mirror a 2026-era request: what the client sends       *)
(* beside a body (protocol/envelope.rs, header_params.rs) and what the     *)
(* server reads from them.  A request is a record of how it comes, its     *)
(* method, whether it has an id, its headers and the parts of its body the *)
(* two sides look at.  A version is "legacy", "modern", "future" (well-formed, of no      *)
(* revision yet) or "garbled".                                             *)
(***************************************************************************)
EXTENDS FiniteSets, Naturals

CONSTANTS None,    \* no header, or no such field
          Unknown, \* no schema
          Endpoint \* the host the client was given

ASSUME NoneAssumption == None # Unknown

Call == "tools/call"
List == "tools/list"
Render == "prompts/get"
Read == "resources/read"
Listen == "subscriptions/listen"

\* Methods that name their target.
RequiresName(method) == method \in {Call, Render, Read}

\* Text that cannot be sent as it is, because it would be trimmed, and text
\* that would be taken for an encoded value.
Spaced == "spaced"
Wrapped == "wrapped"

EncodedOnlyIfWrapped(v) ==
  [form |-> IF v = Wrapped THEN "base64" ELSE "plain", text |-> v]

Encode(v) ==
  [form |-> IF v \in {Spaced, Wrapped} THEN "base64" ELSE "plain", text |-> v]

\* What the server reads, after the trim.
Decode(h) ==
  CASE h.form = "base64" -> h.text
    [] h.form = "plain" /\ h.text = Spaced -> "text"
    [] h.form = "plain" /\ h.text = Wrapped -> "undecodable"
    [] OTHER -> h.text

-----------------------------------------------------------------------------
(* Parameters a schema asks to be mirrored: a set of annotations. *)

Sound(schema) ==
  /\ \A a \in schema : a.reachable /\ a.token /\ a.type \in {"string", "integer", "boolean"}
  /\ \A a, b \in schema : a.name = b.name => a = b

Present(schema, args) == {a \in schema : args[a.path] \notin {"absent", "null"}}

\* What both sides make of a schema and the arguments; nothing when the schema
\* is unsound or a value has no canonical text.
Extract(schema, args) ==
  IF /\ schema # Unknown
     /\ Sound(schema)
     /\ \A a \in Present(schema, args) : args[a.path] \notin {"fraction", "object"}
  THEN {[name |-> a.name, value |-> args[a.path]] : a \in Present(schema, args)}
  ELSE {}

Promote(schema, args) ==
  {[name |-> p.name, sent |-> Encode(p.value)] : p \in Extract(schema, args)}

\* How a client of the crate comes: with a Host and no Origin.
Posted == [verb |-> "POST", path |-> "/mcp", origin |-> None, host |-> Endpoint, legible |-> TRUE]

\* The envelope of a request: its body with the caller's _meta, its headers,
\* and the parameters the known schema of the tool asks for.
Envelope(method, body, schema) ==
  [door    |-> Posted,
   method  |-> method,
   id      |-> TRUE,
   accepts |-> TRUE,
   headers |-> [version |-> body.version,
                method  |-> method,
                name    |-> IF RequiresName(method) THEN Encode(body.name) ELSE None,
                params  |-> IF method = Call THEN Promote(schema, body.args) ELSE {}],
   body    |-> body]

-----------------------------------------------------------------------------
(* What the server makes of them. *)

PresentsAsModern(r) ==
  IF r.headers.version # None THEN r.headers.version # "legacy" ELSE r.headers.method # None

IsModern(r) == r.body.version \in {"modern", "future"}

Supported(r) == r.body.version \in {None, "modern", "legacy"}

MissingMeta(r) == r.id /\ (r.body.version = None \/ r.body.capabilities = None)

Misnamed(r) ==
  /\ RequiresName(r.method) /\ r.body.name # None
  /\ r.headers.name = None \/ Decode(r.headers.name) # r.body.name

\* A parameter present in the body and declared by the tool has its header.
Mirrored(r, p) == \E h \in r.headers.params : h.name = p.name /\ Decode(h.sent) = p.value

MisPromoted(r, schema) ==
  r.method = Call /\ \E p \in Extract(schema, r.body.args) : ~Mirrored(r, p)

Disagrees(r, schema) ==
  \/ r.headers.method # r.method
  \/ None \notin {r.headers.version, r.body.version} /\ r.headers.version # r.body.version
  \/ Misnamed(r)
  \/ MisPromoted(r, schema)

\* The refusal, or None.
Check(r, schema) ==
  IF r.method = None THEN None
  ELSE IF Disagrees(r, schema) THEN "mismatch"
  ELSE IF (RequiresName(r.method) /\ r.body.name = None) \/ MissingMeta(r) THEN "invalid"
  ELSE None
=============================================================================
