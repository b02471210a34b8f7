------------------------------- MODULE ServerPost -------------------------------
(***************************************************************************)
(* A server of this crate answering HTTP: whence it may be asked, the      *)
(* check of the mirrored headers, the choice between one body and an event stream, the dispatch  *)
(* of the message and the status of what it is answered with               *)
(* (server/http/handler.rs, origin.rs, server/dispatch.rs).  The server may be        *)
(* deployed anew, with other tools; nothing of it survives.  Questions a   *)
(* handler asks and subscriptions are PendingRequests and Listeners.       *)
(***************************************************************************)
EXTENDS RequestHeaders, Sequences

CONSTANTS
  Slots,       \* POSTs there may be at a time
  Tools,       \* names of tools
  Prompts,     \* names of prompts and of resources
  Deployments, \* sequence of functions from tools to [schema, interactive, requires]
  Loopback,    \* hosts that name this machine
  AllowedHosts, \* those allowed besides, [any, also]
  Overridden   \* methods a custom handler was registered for

ASSUME ServerAssumption ==
  /\ Len(Deployments) \in Nat \ {0} /\ DOMAIN Deployments = 1 .. Len(Deployments)
  /\ \A d \in DOMAIN Deployments : DOMAIN Deployments[d] \subseteq Tools

VARIABLES
  deployed, \* the deployment that serves
  post,     \* per slot, the POST: its request, how far it is, its reply
  legacy    \* what stateful requests left: a session, a subscription, a level

serverVars == <<deployed, post, legacy>>

NoPost == [stage |-> "none"]

Registered == Deployments[deployed]

Permits(host) == AllowedHosts.any \/ host \in Loopback \cup AllowedHosts.also

\* Whichever of the two headers is sent must be allowed; an opaque origin never
\* is.
Welcome(door) ==
  /\ door.origin # None => door.origin # "null" /\ Permits(door.origin)
  /\ door.host # None => Permits(door.host)

\* The status of a request before what it says is looked at, 0 when that counts.
Turned(door) ==
  IF ~Welcome(door) THEN 403
  ELSE IF door.path # "/mcp" THEN 404
  ELSE IF door.verb = "DELETE" THEN 202
  ELSE IF door.verb # "POST" THEN 405
  ELSE IF ~door.legible THEN 400
  ELSE 0

SchemaOf(r) ==
  IF r.method = Call /\ r.body.name \in DOMAIN Registered
  THEN Registered[r.body.name].schema ELSE Unknown

\* Only a modern call declares its capabilities itself.
Missing(r) ==
  IF r.method = Call /\ IsModern(r) /\ r.body.name \in DOMAIN Registered
  THEN Registered[r.body.name].requires
         \ (IF r.body.capabilities = None THEN {} ELSE r.body.capabilities)
  ELSE {}

Interactive(r) ==
  r.method = Call /\ r.body.name \in DOMAIN Registered /\ Registered[r.body.name].interactive

StreamsRefusals(r) == r.method = Listen \/ Interactive(r)

NeedsStream(r) == r.method = Listen \/ (Missing(r) = {} /\ Interactive(r))

-----------------------------------------------------------------------------
(* Dispatch. *)

Removed == {"initialize", "notifications/initialized", "ping", "logging/setLevel",
            "resources/subscribe", "resources/unsubscribe",
            "notifications/roots/list_changed"}

Served == {"server/discover", List, Call, Read, Render, Listen, "completion/complete",
           "initialize", "notifications/initialized", "ping", "logging/setLevel",
           "resources/subscribe", "resources/unsubscribe"}

\* The validator recognises what this deployment handed out.
Forged(r) == r.body.state # None /\ r.body.state.by # deployed

\* What a request comes to before any handler of the application runs;
\* "runs" when one does, "silent" for the answers that are owed nothing.
Dispatched(r, streamed) ==
  CASE r.method = None -> "silent"
    [] r.method \in Overridden -> "runs"
    [] r.method \notin Overridden /\ r.id /\ ~Supported(r) -> "unsupported"
    [] OTHER ->
       IF IsModern(r) /\ r.method \in Removed THEN "removed"
       ELSE IF Forged(r) THEN "invalid"
       ELSE IF Missing(r) # {} THEN "missing_capability"
       ELSE IF r.method = Call THEN IF r.body.name \in DOMAIN Registered THEN "runs" ELSE "invalid"
       ELSE IF r.method \in {Render, Read}
            THEN IF r.body.name \in Prompts THEN "runs" ELSE "invalid"
       ELSE IF r.method = Listen THEN IF ~streamed THEN "invalid" ELSE "silent"
       ELSE IF r.method \notin Served THEN "not_found"
       ELSE IF r.method = "notifications/initialized" THEN "silent"
       ELSE "ok"

\* The stateful lifecycle: a session is created whatever the version asked for.
Left(r, code) ==
  IF code # "ok" THEN legacy
  ELSE CASE r.method = "initialize" -> legacy \cup {"session"}
         [] r.method = "logging/setLevel" -> legacy \cup {"level"}
         [] r.method = "resources/subscribe" -> legacy \cup {"subscription"}
         [] r.method = "resources/unsubscribe" -> legacy \ {"subscription"}
         [] OTHER -> legacy

Status(r, code, streamed) ==
  IF streamed THEN 200
  ELSE IF code = "silent" \/ (~r.id /\ code # "not_found") THEN 202
  ELSE IF ~PresentsAsModern(r) THEN 200
  ELSE IF code \in {"mismatch", "unsupported", "missing_capability"} THEN 400
  ELSE IF code \in {"not_found", "removed"} THEN 404
  ELSE 200

Replied(p, code, result) ==
  [p EXCEPT !.stage = "replied", !.code = code, !.result = result,
            !.status = Status(p.req, code, p.streamed)]

\* handle_message_with(), to its answer or to the handler it awaits.
Handled(p, code) ==
  IF code = "runs" THEN [p EXCEPT !.stage = "running", !.ran = TRUE] ELSE Replied(p, code, None)

-----------------------------------------------------------------------------
(* Actions. *)

Arrive(s, r) ==
  post' = [post EXCEPT ![s] =
    [stage |-> "arrived", req |-> r, streamed |-> FALSE, ran |-> FALSE,
     code |-> "none", result |-> None, status |-> 0, by |-> deployed]]

Handles(s) ==
  LET code == Dispatched(post[s].req, post[s].streamed)
  IN /\ post' = [post EXCEPT ![s] = Handled(@, code)]
     /\ legacy' = Left(post[s].req, code)

\* handle() and post(): turned away, refused with its 400, given a stream and a
\* task of its own, or handled at once.
Open(s) ==
  /\ post[s].stage = "arrived"
  /\ LET r == post[s].req
         refusal == IF PresentsAsModern(r) THEN Check(r, SchemaOf(r)) ELSE None
     IN IF Turned(r.door) # 0
        THEN /\ post' = [post EXCEPT ![s].stage = "replied", ![s].code = "turned", ![s].status = Turned(r.door)]
             /\ UNCHANGED legacy
        ELSE IF refusal # None
        THEN /\ post' = [post EXCEPT ![s].stage = "replied", ![s].code = refusal, ![s].status = 400]
             /\ UNCHANGED legacy
        ELSE IF NeedsStream(r) /\ r.accepts
        THEN /\ post' = [post EXCEPT ![s].stage = "open", ![s].streamed = TRUE]
             /\ UNCHANGED legacy
        ELSE Handles(s)
  /\ UNCHANGED deployed

Dispatch(s) ==
  /\ post[s].stage = "open"
  /\ Handles(s)
  /\ UNCHANGED deployed

\* A handler returns what it made, or says with questions, a state, or both,
\* that it needs input.  A tool that fails has a result too, others an error.
Return(s, code, result) ==
  /\ post[s].stage = "running"
  /\ code # "ok" => post[s].req.method # Call
  /\ post' = [post EXCEPT ![s] = Replied(@, code, result)]
  /\ UNCHANGED <<deployed, legacy>>

\* The connection of a POST breaks; what runs runs on, heard by nobody.
Cut(s) ==
  /\ post[s].stage \in {"arrived", "open", "running"}
  /\ post' = [post EXCEPT ![s].stage = IF post[s].streamed THEN "broken" ELSE "lost"]
  /\ UNCHANGED <<deployed, legacy>>

\* Another process takes over; every connection of the first breaks.
Redeploy ==
  /\ deployed < Len(Deployments)
  /\ deployed' = deployed + 1
  /\ legacy' = {}
  /\ post' = [s \in Slots |->
       IF post[s].stage \in {"arrived", "open", "running"}
       THEN [post[s] EXCEPT !.stage = IF post[s].streamed THEN "broken" ELSE "lost"]
       ELSE post[s]]

ServerInit ==
  /\ deployed = 1
  /\ post = [s \in Slots |-> NoPost]
  /\ legacy = {}
=============================================================================
