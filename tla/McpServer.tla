-------------------------------- MODULE McpServer --------------------------------
(***************************************************************************)
(* One server and everybody who hands it messages: the loop of run_stdio,  *)
(* POSTs, and callers in the process (server/dispatch.rs,                  *)
(* server/protocol_handler.rs, server/serve.rs, server/session.rs, and the *)
(* Python class in chuk-mcp-python).  Registries, subscriptions, the log   *)
(* level and the sessions are the process's.  In Rust the server is shared *)
(* and calls overlap; in Python one mutex is held across every message,    *)
(* the handler it runs included, and for as long as run_stdio serves.      *)
(* HTTP itself, headers and statuses, is ServerPost; the questions a       *)
(* handler asks and subscriptions are PendingRequests and Listeners.       *)
(***************************************************************************)
EXTENDS Registries, FiniteSets

CONSTANTS
  Slots,       \* messages handed to the server
  Messages,    \* per slot, what they may be
  Built,       \* what the server is registered with before anyone uses it
  LateTools,   \* tools registered later, and whether in Rust they are interactive
  LatePrompts, \* prompts registered later
  LateUris,    \* resources registered later
  LateMethods, \* methods a custom handler is registered for later
  Levels,      \* log levels, by severity
  DefaultLevel,
  Odd,         \* a level the crate does not know
  None

ASSUME McpServerAssumption ==
  /\ Levels \subseteq Nat /\ DefaultLevel \in Levels /\ Odd \notin Levels
  /\ None \notin Slots \cup Levels /\ "stdio" \notin Slots \cup {None}

VARIABLES
  python,        \* whether it is the Python class: a mutex around the server
  shared,        \* in Rust, whether the server was given to those who use it
  serving,       \* run_stdio: "off", "asked", "on", "over"
  lock,          \* who holds the mutex: a slot, "stdio" or None
  queue,         \* who waits for it
  registered,    \* tools, resources, prompts, completer, overridden methods
  subscriptions, \* URIs subscribed to
  level,         \* the level set by logging/setLevel
  sessions,      \* the version each session was created with
  session,       \* the one the loop holds, 0 for none
  call           \* per slot, the message and how far it is

owned  == <<subscriptions, level, sessions>>
srvVars == <<python, shared, serving, lock, queue, registered, owned, session, call>>

NoCall == [stage |-> "none"]

Underway(s) == call[s].stage \notin {"none", "done"}

\* Python can register neither templates, prompts nor a completer.
Bare == [tools |-> <<>>, fixed |-> {}, templated |-> FALSE, prompts |-> <<>>,
         completer |-> FALSE, overridden |-> {}]

-----------------------------------------------------------------------------
(* What a message is, and says of itself. *)

\* parse_message, by the members an object has.
KindOf(members) ==
  IF "method" \in members THEN IF "id" \in members THEN "request" ELSE "notification"
  ELSE CASE members \cap {"id", "result", "error"} = {"id", "result"} -> "response"
         [] members \cap {"id", "result", "error"} = {"id", "error"} -> "error"
         [] OTHER -> "unreadable"

\* A batch is of requests and notifications or of answers.
BatchKind(kinds) ==
  IF kinds \subseteq {"request", "notification"} \/ kinds \subseteq {"response", "error"}
  THEN "batch" ELSE "unreadable"

Kind(m) == IF m.batch = None THEN KindOf(m.members) ELSE BatchKind({KindOf(b) : b \in m.batch})

Unreadable(m) == Kind(m) = "unreadable"

\* Of what is read, only requests have a method and an id.
Request(m) == Kind(m) = "request"

\* Any well-formed version from the first modern one on is modern.
IsModern(m) == m.version \in {"new", "future"}

\* Only a message with an id can be told that its version is not spoken.
Refused(m) == Request(m) /\ m.version \in {"future", "garbled"}

\* Fault: the methods of the stateful lifecycle stay.
NeverRemoved == {}

Removed == {"initialize", "notifications/initialized", "ping", "logging/setLevel",
            "resources/subscribe", "resources/unsubscribe",
            "notifications/roots/list_changed"}

Missing(m) ==
  IF m.method = "tools/call" /\ IsModern(m) /\ m.name \in DOMAIN registered.tools
  THEN registered.tools[m.name].requires \ m.capabilities ELSE {}

Interactive(m) ==
  /\ m.method = "tools/call" /\ m.name \in DOMAIN registered.tools
  /\ registered.tools[m.name].interactive

\* Only an interactive call gets a way back to its client while it runs.
NeedsStream(m) == m.method = "subscriptions/listen" \/ (Interactive(m) /\ Missing(m) = {})

From(least) == {l \in Levels : l >= least} \cup {Odd}

\* Fault: the level of the process for every call.
LevelOfProcess(m) == From(level)

\* log_floor_for: a legacy call logs at the level of the process, a modern one
\* at the level it asked for and not at all when it asked for none.
MayLog(m) ==
  IF ~IsModern(m) THEN From(level) ELSE IF m.level = None THEN {} ELSE From(m.level)

-----------------------------------------------------------------------------
(* Dispatch. *)

\* dispatch(): what each method comes to; "runs" when a handler of the
\* application does.
ByMethod(m, connected) ==
  CASE m.method = "tools/call" ->
         IF m.name \in DOMAIN registered.tools THEN "runs" ELSE "invalid"
    [] m.method = "resources/read" ->
         IF Reader(registered, m.name) # NoResult THEN "runs" ELSE "invalid"
    [] m.method = "prompts/get" ->
         IF Renders(registered, m.name, m.arguments) THEN "runs" ELSE "invalid"
    [] m.method = "completion/complete" -> IF registered.completer THEN "runs" ELSE "ok"
    [] m.method = "subscriptions/listen" -> IF connected THEN "silent" ELSE "invalid"
    [] m.method \in {"resources/subscribe", "resources/unsubscribe"} ->
         IF m.name = <<>> THEN "invalid" ELSE "ok"
    [] m.method = "logging/setLevel" -> IF m.level \in Levels THEN "ok" ELSE "invalid"
    [] m.method = "notifications/initialized" -> "silent"
    [] m.method \in (Cacheable \ {"resources/read"}) \cup {"initialize", "ping"} -> "ok"
    [] OTHER -> "not_found"

\* What a message comes to: a custom handler is looked for first.
Dispatched(m, connected) ==
  IF Kind(m) \in {"response", "error", "batch"} THEN "silent"
  ELSE IF m.method \in registered.overridden THEN "runs"
  ELSE IF Refused(m) THEN "unsupported"
  ELSE IF IsModern(m) /\ m.method \in Removed THEN "removed"
  ELSE IF m.state = "forged" THEN "invalid"
  ELSE IF Missing(m) # {} THEN "missing_capability"
  ELSE ByMethod(m, connected)

\* An unknown method, and a custom handler that fails, is answered even without
\* an id; nothing else is.
Nameless(m, code) ==
  ~Request(m) /\ (code = "not_found" \/ (code = "internal" /\ m.method \in registered.overridden))

\* Fault: every result is finished as a modern one.
ReplyForAll(m, code, result) ==
  IF code = "silent" \/ (~Request(m) /\ ~Nameless(m, code)) THEN [code |-> "silent"]
  ELSE IF code # "ok" THEN [code |-> code, empty |-> Nameless(m, code)]
  ELSE [code |-> "ok", result |-> Finished(m.method, result)]

\* What is sent back.
Reply(m, code, result) ==
  IF code = "silent" \/ (~Request(m) /\ ~Nameless(m, code)) THEN [code |-> "silent"]
  ELSE IF code # "ok" THEN [code |-> code, empty |-> Nameless(m, code)]
  ELSE [code |-> "ok", result |-> IF IsModern(m) THEN Finished(m.method, result) ELSE result]

\* The result of what is served without a handler.
Plain(m) ==
  IF m.method = "completion/complete" THEN ResultOf([as |-> "value", found |-> 0])
  ELSE Shaped(IF m.method = "server/discover" THEN "complete" ELSE "none", NoResult)

\* A call is over: its answer goes back, and the mutex with it.
Ended(s, reply) == [stage |-> "done", msg |-> call[s].msg, reply |-> reply]
Freed(s) == IF lock = s THEN None ELSE lock

\* What a request of the stateful lifecycle that is served leaves behind.
SubscriptionsAfter(m) ==
  CASE m.method = "resources/subscribe" -> subscriptions \cup {m.name}
    [] m.method = "resources/unsubscribe" -> subscriptions \ {m.name}
    [] OTHER -> subscriptions

LevelAfter(m) == IF m.method = "logging/setLevel" THEN m.level ELSE level

\* Each initialize creates a session, with whatever version it asks for.
SessionsAfter(m) == IF m.method = "initialize" THEN Append(sessions, m.name) ELSE sessions

\* The session of the loop is the last one a line created.
Leaves(s, m, code) ==
  IF code # "ok" THEN UNCHANGED <<owned, session>>
  ELSE /\ subscriptions' = SubscriptionsAfter(m)
       /\ level' = LevelAfter(m)
       /\ sessions' = SessionsAfter(m)
       /\ session' = IF m.method = "initialize" /\ call[s].via = "line"
                      THEN Len(sessions') ELSE session

-----------------------------------------------------------------------------
(* Registering. *)

\* Rust registers before the server is shared; Python whenever nobody holds the
\* mutex or waits for it, and is told that the server is busy otherwise.
MayRegister == IF python THEN lock = None /\ queue = <<>> ELSE ~shared

Register(what) ==
  /\ MayRegister /\ registered' = what
  /\ UNCHANGED <<python, shared, serving, lock, queue, owned, session, call>>

WithTool(t, interactive) ==
  [registered EXCEPT !.tools = t :> [interactive |-> interactive, requires |-> {}] @@ @]

WithResource(uri) == [registered EXCEPT !.fixed = @ \cup {uri}]

RegisterTool(t) == ~python /\ Register(WithTool(t, LateTools[t]))

RegisterResource(uri) == ~python /\ Register(WithResource(uri))

\* A raw prompt's handler makes the whole result; any other's makes messages,
\* which are wrapped.
RegisterPrompt(p) ==
  /\ ~python
  /\ Register([registered EXCEPT !.prompts = p :> LatePrompts[p] @@ @])

\* The Python class bridges a coroutine, with no way back to the client.
PyRegisterTool(t) == python /\ Register(WithTool(t, FALSE))

PyRegisterResource(uri) == python /\ Register(WithResource(uri))

RegisterMethod(method) == Register([registered EXCEPT !.overridden = @ \cup {method}])

-----------------------------------------------------------------------------
(* Messages. *)

\* What cannot be read ends here: a line is skipped, a POST is refused and a
\* Python call raises before it comes for the mutex.
Handed(m, via, within) ==
  IF Unreadable(m) THEN [stage |-> "done", msg |-> m, reply |-> [code |-> "unreadable"]]
  ELSE
  [stage |-> IF via = "direct" /\ python THEN "waiting" ELSE "taken",
   msg |-> m, via |-> via, within |-> within,
   connected |-> via = "post" /\ NeedsStream(m),
   mayLog |-> IF via = "post" /\ NeedsStream(m) THEN MayLog(m) ELSE {},
   lowest |-> level, heard |-> None, reads |-> NoResult]

Give(s, m, via, within) ==
  /\ call[s].stage = "none"
  /\ call' = [call EXCEPT ![s] = Handed(m, via, within)]
  /\ queue' = IF via = "direct" /\ python /\ ~Unreadable(m) THEN Append(queue, s) ELSE queue
  /\ shared' = TRUE
  /\ UNCHANGED <<python, serving, lock, registered, owned, session>>

\* In Rust a caller in the process hands over what is parsed.
Direct(s, m) == (python \/ ~Unreadable(m)) /\ Give(s, m, "direct", None)

Post(s, m) == ~python /\ Give(s, m, "post", None)

\* The loop reads a line when it has answered the last.
Line(s, m) ==
  /\ serving = "on"
  /\ \A t \in Slots : Underway(t) => call[t].via # "line"
  /\ Give(s, m, "line", None)

RunStdio ==
  /\ serving = "off"
  /\ IF python THEN serving' = "asked" /\ queue' = Append(queue, "stdio")
     ELSE serving' = "on" /\ UNCHANGED queue
  /\ shared' = TRUE
  /\ UNCHANGED <<python, lock, registered, owned, session, call>>

\* The mutex is handed on in the order it was asked for.
Acquire ==
  /\ lock = None /\ queue # <<>>
  /\ lock' = Head(queue) /\ queue' = Tail(queue)
  /\ IF Head(queue) = "stdio" THEN serving' = "on" /\ UNCHANGED call
     ELSE call' = [call EXCEPT ![Head(queue)].stage = "taken"] /\ UNCHANGED serving
  /\ UNCHANGED <<python, shared, registered, owned, session>>

\* Fault: the loop keeps the server it borrowed.
EndKeepsServer ==
  /\ serving = "on"
  /\ \A t \in Slots : Underway(t) => call[t].via # "line"
  /\ serving' = "over"
  /\ UNCHANGED <<python, shared, lock, queue, registered, owned, session, call>>

EndOfInput ==
  /\ serving = "on"
  /\ \A t \in Slots : Underway(t) => call[t].via # "line"
  /\ serving' = "over"
  /\ lock' = IF lock = "stdio" THEN None ELSE lock
  /\ UNCHANGED <<python, shared, queue, registered, owned, session, call>>

\* handle_message_with, to its answer or to the handler it awaits.
Dispatch(s) ==
  /\ call[s].stage = "taken"
  /\ LET m == call[s].msg
         code == Dispatched(m, call[s].connected)
     IN /\ IF code = "runs"
           THEN /\ call' = [call EXCEPT ![s].stage = "running",
                    ![s].reads = IF m.method = "resources/read" /\ m.method \notin registered.overridden
                                 THEN Reader(registered, m.name) ELSE NoResult]
                /\ UNCHANGED <<lock, owned, session>>
           ELSE /\ call' = [t \in Slots |->
                     IF t = s THEN Ended(s, Reply(m, code, Plain(m)))
                     ELSE IF m.method = "logging/setLevel" /\ code = "ok" /\ Underway(t)
                     THEN [call[t] EXCEPT !.lowest = IF m.level < @ THEN m.level ELSE @]
                     ELSE call[t]]
                /\ lock' = Freed(s)
                /\ Leaves(s, m, code)
  /\ UNCHANGED <<python, shared, serving, queue, registered>>

\* CallContext::log, heard by the client if it has a way back and may be told.
Log(s, l) ==
  /\ call[s].stage = "running"
  /\ l \in call[s].mayLog
  /\ call' = [call EXCEPT ![s].heard = l]
  /\ UNCHANGED <<python, shared, serving, lock, queue, registered, owned, session>>

\* A handler hands the server it runs under a message, and awaits the answer.
CallBack(s, t, m) ==
  /\ call[s].stage = "running"
  /\ \A u \in Slots : Underway(u) => call[u].within # s
  /\ python \/ ~Unreadable(m)
  /\ Give(t, m, "direct", s)

\* What a handler's return comes to.
Outcome(m, returned) ==
  CASE m.method \in registered.overridden -> IF returned.as = "error" THEN "internal" ELSE "ok"
    [] m.method \notin registered.overridden /\ m.method = "tools/call" -> "ok"
    [] OTHER -> IF returned.as # "error" THEN "ok"
                ELSE IF m.method = "resources/read" THEN "internal" ELSE "invalid"

\* Whether a result is the handler's own, in which it may ask for input.
OwnResult(m) ==
  CASE m.method = "tools/call"  -> TRUE
    [] m.method = "prompts/get" -> registered.prompts[m.name].raw
    [] OTHER -> FALSE

\* A completer counts, some handlers may ask for input, and any other returns or
\* fails.
MayReturn(m) ==
  IF m.method = "completion/complete" /\ m.method \notin registered.overridden
  THEN {[as |-> "value", found |-> n] : n \in {0, MaxValues, MaxValues + 1}}
  ELSE {[as |-> r, found |-> NoResult] : r \in
          IF m.method \notin registered.overridden /\ OwnResult(m)
          THEN {"value", "error", "input_required"} ELSE {"value", "error"}}

\* A custom handler's result leaves as it is, whatever the message was.
Returned(m, returned) ==
  LET code == Outcome(m, returned)
      result == ResultOf(returned)
  IN IF code = "ok" /\ m.method \in registered.overridden
     THEN [code |-> "theirs"] ELSE Reply(m, code, result)

Return(s) ==
  /\ call[s].stage = "running"
  /\ \A u \in Slots : Underway(u) => call[u].within # s
  /\ \E returned \in MayReturn(call[s].msg) :
       /\ call' = [call EXCEPT ![s] = Ended(s, Returned(call[s].msg, returned))]
       /\ lock' = Freed(s)
  /\ UNCHANGED <<python, shared, serving, queue, registered, owned, session>>

-----------------------------------------------------------------------------
ServerInit ==
  /\ python \in BOOLEAN
  /\ shared = FALSE /\ serving = "off"
  /\ lock = None /\ queue = <<>>
  /\ registered = IF python THEN Bare ELSE Built
  /\ subscriptions = {} /\ level = DefaultLevel /\ sessions = <<>> /\ session = 0
  /\ call = [s \in Slots |-> NoCall]

ServerNext ==
  \/ \E s \in Slots :
       \/ \E m \in Messages[s] : \/ Direct(s, m) \/ Post(s, m) \/ Line(s, m)
                              \/ \E t \in Slots : CallBack(t, s, m)
       \/ Dispatch(s) \/ Return(s)
       \/ \E l \in Levels \cup {Odd} : Log(s, l)
  \/ \E t \in DOMAIN LateTools : RegisterTool(t) \/ PyRegisterTool(t)
  \/ \E uri \in LateUris : RegisterResource(uri) \/ PyRegisterResource(uri)
  \/ \E p \in DOMAIN LatePrompts : RegisterPrompt(p)
  \/ \E method \in LateMethods : RegisterMethod(method)
  \/ RunStdio \/ Acquire \/ EndOfInput

ServerSpec == ServerInit /\ [][ServerNext]_srvVars

\* Tasks are polled and the mutex is handed on.  That handlers return is the
\* application's promise, and assumed.
ServerFairSpec ==
  /\ ServerSpec
  /\ WF_srvVars(Acquire)
  /\ \A s \in Slots : WF_srvVars(Dispatch(s) \/ Return(s))

-----------------------------------------------------------------------------
(* Properties. *)

\* The stateful lifecycle is not there for a modern message: whatever its id,
\* its version and its way in, no step of one creates a session, subscribes or
\* sets the level every legacy call logs at (server/modern.rs:50-56).
ModernLeavesNoTrace ==
  [][\A s \in Slots :
       call[s].stage = "taken" /\ call'[s].stage # "taken" /\ IsModern(call[s].msg)
         => UNCHANGED owned]_srvVars

\* A client hears what its call may log: a modern one no less than it asked for
\* and nothing if it asked for nothing, a legacy one nothing below every level
\* set while it ran (server/dispatch.rs:368-376).
LogsOnlyAsAsked ==
  \A s \in Slots : call[s].stage = "running" =>
    \A l \in {call[s].heard} \cap Levels :
      IF IsModern(call[s].msg) THEN call[s].msg.level # None /\ l >= call[s].msg.level
      ELSE l >= call[s].lowest

\* A text a template stands for, given values for its variables.
Expansion(template, bound) ==
  FlattenSeq([i \in DOMAIN template |->
    IF template[i].kind = "literal" THEN template[i].text ELSE bound[template[i].name]])

NamesOnce(template) ==
  \A i, j \in {k \in DOMAIN template : template[k].kind = "variable"} :
    template[i].name = template[j].name => i = j

\* A template's handler is given values that, if no name is used twice, put back
\* into the template name the URI that was asked for, none empty and none across a
\* slash, and only for a URI no resource was registered for
\* (server/resources/template.rs:60-65).
WellRead(r, uri) ==
  /\ NamesOnce(r.template) => Expansion(r.template, r.bound) = uri
  /\ \A v \in DOMAIN r.bound : r.bound[v] # <<>> /\ Slash \notin Chars(r.bound[v])

ReadsWhatWasNamed ==
  \A s \in Slots : call[s].stage = "running" =>
    LET r == call[s].reads
    IN IF r = NoResult THEN TRUE ELSE r.by = "template" =>
         WellRead(r, call[s].msg.name) /\ call[s].msg.name \notin registered.fixed

\* A result is shaped for the era of the request it answers: typed, and with
\* hints exactly where it may be cached, for a modern one; without hints for a
\* legacy one.  Completions say when they were cut.  What a custom handler made
\* is its own.  Only what has an id gets a result, and of what has one and is
\* read only a subscription, answered by its stream, and what should have had
\* none, notifications/initialized, go without an answer (server/modern.rs:207-212,
\* server/completion.rs:101-105, json_rpc.rs:289-312, protocol_handler.rs:113).
Fits(m, reply) ==
  LET result == reply.result
      cut == result.completion
  IN IF reply.code # "ok"
     THEN reply.code = "silent" /\ Request(m) =>
            m.method \in {"subscriptions/listen", "notifications/initialized"}
     ELSE
     /\ Request(m)
     /\ IF IsModern(m) THEN result.type # "none" /\ (result.hints <=> m.method \in Cacheable)
        ELSE ~result.hints
     /\ IF cut = NoResult THEN TRUE ELSE cut.more <=> cut.sent < cut.total

AnswersFit == \A s \in Slots : call[s].stage = "done" => Fits(call[s].msg, call[s].reply)

\* Nothing is registered while somebody uses the server, so that what a message
\* was resolved against is there until it is answered: in Rust nobody registers
\* once the server is shared, in Python only who gets the mutex does
\* (server/mod.rs:184-189, chuk-mcp-python/src/server.rs:154-157).
RegistersBetween ==
  [][registered' # registered => \A s \in Slots : ~Underway(s)]_srvVars

\* The Python class handles one message at a time.
OneAtATime ==
  python => \A s, t \in Slots :
    call[s].stage \in {"taken", "running"} /\ call[t].stage \in {"taken", "running"} => s = t

Wedged ==
  python /\ \E s, t \in Slots : /\ call[s].stage = "running"
                                /\ call[t].stage = "waiting" /\ call[t].within = s

\* Whoever awaits an answer gets one or learns there is none, in the order they
\* came for the mutex, unless run_stdio serves or a handler that holds it
\* waits for the same server (chuk-mcp-python/src/server.rs:179-184).
EveryMessageEnds ==
  \A s \in Slots :
    call[s].stage = "waiting" ~> call[s].stage = "done" \/ serving = "on" \/ Wedged

-----------------------------------------------------------------------------
(* The inductive invariant behind LogsOnlyAsAsked and AnswersFit. *)

\* A message that was taken in, and one that was answered.
IsCall(c) ==
  c \in [stage : {"waiting", "taken", "running"}, msg : {c.msg}, via : {c.via},
         within : {c.within}, connected : BOOLEAN, mayLog : SUBSET (Levels \cup {Odd}),
         lowest : Levels, heard : {c.heard}, reads : {c.reads}]
IsOver(c) == c \in [stage : {"done"}, msg : {c.msg}, reply : {c.reply}]

McpServerTypeOK ==
  /\ level \in Levels
  /\ call = [s \in Slots |-> call[s]]
  /\ \A s \in Slots : \/ call[s] = NoCall
                     \/ (Underway(s) /\ IsCall(call[s]))
                     \/ (call[s].stage = "done" /\ IsOver(call[s]))

\* What a call may log was settled when it was handed over, and stands against
\* every level set since.
FloorHolds(s) ==
  LET c == call[s] IN
  Underway(s) =>
    /\ c.heard \in c.mayLog \cup {None}
    /\ \A l \in c.mayLog \cap Levels :
         IF IsModern(c.msg) THEN c.msg.level # None /\ l >= c.msg.level ELSE l >= c.lowest

\* Whoever comes for the mutex waits, once, until it is handed over.
QueueTrue ==
  /\ queue \in Seq(Slots \cup {"stdio"})
  /\ \A i \in DOMAIN queue : queue[i] = "stdio" \/ call[queue[i]].stage = "waiting"
  /\ \A i, j \in DOMAIN queue : queue[i] = queue[j] => i = j \/ queue[i] = "stdio"

\* Nobody uses a server that was not shared.  Behind the mutex whoever is handled
\* holds it, or the loop does that read the one line it is at; whoever waits for it
\* is queued.
LockTrue ==
  /\ ~shared => serving = "off" /\ queue = <<>> /\ \A s \in Slots : call[s] = NoCall
  /\ python /\ serving = "on" => lock = "stdio"
  /\ \A s \in Slots : python /\ Underway(s) =>
       IF call[s].stage = "waiting" THEN call[s].via = "direct" /\ \E i \in DOMAIN queue : queue[i] = s
       ELSE \/ (call[s].via = "direct" /\ lock = s)
            \/ (call[s].via = "line" /\ lock = "stdio")
  /\ \A s, t \in {u \in Slots : Underway(u)} :
       call[s].via = "line" /\ call[t].via = "line" => s = t

\* What reads for a call is what was registered before the name it asked for was
\* looked up, and nothing has been since.
ReadsTrue(s) ==
  LET c == call[s] IN
  Underway(s) =>
    \/ c.reads \in {NoResult, [by |-> "resource"]}
    \/ c.msg.name \in Uris \ registered.fixed /\ c.reads = ByTemplate[c.msg.name]

McpServerInv ==
  /\ McpServerTypeOK /\ QueueTrue
  /\ \A s \in Slots : FloorHolds(s)
  /\ AnswersFit
=============================================================================
