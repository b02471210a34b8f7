-------------------------------- MODULE Exchange --------------------------------
(***************************************************************************)
(* The crate's client and the crate's server over the modern transport: a  *)
(* call and its rounds (InputRounds), the POST each round becomes, with    *)
(* the parameters its tool asks to be mirrored (transports/http_modern.rs, *)
(* protocol/tool_schemas.rs), and the server that answers (ServerPost).    *)
(* One slot belongs to other peers of the server.  The era is settled, and *)
(* authorization is AuthSession's.                                         *)
(***************************************************************************)
EXTENDS ServerPost

CONSTANTS Calls, Optional, MaxInputRounds, Other,
          Wanted,          \* per call, what it may ask: [method, name, args]
          Requests,        \* what other peers may ask
          Results,         \* what a handler may return
          MaxOthers,       \* bound: requests of other peers
          MaxStreamRetries \* max_stream_retries

ASSUME ExchangeAssumption ==
  /\ Slots = Calls \cup {Other} /\ Other \notin Calls
  /\ Permits(Endpoint)
  /\ MaxInputRounds \in Nat \ {0}

\* A call of a tool, a prompt or a resource has the name of one, and None is no
\* name, no header and nothing a body declares.
ASSUME NamesAssumption ==
  /\ None \notin Tools \cup Prompts
  /\ None \notin [form : {"plain", "base64"}, text : Tools \cup Prompts]
  /\ None # "modern" /\ None # {} /\ None # {"elicitation"}
  /\ \A c \in Calls : \A w \in Wanted[c] :
       RequiresName(w.method) => w.name \in Tools \cup Prompts

VARIABLES pc, round, sends, asked, handler,
          wants,   \* per call, what it asks, while it runs
          queued,  \* per call, the request on its way to the transport, or None
          attempt, \* re-issues over a broken stream
          known,   \* schemas this connection has seen
          learnt,  \* history: the deployment listed last, 0 before
          built,   \* history, per call: learnt when its envelope was built
          others   \* requests of other peers so far

Rounds == INSTANCE InputRounds WITH Nothing <- None

roundVars == <<pc, round, sends, asked, handler>>
wireVars == <<queued, attempt, known, learnt, built>>
exchangeVars == <<serverVars, roundVars, wireVars, wants, others>>

ExchangeInit ==
  /\ ServerInit /\ Rounds!RoundsInit
  /\ wants = [c \in Calls |-> None]
  /\ queued = [c \in Calls |-> None] /\ attempt = [c \in Calls |-> 0]
  /\ known = [t \in Tools |-> Unknown] /\ learnt = 0
  /\ built = [c \in Calls |-> 0]
  /\ others = 0

-----------------------------------------------------------------------------
(* The client. *)

Request(w, sent) ==
  [method |-> w.method, name |-> w.name, args |-> w.args,
   answers |-> sent.answers, state |-> sent.state]

Begin(c) ==
  /\ Rounds!Began(c)
  /\ \E w \in Wanted[c] : /\ wants' = [wants EXCEPT ![c] = w]
                         /\ queued' = [queued EXCEPT ![c] = Request(w, Rounds!Plain)]
  /\ UNCHANGED <<serverVars, attempt, known, learnt, built, others>>

Dropped(c) == wants' = [wants EXCEPT ![c] = None]

Answer(c) ==
  /\ Rounds!Answer(c)
  /\ IF pc'[c] = "asking"
     THEN /\ queued' = [queued EXCEPT ![c] = Request(wants[c], sends'[c])]
          /\ UNCHANGED wants
     ELSE Dropped(c) /\ UNCHANGED queued
  /\ UNCHANGED <<serverVars, attempt, known, learnt, built, others>>

\* The call's own timer; its POST goes on.
GiveUp(c) ==
  /\ Rounds!Failed(c)
  /\ Dropped(c)
  /\ UNCHANGED <<serverVars, wireVars, others>>

Body(q) ==
  [version      |-> "modern",
   capabilities |-> IF handler THEN {"elicitation"} ELSE {},
   name         |-> q.name,
   args         |-> q.args,
   answers      |-> q.answers,
   state        |-> q.state]

KnownSchema(q) == IF q.name \in Tools THEN known[q.name] ELSE Unknown

\* dispatch_modern builds the envelope and posts it.
Send(c) ==
  /\ queued[c] # None
  /\ Arrive(c, Envelope(queued[c].method, Body(queued[c]), KnownSchema(queued[c])))
  /\ queued' = [queued EXCEPT ![c] = None]
  /\ built' = [built EXCEPT ![c] = learnt]
  /\ UNCHANGED <<deployed, legacy, roundVars, attempt, known, learnt, wants, others>>

\* A stream that broke before its answer: the same envelope under a new id.
Reissue(c) ==
  /\ post[c].stage = "broken" /\ attempt[c] < MaxStreamRetries
  /\ Arrive(c, post[c].req)
  /\ attempt' = [attempt EXCEPT ![c] = @ + 1]
  /\ UNCHANGED <<deployed, legacy, roundVars, queued, known, learnt, built, wants, others>>

Arrived(c) ==
  \/ post[c].stage \in {"replied", "lost"}
  \/ post[c].stage = "broken" /\ attempt[c] = MaxStreamRetries

KeptFirst(seen, listed) ==
  [t \in Tools |-> IF seen[t] = Unknown /\ t \in DOMAIN listed THEN listed[t].schema ELSE seen[t]]

\* record_listing: what is listed replaces what was known; nothing is pruned.
Recorded(seen, listed) ==
  [t \in Tools |-> IF t \in DOMAIN listed THEN listed[t].schema ELSE seen[t]]

\* observe() sees the result of a listing, also one whose call gave up.
Observe(c) ==
  IF post[c].stage = "replied" /\ post[c].req.method = List /\ post[c].code = "ok"
  THEN /\ known' = Recorded(known, Deployments[post[c].by])
       /\ learnt' = post[c].by
  ELSE UNCHANGED <<known, learnt>>

\* The end of a POST: an error, whatever its status, or a result, for the call
\* if it still waits.
Collect(c) ==
  /\ Arrived(c)
  /\ Observe(c)
  /\ IF pc[c] # "asking" THEN UNCHANGED roundVars
     ELSE IF post[c].stage = "replied" /\ post[c].code = "ok"
     THEN Rounds!Heard(c, post[c].result)
     ELSE Rounds!Failed(c)
  /\ IF pc'[c] = "done" THEN Dropped(c) ELSE UNCHANGED wants
  /\ post' = [post EXCEPT ![c] = NoPost]
  /\ attempt' = [attempt EXCEPT ![c] = 0]
  /\ built' = [built EXCEPT ![c] = 0]
  /\ UNCHANGED <<deployed, legacy, queued, others>>

-----------------------------------------------------------------------------
(* The server, and its other peers. *)

ServerStep(A) == A /\ UNCHANGED <<roundVars, wireVars, wants, others>>

\* Bound: the other peers come last.  They share with the calls the registries
\* and what the stateful requests left, and no call looks at the latter.
Ask(r) ==
  /\ others < MaxOthers /\ post[Other].stage = "none"
  /\ \A c \in Calls : pc[c] = "done" /\ queued[c] = None /\ post[c].stage = "none"
  /\ Arrive(Other, r)
  /\ others' = others + 1
  /\ UNCHANGED <<deployed, legacy, roundVars, wireVars, wants>>

Leave ==
  /\ post[Other].stage \in {"replied", "lost", "broken"}
  /\ post' = [post EXCEPT ![Other] = NoPost]
  /\ UNCHANGED <<deployed, legacy, roundVars, wireVars, wants, others>>

\* What the handler of a slot may return: input is asked for only of a peer
\* that said it can be asked, and with a state of this deployment.
Returned(s) ==
  \/ \E result \in Results : Return(s, "ok",
       IF result = None \/ post[s].req.method = List THEN None
       ELSE [questions |-> result.questions,
             state |-> IF result.stateful THEN [by |-> post[s].by] ELSE None])
  \/ Return(s, "internal", None)

ExchangeNext ==
  \/ \E c \in Calls : Begin(c) \/ Answer(c) \/ GiveUp(c) \/ Send(c) \/ Reissue(c) \/ Collect(c)
  \/ \E s \in Slots : ServerStep(Open(s) \/ Dispatch(s) \/ Returned(s) \/ Cut(s))
  \/ ServerStep(Redeploy)
  \/ \E r \in Requests : Ask(r)
  \/ Leave

ExchangeSpec == ExchangeInit /\ [][ExchangeNext]_exchangeVars

\* The application's handlers of input return and the timer of a call runs;
\* neither the network nor the server is relied on.
ExchangeFairSpec ==
  /\ ExchangeSpec
  /\ \A c \in Calls : WF_exchangeVars(Answer(c) \/ GiveUp(c))

-----------------------------------------------------------------------------
(* Properties. *)

\* What the crate's client sends, the crate's server takes: it is refused over
\* its headers only when the tools changed since they were listed, and never
\* for what its body lacks (http_modern.rs:303-310, validate.rs:102-256).
Passes(c) ==
  post[c].stage = "replied" /\ post[c].status = 400 =>
    \/ post[c].code = "mismatch" /\ built[c] # post[c].by
    \/ post[c].code = "missing_capability"

OwnRequestsPass == \A c \in Calls : Passes(c)

\* A request refused for what it says of itself was never executed, and is
\* refused with its 400 even where the tool would have streamed; one from where
\* the server does not serve is refused whatever it asks
\* (server/mod.rs:407-413, handler.rs:115-118, origin.rs:104-122).
Seen(s) ==
  /\ post[s].stage # "none" /\ ~Welcome(post[s].req.door) => ~post[s].streamed /\ ~post[s].ran
  /\ (/\ post[s].stage = "replied" /\ post[s].code \in {"mismatch", "missing_capability"}
      /\ PresentsAsModern(post[s].req) /\ post[s].req.id)
      => post[s].status = 400 /\ ~post[s].ran

RefusalIsSeen == \A s \in Slots : Seen(s)

\* Each round carries the state and answers to the questions of the round
\* before, and nothing of an earlier one (driver.rs:110-138).
Last(c) == IF round[c] = 1 THEN [questions |-> {}, state |-> None] ELSE asked[c]

Carries(c, sent) ==
  /\ sent.state = Last(c).state
  /\ sent.answers \subseteq Last(c).questions
  /\ Last(c).questions \ sent.answers \subseteq Optional

CarriesTheLastRound ==
  \A c \in Calls : pc[c] = "asking" /\ post[c].stage # "none" => Carries(c, post[c].req.body)

\* A call ends, however often the server asks for input, whatever is lost.
Ended == \A c \in Calls : pc[c] \in {"idle", "done"}
EveryExchangeEnds == ~Ended ~> Ended

-----------------------------------------------------------------------------
(* The inductive invariant behind the safety properties above. *)

\* A POST, once it has arrived.
IsPost(p) ==
  p \in [stage : {"arrived", "open", "running", "replied", "broken", "lost"},
         req : {p.req}, streamed : {p.streamed}, ran : {p.ran}, code : {p.code},
         result : {p.result}, status : {p.status}, by : DOMAIN Deployments]

ExchangeTypeOK ==
  /\ deployed \in DOMAIN Deployments
  /\ post = [s \in Slots |-> post[s]]
  /\ \A s \in Slots : post[s] = NoPost \/ IsPost(post[s])
  /\ pc \in [Calls -> {"idle", "asking", "answering", "done"}]
  /\ round \in [Calls -> 0 .. MaxInputRounds]
  /\ sends = [c \in Calls |-> sends[c]] /\ asked = [c \in Calls |-> asked[c]]
  /\ handler \in BOOLEAN
  /\ wants = [c \in Calls |-> wants[c]] /\ queued = [c \in Calls |-> queued[c]]
  /\ built = [c \in Calls |-> built[c]]
  /\ known = [t \in Tools |-> known[t]]

\* A POST still to be answered is with the deployment that took it; one before its
\* dispatch has run nothing, and has a stream if it is to have one.
Stands(s) ==
  LET p == post[s] IN
  /\ p.stage \in {"arrived", "open", "running"} => p.by = deployed
  /\ p.stage = "arrived" => ~p.streamed /\ ~p.ran
  /\ p.stage = "open" => p.streamed /\ ~p.ran /\ NeedsStream(p.req)

\* What a connection knows of a tool is what the deployment it listed last says.
KnownTrue ==
  learnt # 0 =>
    /\ learnt \in DOMAIN Deployments
    /\ \A t \in DOMAIN Deployments[learnt] : known[t] = Deployments[learnt][t].schema

\* A POST of a call is an envelope, made by what was known when it was built.
Enveloped(c) ==
  LET r == post[c].req IN
  post[c].stage # "none" =>
    /\ r.door = Posted
    /\ r.headers.version = "modern" /\ r.body.version = "modern"
    /\ r.body.capabilities # None
    /\ r.headers.method = r.method
    /\ RequiresName(r.method) =>
         r.body.name \in Tools \cup Prompts /\ r.headers.name = Encode(r.body.name)
    /\ r.method = Call /\ built[c] # 0 =>
         \A t \in DOMAIN Deployments[built[c]] :
           t = r.body.name =>
             r.headers.params = Promote(Deployments[built[c]][t].schema, r.body.args)

\* A call that was not answered has one request out, queued or posted, with what
\* its round sends; that answers what the last round asked.
RoundTrue(c) ==
  /\ queued[c] # None =>
       /\ post[c].stage = "none"
       /\ RequiresName(queued[c].method) => queued[c].name \in Tools \cup Prompts
  /\ pc[c] = "idle" => sends[c] = Rounds!Plain
  /\ pc[c] \in {"idle", "answering"} => queued[c] = None /\ post[c].stage = "none"
  /\ pc[c] \in {"asking", "answering"} =>
       round[c] # 0 /\ (RequiresName(wants[c].method) => wants[c].name \in Tools \cup Prompts)
  /\ pc[c] = "answering" => round[c] # MaxInputRounds
  /\ pc[c] = "asking" =>
       /\ Carries(c, sends[c])
       /\ queued[c] # None => Carries(c, queued[c])

ExchangeInv ==
  /\ ExchangeTypeOK /\ KnownTrue
  /\ \A s \in Slots : Stands(s) /\ Seen(s)
  /\ \A c \in Calls : Enveloped(c) /\ Passes(c) /\ RoundTrue(c)
  /\ CarriesTheLastRound
=============================================================================
