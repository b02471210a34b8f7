----------------------------- MODULE Exchange_proofs -----------------------------
(***************************************************************************)
(* Proofs about Exchange, for any calls, tools, schemas, deployments and   *)
(* peers, and any bounds.                                                  *)
(***************************************************************************)
EXTENDS Exchange, TLAPS

Names == Tools \cup Prompts

-----------------------------------------------------------------------------
(* What is mirrored. *)

\* What the client encodes the server decodes (header_params.rs, validate.rs).
LEMMA Mirroring ==
  ASSUME NEW v
  PROVE  Decode(Encode(v)) = v
<1>1. CASE v \in {Spaced, Wrapped}
  <2>1. Encode(v) = [form |-> "base64", text |-> v]
    BY <1>1 DEF Encode
  <2> QED
    BY <2>1 DEF Decode
<1>2. CASE v \notin {Spaced, Wrapped}
  <2>1. Encode(v) = [form |-> "plain", text |-> v]
    BY <1>2 DEF Encode
  <2>2. Encode(v).form # "base64" /\ Encode(v).text = v
    BY <2>1
  <2> QED
    BY <1>2, <2>2 DEF Decode
<1> QED
  BY <1>1, <1>2

\* A name's header is a header.
LEMMA NameHeader ==
  ASSUME NEW v \in Names
  PROVE  Encode(v) # None /\ v # None
<1>1. Encode(v) \in [form : {"plain", "base64"}, text : Tools \cup Prompts]
  BY DEF Encode, Names
<1> QED
  BY <1>1, NamesAssumption DEF Names

\* Headers made from the schema the server has agree with the body.
LEMMA Agreeing ==
  ASSUME NEW r, NEW schema,
         r.headers.method = r.method, r.headers.version = r.body.version,
         RequiresName(r.method) => r.body.name \in Names /\ r.headers.name = Encode(r.body.name),
         r.method = Call => r.headers.params = Promote(schema, r.body.args)
  PROVE  ~Disagrees(r, schema)
<1>1. ~Misnamed(r)
  BY NameHeader, Mirroring DEF Misnamed
<1>2. ~MisPromoted(r, schema)
  <2>1. SUFFICES ASSUME r.method = Call, NEW p \in Extract(schema, r.body.args)
                 PROVE  Mirrored(r, p)
    BY DEF MisPromoted
  <2>2. [name |-> p.name, sent |-> Encode(p.value)] \in r.headers.params
    BY <2>1 DEF Promote
  <2> QED
    BY <2>2, Mirroring DEF Mirrored
<1> QED
  BY <1>1, <1>2 DEF Disagrees

\* Such headers are refused only over the parameters of a tool.
LEMMA RefusedOverParameters ==
  ASSUME NEW r, NEW schema, r.headers.method = r.method,
         r.headers.version = "modern", r.body.version = "modern", r.body.capabilities # None,
         RequiresName(r.method) => r.body.name \in Names /\ r.headers.name = Encode(r.body.name),
         Check(r, schema) # None
  PROVE  Check(r, schema) = "mismatch" /\ r.method = Call /\ MisPromoted(r, schema)
<1>1. ~Misnamed(r)
  BY NameHeader, Mirroring DEF Misnamed
<1>2. ~MissingMeta(r)
  BY NamesAssumption DEF MissingMeta
<1>3. RequiresName(r.method) => r.body.name # None
  BY NameHeader
<1> QED
  BY <1>1, <1>2, <1>3 DEF Check, Disagrees, MisPromoted

-----------------------------------------------------------------------------
(* What a request comes to. *)

\* A dispatch never speaks of headers, and of capabilities and versions only when
\* it has reason to.
LEMMA Dispatching ==
  ASSUME NEW r, NEW streamed
  PROVE  LET code == Dispatched(r, streamed) IN
         /\ code # "mismatch"
         /\ code = "missing_capability" => Missing(r) # {}
         /\ code = "unsupported" => ~Supported(r)
<1>1. CASE r.method = None
  BY <1>1, Zenon DEF Dispatched
<1>2. CASE r.method # None /\ r.method \in Overridden
  <2>1. Dispatched(r, streamed) = "runs"
    BY <1>2 DEF Dispatched
  <2> QED
    BY <2>1
<1>3. CASE r.method # None /\ r.method \notin Overridden /\ r.id /\ ~Supported(r)
  <2>1. Dispatched(r, streamed) = "unsupported"
    BY <1>3 DEF Dispatched
  <2> QED
    BY <1>3, <2>1
<1>4. CASE r.method # None /\ r.method \notin Overridden /\ ~(r.id /\ ~Supported(r))
  BY <1>4 DEF Dispatched
<1> QED
  BY <1>1, <1>2, <1>3, <1>4

\* A call that gets a stream lacks no capability.
LEMMA StreamsLackNothing ==
  ASSUME NEW r, NeedsStream(r)
  PROVE  Missing(r) = {}
BY DEF NeedsStream, Missing, Listen, Call

\* Who sees a 400, and over what.
LEMMA Refusing ==
  ASSUME NEW r, NEW code, NEW streamed
  PROVE  /\ Status(r, code, streamed) = 400 =>
              ~streamed /\ code \in {"mismatch", "unsupported", "missing_capability"}
         /\ code = "missing_capability" /\ ~streamed /\ r.id /\ PresentsAsModern(r) =>
              Status(r, code, streamed) = 400
BY DEF Status

-----------------------------------------------------------------------------
(* The server. *)

\* The changes a POST goes through change its fields.
LEMMA StageMoves ==
  ASSUME NEW q, IsPost(q), NEW stage \in {"running", "open", "replied", "broken", "lost"},
         NEW p, p = [q EXCEPT !.stage = stage]
  PROVE  /\ IsPost(p) /\ p.req = q.req /\ p.by = q.by /\ p.streamed = q.streamed
         /\ p.ran = q.ran /\ p.stage = stage /\ p.code = q.code /\ p.status = q.status
BY DEF IsPost

\* A refusal before the dispatch.
TurnedAway(q, code, status) ==
  [q EXCEPT !.stage = "replied", !.code = code, !.status = status]

\* It changes what is told and nothing else.
LEMMA TurnMoves ==
  ASSUME NEW q, IsPost(q), NEW code, NEW status, NEW p, p = TurnedAway(q, code, status)
  PROVE  /\ IsPost(p) /\ p.req = q.req /\ p.by = q.by /\ p.streamed = q.streamed
         /\ p.ran = q.ran /\ p.stage = "replied" /\ p.code = code /\ p.status = status
BY DEF IsPost, TurnedAway

LEMMA StreamMoves ==
  ASSUME NEW q, IsPost(q), NEW p, p = [q EXCEPT !.stage = "open", !.streamed = TRUE]
  PROVE  /\ IsPost(p) /\ p.req = q.req /\ p.by = q.by /\ p.streamed = TRUE
         /\ p.ran = q.ran /\ p.stage = "open"
BY DEF IsPost

LEMMA RunMoves ==
  ASSUME NEW q, IsPost(q), NEW p, p = [q EXCEPT !.stage = "running", !.ran = TRUE]
  PROVE  IsPost(p) /\ p.req = q.req /\ p.by = q.by /\ p.stage = "running"
BY DEF IsPost

LEMMA ReplyMoves ==
  ASSUME NEW q, IsPost(q), NEW code, NEW result, NEW p, p = Replied(q, code, result)
  PROVE  /\ IsPost(p) /\ p.req = q.req /\ p.by = q.by /\ p.streamed = q.streamed
         /\ p.ran = q.ran /\ p.stage = "replied" /\ p.code = code
         /\ p.status = Status(q.req, code, q.streamed)
BY DEF IsPost, Replied

\* What a slot holds after one of its steps, and the others as they were.
LEMMA SlotMoves ==
  ASSUME ExchangeTypeOK, NEW s \in Slots, NEW p, post' = [post EXCEPT ![s] = p]
  PROVE  /\ post'[s] = p
         /\ \A u \in Slots \ {s} : post'[u] = post[u]
         /\ post' = [u \in Slots |-> post'[u]]
BY DEF ExchangeTypeOK

\* A POST that is under way or answered has the shape of one.
LEMMA Held ==
  ASSUME ExchangeTypeOK, NEW s \in Slots, post[s].stage # "none"
  PROVE  IsPost(post[s])
BY DEF ExchangeTypeOK, IsPost, NoPost

\* What a step of the server on one POST comes to.
Kept(s) ==
  /\ post[s].stage # "none" /\ IsPost(post'[s])
  /\ post'[s].req = post[s].req /\ post'[s].by = post[s].by
  /\ \A u \in Slots \ {s} : post'[u] = post[u]
  /\ post' = [u \in Slots |-> post'[u]]
  /\ Stands(s)' /\ Seen(s)' /\ (s \in Calls => Passes(s)')

\* A message that is dispatched is answered, or its handler runs.
LEMMA HandlesStep ==
  ASSUME ExchangeInv, NEW s \in Slots, Handles(s), UNCHANGED deployed,
         post[s].stage \in {"arrived", "open"}, Welcome(post[s].req.door)
  PROVE  Kept(s)
<1>1. PICK q : q = post[s]
  OBVIOUS
<1>2. PICK code : code = Dispatched(q.req, q.streamed)
  OBVIOUS
<1>3. ExchangeTypeOK /\ IsPost(q) /\ Stands(s) /\ q.by = deployed /\ ~q.ran
  BY <1>1, Held DEF ExchangeInv, Stands
<1>4. PICK p : p = Handled(q, code)
  OBVIOUS
<1>5. post' = [post EXCEPT ![s] = p]
  BY <1>1, <1>2, <1>4 DEF Handles
<1>6. /\ post'[s] = p /\ \A u \in Slots \ {s} : post'[u] = post[u]
      /\ post' = [u \in Slots |-> post'[u]]
  BY <1>3, <1>5, SlotMoves
<1>7. CASE code = "runs"
  <2>1. p = [q EXCEPT !.stage = "running", !.ran = TRUE]
    BY <1>4, <1>7 DEF Handled
  <2>2. IsPost(p) /\ p.req = q.req /\ p.by = q.by /\ p.stage = "running"
    BY <1>3, <2>1, RunMoves
  <2> QED
    BY <1>1, <1>3, <1>6, <2>2 DEF Kept, Stands, Seen, Passes
<1>8. CASE code # "runs"
  <2>1. p = Replied(q, code, None)
    BY <1>4, <1>8 DEF Handled
  <2>2. /\ IsPost(p) /\ p.req = q.req /\ p.by = q.by /\ p.stage = "replied"
        /\ p.ran = q.ran /\ p.code = code /\ p.streamed = q.streamed
        /\ p.status = Status(q.req, code, q.streamed)
    BY <1>3, <2>1, ReplyMoves
  <2>3. /\ code # "mismatch"
        /\ code = "missing_capability" => Missing(q.req) # {}
        /\ code = "unsupported" => ~Supported(q.req)
    BY <1>2, Dispatching
  <2>4. code = "missing_capability" => ~q.streamed
    BY <1>1, <1>3, <2>3, StreamsLackNothing DEF Stands
  <2>5. Seen(s)'
    <3>1. code = "missing_capability" /\ PresentsAsModern(q.req) /\ q.req.id =>
            Status(q.req, code, q.streamed) = 400
      BY <2>4, Refusing
    <3> QED
      BY <1>1, <1>3, <1>6, <2>2, <2>3, <3>1 DEF Seen
  <2>6. ASSUME s \in Calls
        PROVE  Passes(s)'
    <3>1. q.req.body.version = "modern"
      BY <1>1, <2>6 DEF ExchangeInv, Enveloped
    <3>2. Supported(q.req)
      BY <3>1 DEF Supported
    <3>3. Status(q.req, code, q.streamed) = 400 =>
            code \in {"mismatch", "unsupported", "missing_capability"}
      BY Refusing
    <3>4. p.status = 400 => code = "missing_capability"
      BY <2>2, <2>3, <3>2, <3>3
    <3> QED
      BY <1>6, <2>2, <3>4 DEF Passes
  <2> QED
    BY <1>1, <1>6, <2>2, <2>5, <2>6 DEF Kept, Stands
<1> QED
  BY <1>7, <1>8

\* What is not turned away is welcome.
LEMMA NotTurned ==
  ASSUME NEW door, Turned(door) = 0
  PROVE  Welcome(door)
BY DEF Turned

\* A client of the crate is not turned away from the endpoint it was given.
LEMMA PostedIsServed == Turned(Posted) = 0
BY ExchangeAssumption DEF Turned, Posted, Welcome

\* What a server with the schema it was built from refuses nothing.
LEMMA RefusedIsStale ==
  ASSUME ExchangeInv, NEW c \in Calls, post[c].stage = "arrived",
         Check(post[c].req, SchemaOf(post[c].req)) # None
  PROVE  Check(post[c].req, SchemaOf(post[c].req)) = "mismatch" /\ built[c] # post[c].by
<1>1. PICK r : r = post[c].req
  OBVIOUS
<1>2. PICK schema : schema = SchemaOf(r)
  OBVIOUS
<1>3. /\ r.headers.method = r.method
      /\ r.headers.version = "modern" /\ r.body.version = "modern" /\ r.body.capabilities # None
      /\ RequiresName(r.method) => r.body.name \in Names /\ r.headers.name = Encode(r.body.name)
  BY <1>1 DEF ExchangeInv, Enveloped, Names
<1>4. Check(r, schema) = "mismatch" /\ r.method = Call /\ MisPromoted(r, schema)
  BY <1>1, <1>2, <1>3, RefusedOverParameters
<1>5. post[c].by = deployed /\ deployed \in DOMAIN Deployments
  BY ExchangeAssumption DEF ExchangeInv, Stands, ExchangeTypeOK
<1>6. ASSUME built[c] = deployed
      PROVE  FALSE
  <2>1. r.body.name \in DOMAIN Registered
    <3>1. schema # Unknown
      BY <1>4 DEF MisPromoted, Extract
    <3> QED
      BY <1>2, <3>1 DEF SchemaOf
  <2>2. schema = Deployments[deployed][r.body.name].schema
    BY <1>2, <1>4, <2>1 DEF SchemaOf, Registered
  <2>3. built[c] # 0
    BY <1>5, <1>6, ServerAssumption
  <2>4. r.headers.params = Promote(schema, r.body.args)
    BY <1>1, <1>4, <1>6, <2>1, <2>2, <2>3 DEF ExchangeInv, Enveloped, Registered
  <2>5. ~Disagrees(r, schema)
    BY <1>3, <2>4, Agreeing
  <2> QED
    BY <1>4, <2>5 DEF Disagrees
<1> QED
  BY <1>1, <1>2, <1>4, <1>5, <1>6

\* A POST that arrived is turned away, refused, given a stream, or dispatched.
LEMMA OpenStep ==
  ASSUME ExchangeInv, NEW s \in Slots, Open(s), UNCHANGED wireVars
  PROVE  Kept(s)
<1>1. PICK q : q = post[s]
  OBVIOUS
<1>2. PICK refusal : refusal = IF PresentsAsModern(q.req) THEN Check(q.req, SchemaOf(q.req)) ELSE None
  OBVIOUS
<1>3. ExchangeTypeOK /\ q.stage = "arrived" /\ UNCHANGED deployed
  BY <1>1 DEF ExchangeInv, Open
<1>4. IsPost(q) /\ Stands(s) /\ q.by = deployed /\ ~q.ran /\ ~q.streamed
  BY <1>1, <1>3, Held DEF ExchangeInv, Stands
<1>5. CASE Turned(q.req.door) # 0
  <2>1. PICK p : p = TurnedAway(q, "turned", Turned(q.req.door))
    OBVIOUS
  <2>2. post' = [post EXCEPT ![s] = p]
    BY <1>1, <1>5, <2>1 DEF Open, TurnedAway
  <2>3. /\ post'[s] = p /\ \A u \in Slots \ {s} : post'[u] = post[u]
        /\ post' = [u \in Slots |-> post'[u]]
    BY <1>3, <2>2, SlotMoves
  <2>4. /\ IsPost(p) /\ p.req = q.req /\ p.by = q.by /\ p.streamed = q.streamed
        /\ p.ran = q.ran /\ p.stage = "replied" /\ p.code = "turned"
    BY <1>4, <2>1, TurnMoves
  <2>5. s \notin Calls
    BY <1>1, <1>3, <1>5, PostedIsServed DEF ExchangeInv, Enveloped
  <2> QED
    BY <1>1, <1>3, <1>4, <2>3, <2>4, <2>5 DEF Kept, Stands, Seen
<1>6. CASE Turned(q.req.door) = 0 /\ refusal # None
  <2>1. PICK p : p = TurnedAway(q, refusal, 400)
    OBVIOUS
  <2>2. post' = [post EXCEPT ![s] = p]
    <3>1. post' = [post EXCEPT ![s].stage = "replied", ![s].code = refusal, ![s].status = 400]
      BY <1>1, <1>2, <1>6, Zenon DEF Open
    <3> QED
      BY <1>1, <2>1, <3>1 DEF TurnedAway
  <2>3. /\ post'[s] = p /\ \A u \in Slots \ {s} : post'[u] = post[u]
        /\ post' = [u \in Slots |-> post'[u]]
    BY <1>3, <2>2, SlotMoves
  <2>4. /\ IsPost(p) /\ p.req = q.req /\ p.by = q.by /\ p.streamed = q.streamed
        /\ p.ran = q.ran /\ p.stage = "replied" /\ p.code = refusal /\ p.status = 400
    BY <1>4, <2>1, TurnMoves
  <2>5. ASSUME s \in Calls
        PROVE  refusal = "mismatch" /\ built[s] # post[s].by
    BY <1>1, <1>2, <1>3, <1>6, <2>5, RefusedIsStale
  <2>6. Stands(s)' /\ Seen(s)'
    BY <1>3, <1>4, <2>3, <2>4 DEF Stands, Seen
  <2>7. ASSUME s \in Calls
        PROVE  Passes(s)'
    <3>1. UNCHANGED built
      BY DEF wireVars
    <3> QED
      BY <1>1, <2>3, <2>4, <2>5, <2>7, <3>1 DEF Passes
  <2> QED
    BY <1>1, <1>3, <2>3, <2>4, <2>6, <2>7 DEF Kept
<1>7. CASE Turned(q.req.door) = 0 /\ refusal = None /\ NeedsStream(q.req) /\ q.req.accepts
  <2>1. PICK p : p = [q EXCEPT !.stage = "open", !.streamed = TRUE]
    OBVIOUS
  <2>2. post' = [post EXCEPT ![s] = p]
    BY <1>1, <1>2, <1>7, <2>1 DEF Open
  <2>3. /\ post'[s] = p /\ \A u \in Slots \ {s} : post'[u] = post[u]
        /\ post' = [u \in Slots |-> post'[u]]
    BY <1>3, <2>2, SlotMoves
  <2>4. /\ IsPost(p) /\ p.req = q.req /\ p.by = q.by /\ p.streamed = TRUE
        /\ p.ran = q.ran /\ p.stage = "open"
    BY <1>4, <2>1, StreamMoves
  <2>5. Welcome(q.req.door)
    BY <1>7, NotTurned
  <2>6. NeedsStream(q.req)'
    BY <1>3, <1>7 DEF NeedsStream, Missing, Interactive, Registered
  <2> QED
    BY <1>1, <1>3, <1>4, <2>3, <2>4, <2>5, <2>6 DEF Kept, Stands, Seen, Passes
<1>8. CASE Turned(q.req.door) = 0 /\ refusal = None /\ ~(NeedsStream(q.req) /\ q.req.accepts)
  <2>1. Handles(s)
    BY <1>1, <1>2, <1>8 DEF Open
  <2> QED
    BY <1>1, <1>3, <1>8, <2>1, NotTurned, HandlesStep
<1> QED
  BY <1>5, <1>6, <1>7, <1>8

\* What was given a stream came from where the server serves.
LEMMA DispatchStep ==
  ASSUME ExchangeInv, NEW s \in Slots, Dispatch(s)
  PROVE  Kept(s)
<1>1. Handles(s) /\ UNCHANGED deployed /\ post[s].stage = "open"
  BY DEF Dispatch
<1>2. Welcome(post[s].req.door)
  BY <1>1 DEF ExchangeInv, Stands, Seen
<1> QED
  BY <1>1, <1>2, HandlesStep

\* No handler answers with a refusal of the protocol's.
LEMMA ReturnStep ==
  ASSUME ExchangeInv, NEW s \in Slots, NEW code \in {"ok", "internal"}, NEW result,
         Return(s, code, result)
  PROVE  Kept(s)
<1>1. PICK q : q = post[s]
  OBVIOUS
<1>2. ExchangeTypeOK /\ q.stage = "running" /\ UNCHANGED deployed
  BY <1>1 DEF ExchangeInv, Return
<1>3. IsPost(q)
  BY <1>1, <1>2, Held
<1>4. PICK p : p = Replied(q, code, result)
  OBVIOUS
<1>5. post' = [post EXCEPT ![s] = p]
  BY <1>1, <1>4 DEF Return
<1>6. /\ post'[s] = p /\ \A u \in Slots \ {s} : post'[u] = post[u]
      /\ post' = [u \in Slots |-> post'[u]]
  BY <1>2, <1>5, SlotMoves
<1>7. /\ IsPost(p) /\ p.req = q.req /\ p.by = q.by /\ p.streamed = q.streamed
      /\ p.ran = q.ran /\ p.stage = "replied" /\ p.code = code
      /\ p.status = Status(q.req, code, q.streamed)
  BY <1>3, <1>4, ReplyMoves
<1>8. p.status # 400
  BY <1>7, Refusing
<1>9. Seen(s)'
  BY <1>1, <1>2, <1>6, <1>7 DEF ExchangeInv, Seen
<1> QED
  BY <1>1, <1>2, <1>6, <1>7, <1>8, <1>9 DEF Kept, Stands, Passes

\* A broken connection tells nobody anything.
LEMMA CutStep ==
  ASSUME ExchangeInv, NEW s \in Slots, Cut(s)
  PROVE  Kept(s)
<1>1. PICK q : q = post[s]
  OBVIOUS
<1>2. ExchangeTypeOK /\ q.stage \in {"arrived", "open", "running"} /\ UNCHANGED deployed
  BY <1>1 DEF ExchangeInv, Cut
<1>3. IsPost(q)
  BY <1>1, <1>2, Held
<1>4. PICK stage \in {"running", "open", "replied", "broken", "lost"} :
        stage \in {"broken", "lost"} /\ stage = IF q.streamed THEN "broken" ELSE "lost"
  OBVIOUS
<1>5. PICK p : p = [q EXCEPT !.stage = stage]
  OBVIOUS
<1>6. post' = [post EXCEPT ![s] = p]
  BY <1>1, <1>4, <1>5 DEF Cut
<1>7. /\ post'[s] = p /\ \A u \in Slots \ {s} : post'[u] = post[u]
      /\ post' = [u \in Slots |-> post'[u]]
  BY <1>2, <1>6, SlotMoves
<1>8. /\ IsPost(p) /\ p.req = q.req /\ p.by = q.by /\ p.streamed = q.streamed
      /\ p.ran = q.ran /\ p.stage = stage
  BY <1>3, <1>5, StageMoves
<1>9. Seen(s)'
  BY <1>1, <1>2, <1>4, <1>7, <1>8 DEF ExchangeInv, Seen
<1> QED
  BY <1>1, <1>2, <1>4, <1>7, <1>8, <1>9 DEF Kept, Stands, Passes

\* A step of the server on one POST leaves calls, and the other POSTs, as they were.
LEMMA ServerKeeps ==
  ASSUME ExchangeInv, NEW s \in Slots, Kept(s),
         UNCHANGED <<deployed, roundVars, wireVars, wants>>
  PROVE  ExchangeInv'
<1>1. /\ UNCHANGED <<deployed, pc, round, sends, asked, handler>>
      /\ UNCHANGED <<queued, attempt, known, learnt, built, wants>>
  BY DEF roundVars, wireVars
<1>2. \A u \in Slots \ {s} : post'[u] = post[u]
  BY DEF Kept
<1>3. ExchangeTypeOK'
  <2>1. \A u \in Slots : (post[u] = NoPost \/ IsPost(post[u]))'
    BY <1>2 DEF ExchangeInv, ExchangeTypeOK, Kept, IsPost, NoPost
  <2> QED
    BY <1>1, <2>1 DEF ExchangeInv, ExchangeTypeOK, Kept
<1>4. KnownTrue'
  BY <1>1 DEF ExchangeInv, KnownTrue
<1>5. \A u \in Slots : Stands(u)' /\ Seen(u)'
  <2>1. SUFFICES ASSUME NEW u \in Slots, u # s PROVE Stands(u)' /\ Seen(u)'
    BY DEF Kept
  <2>2. post'[u] = post[u] /\ UNCHANGED deployed
    BY <1>1, <1>2, <2>1
  <2>3. Stands(u) /\ Seen(u)
    BY DEF ExchangeInv
  <2>4. UNCHANGED Registered
    BY <2>2 DEF Registered
  <2> QED
    BY <2>2, <2>3, <2>4 DEF Stands, Seen, NeedsStream, Missing, Interactive
<1>6. \A c \in Calls : c \in Slots /\ (post'[c].stage = "none" <=> post[c].stage = "none")
                        /\ (post[c].stage # "none" => post'[c].req = post[c].req)
  BY <1>2, ExchangeAssumption DEF Kept, IsPost
<1>7. \A c \in Calls : Enveloped(c)' /\ RoundTrue(c)'
  <2>1. SUFFICES ASSUME NEW c \in Calls PROVE Enveloped(c)' /\ RoundTrue(c)'
    OBVIOUS
  <2>2. Enveloped(c)'
    BY <1>1, <1>6 DEF ExchangeInv, Enveloped
  <2>3. RoundTrue(c)'
    BY <1>1, <1>6 DEF ExchangeInv, RoundTrue, Carries, Last
  <2> QED
    BY <2>2, <2>3
<1>8. \A c \in Calls : Passes(c)'
  BY <1>1, <1>2, <1>6 DEF ExchangeInv, Passes, Kept
<1>9. CarriesTheLastRound'
  BY <1>1, <1>6 DEF ExchangeInv, CarriesTheLastRound, Carries, Last
<1> QED
  BY <1>3, <1>4, <1>5, <1>7, <1>8, <1>9 DEF ExchangeInv

\* A new deployment finds only POSTs that are over.
LEMMA RedeployStep ==
  ASSUME ExchangeInv, Redeploy, UNCHANGED <<roundVars, wireVars, wants>>
  PROVE  ExchangeInv'
<1>1. /\ UNCHANGED <<pc, round, sends, asked, handler>>
      /\ UNCHANGED <<queued, attempt, known, learnt, built, wants>>
  BY DEF roundVars, wireVars
<1>2. deployed' \in DOMAIN Deployments
  BY ServerAssumption DEF Redeploy, ExchangeInv, ExchangeTypeOK
<1>3. ASSUME NEW s \in Slots
      PROVE  \/ post'[s] = post[s] /\ post[s].stage \notin {"arrived", "open", "running"}
             \/ /\ post[s].stage \in {"arrived", "open", "running"} /\ IsPost(post'[s])
                /\ post'[s].stage \in {"broken", "lost"} /\ post'[s].req = post[s].req
                /\ post'[s].streamed = post[s].streamed /\ post'[s].ran = post[s].ran
  <2>1. CASE post[s].stage \notin {"arrived", "open", "running"}
    BY <2>1 DEF Redeploy
  <2>2. CASE post[s].stage \in {"arrived", "open", "running"}
    <3>1. PICK q : q = post[s]
      OBVIOUS
    <3>2. PICK stage \in {"running", "open", "replied", "broken", "lost"} :
            stage \in {"broken", "lost"} /\ stage = IF q.streamed THEN "broken" ELSE "lost"
      OBVIOUS
    <3>3. PICK p : p = [q EXCEPT !.stage = stage]
      OBVIOUS
    <3>4. post'[s] = p
      BY <2>2, <3>1, <3>2, <3>3 DEF Redeploy
    <3>5. IsPost(q)
      BY <2>2, <3>1, Held DEF ExchangeInv
    <3>6. /\ IsPost(p) /\ p.req = q.req /\ p.streamed = q.streamed /\ p.ran = q.ran
          /\ p.stage = stage
      BY <3>3, <3>5, StageMoves
    <3> QED
      BY <2>2, <3>1, <3>2, <3>4, <3>6
  <2> QED
    BY <2>1, <2>2
<1>4. ExchangeTypeOK'
  <2>1. post' = [s \in Slots |-> post'[s]]
    BY DEF Redeploy
  <2>2. \A s \in Slots : (post[s] = NoPost \/ IsPost(post[s]))'
    BY <1>3 DEF ExchangeInv, ExchangeTypeOK, IsPost
  <2> QED
    BY <1>1, <1>2, <2>1, <2>2 DEF ExchangeInv, ExchangeTypeOK
<1>5. KnownTrue'
  BY <1>1 DEF ExchangeInv, KnownTrue
<1>6. \A s \in Slots : Stands(s)' /\ Seen(s)'
  <2>1. SUFFICES ASSUME NEW s \in Slots PROVE Stands(s)' /\ Seen(s)'
    OBVIOUS
  <2>2. Seen(s)
    BY DEF ExchangeInv
  <2> QED
    BY <1>3, <2>2 DEF Stands, Seen
<1>7. \A c \in Calls : c \in Slots /\ (post'[c].stage = "none" <=> post[c].stage = "none")
                        /\ (post[c].stage # "none" => post'[c].req = post[c].req)
  BY <1>3, ExchangeAssumption
<1>8. \A c \in Calls : Enveloped(c)' /\ RoundTrue(c)'
  <2>1. SUFFICES ASSUME NEW c \in Calls PROVE Enveloped(c)' /\ RoundTrue(c)'
    OBVIOUS
  <2>2. Enveloped(c)'
    BY <1>1, <1>7 DEF ExchangeInv, Enveloped
  <2>3. RoundTrue(c)'
    BY <1>1, <1>7 DEF ExchangeInv, RoundTrue, Carries, Last
  <2> QED
    BY <2>2, <2>3
<1>9. \A c \in Calls : Passes(c)'
  BY <1>1, <1>3, <1>7 DEF ExchangeInv, Passes
<1>10. CarriesTheLastRound'
  BY <1>1, <1>7 DEF ExchangeInv, CarriesTheLastRound, Carries, Last
<1> QED
  BY <1>4, <1>5, <1>6, <1>8, <1>9, <1>10 DEF ExchangeInv

-----------------------------------------------------------------------------
(* The client, and the other peers. *)

\* A slot that is emptied, or filled with a POST that just arrived.
LEMMA SlotRefilled ==
  ASSUME ExchangeInv, NEW s \in Slots, NEW p, post' = [post EXCEPT ![s] = p], UNCHANGED deployed,
         \/ p = NoPost
         \/ IsPost(p) /\ p.stage = "arrived" /\ p.by = deployed /\ ~p.streamed /\ ~p.ran
  PROVE  /\ post'[s] = p /\ \A u \in Slots \ {s} : post'[u] = post[u]
         /\ post' = [u \in Slots |-> post'[u]]
         /\ \A u \in Slots : /\ (post[u] = NoPost \/ IsPost(post[u]))'
                             /\ Stands(u)' /\ Seen(u)'
<1>1. /\ post'[s] = p /\ \A u \in Slots \ {s} : post'[u] = post[u]
      /\ post' = [u \in Slots |-> post'[u]]
  BY SlotMoves DEF ExchangeInv
<1>2. (post[s] = NoPost \/ IsPost(post[s]))' /\ Stands(s)' /\ Seen(s)'
  BY <1>1 DEF Stands, Seen, NoPost, IsPost
<1>3. ASSUME NEW u \in Slots, u # s
      PROVE  (post[u] = NoPost \/ IsPost(post[u]))' /\ Stands(u)' /\ Seen(u)'
  <2>1. post'[u] = post[u] /\ UNCHANGED Registered
    BY <1>1, <1>3 DEF Registered
  <2>2. Stands(u) /\ Seen(u) /\ (post[u] = NoPost \/ IsPost(post[u]))
    BY DEF ExchangeInv, ExchangeTypeOK
  <2> QED
    BY <2>1, <2>2 DEF Stands, Seen, NeedsStream, Missing, Interactive, IsPost
<1> QED
  BY <1>1, <1>2, <1>3

\* A request arrives with nothing done about it.
LEMMA Arriving ==
  ASSUME ExchangeInv, NEW s \in Slots, NEW r, Arrive(s, r)
  PROVE  \E p : /\ post' = [post EXCEPT ![s] = p] /\ IsPost(p) /\ p.stage = "arrived"
                /\ p.req = r /\ p.by = deployed /\ ~p.streamed /\ ~p.ran
<1>1. PICK p : p = [stage |-> "arrived", req |-> r, streamed |-> FALSE, ran |-> FALSE,
                    code |-> "none", result |-> None, status |-> 0, by |-> deployed]
  OBVIOUS
<1>2. IsPost(p) /\ p.stage = "arrived" /\ p.req = r /\ p.by = deployed /\ ~p.streamed /\ ~p.ran
  BY <1>1 DEF IsPost, ExchangeInv, ExchangeTypeOK
<1> QED
  BY <1>1, <1>2 DEF Arrive

\* What a step of one call, made without the server, has to keep.
LEMMA CallKeeps ==
  ASSUME ExchangeInv, NEW c \in Calls,
         UNCHANGED <<deployed, post, handler, known, learnt, built>>, ExchangeTypeOK',
         RoundTrue(c)', pc'[c] = "asking" => post[c].stage = "none",
         \A d \in Calls \ {c} : /\ pc'[d] = pc[d] /\ round'[d] = round[d] /\ sends'[d] = sends[d]
                               /\ asked'[d] = asked[d] /\ queued'[d] = queued[d]
                               /\ wants'[d] = wants[d]
  PROVE  ExchangeInv'
<1>1. KnownTrue' /\ \A s \in Slots : Stands(s)' /\ Seen(s)'
  BY DEF ExchangeInv, KnownTrue, Stands, Seen, NeedsStream, Missing, Interactive, Registered
<1>2. \A d \in Calls : Enveloped(d)' /\ Passes(d)'
  BY DEF ExchangeInv, Enveloped, Passes
<1>3. \A d \in Calls : RoundTrue(d)'
  <2>1. SUFFICES ASSUME NEW d \in Calls, d # c PROVE RoundTrue(d)'
    OBVIOUS
  <2> QED
    BY <2>1 DEF ExchangeInv, RoundTrue, Carries, Last
<1>4. CarriesTheLastRound'
  BY DEF ExchangeInv, CarriesTheLastRound, Carries, Last
<1> QED
  BY <1>1, <1>2, <1>3, <1>4 DEF ExchangeInv

\* A call that ends leaves the others alone.
LEMMA Ending ==
  ASSUME ExchangeTypeOK, NEW c \in Calls, Rounds!Ended(c), wants' = [wants EXCEPT ![c] = None]
  PROVE  /\ pc' \in [Calls -> {"idle", "asking", "answering", "done"}] /\ pc'[c] = "done"
         /\ round' \in [Calls -> 0 .. MaxInputRounds]
         /\ sends' = [d \in Calls |-> sends'[d]] /\ asked' = [d \in Calls |-> asked'[d]]
         /\ wants' = [d \in Calls |-> wants'[d]]
         /\ \A d \in Calls \ {c} : /\ pc'[d] = pc[d] /\ round'[d] = round[d] /\ sends'[d] = sends[d]
                                 /\ asked'[d] = asked[d] /\ wants'[d] = wants[d]
<1>1. pc' \in [Calls -> {"idle", "asking", "answering", "done"}] /\ pc'[c] = "done"
      /\ \A d \in Calls \ {c} : pc'[d] = pc[d]
  BY DEF Rounds!Ended, ExchangeTypeOK
<1>2. round' \in [Calls -> 0 .. MaxInputRounds] /\ \A d \in Calls \ {c} : round'[d] = round[d]
  BY ExchangeAssumption DEF Rounds!Ended, ExchangeTypeOK
<1>3. sends' = [d \in Calls |-> sends'[d]] /\ \A d \in Calls \ {c} : sends'[d] = sends[d]
  BY DEF Rounds!Ended, ExchangeTypeOK
<1>4. asked' = [d \in Calls |-> asked'[d]] /\ \A d \in Calls \ {c} : asked'[d] = asked[d]
  BY DEF Rounds!Ended, ExchangeTypeOK
<1>5. wants' = [d \in Calls |-> wants'[d]] /\ \A d \in Calls \ {c} : wants'[d] = wants[d]
  BY DEF ExchangeTypeOK
<1> QED
  BY <1>1, <1>2, <1>3, <1>4, <1>5

\* The first round carries nothing of any other.
LEMMA BeginStep ==
  ASSUME ExchangeInv, NEW c \in Calls, Begin(c)
  PROVE  ExchangeInv'
<1>1. /\ pc[c] = "idle" /\ pc' = [pc EXCEPT ![c] = "asking"]
      /\ round' = [round EXCEPT ![c] = 1] /\ UNCHANGED <<sends, asked, handler>>
      /\ UNCHANGED <<deployed, post, known, learnt, built>>
  BY DEF Begin, Rounds!Began, serverVars
<1>2. PICK w \in Wanted[c] : /\ wants' = [wants EXCEPT ![c] = w]
                             /\ queued' = [queued EXCEPT ![c] = Request(w, Rounds!Plain)]
  BY DEF Begin
<1>3. ExchangeTypeOK /\ RoundTrue(c)
  BY DEF ExchangeInv
<1>4. RequiresName(w.method) => w.name \in Tools \cup Prompts
  BY NamesAssumption
<1>5. ExchangeTypeOK'
  <2>1. round' \in [Calls -> 0 .. MaxInputRounds]
    BY <1>1, <1>3, ExchangeAssumption DEF ExchangeTypeOK
  <2> QED
    BY <1>1, <1>2, <1>3, <2>1 DEF ExchangeTypeOK, IsPost
<1>6. /\ pc'[c] = "asking" /\ round'[c] = 1 /\ wants'[c] = w
      /\ queued'[c] = Request(w, Rounds!Plain) /\ sends'[c] = Rounds!Plain
  BY <1>1, <1>2, <1>3 DEF ExchangeTypeOK, RoundTrue
<1>7. Carries(c, sends[c])' /\ (queued[c] # None => Carries(c, queued[c]))'
  BY <1>6 DEF Carries, Last, Request, Rounds!Plain
<1>8. RoundTrue(c)'
  BY <1>1, <1>3, <1>4, <1>6, <1>7 DEF RoundTrue, Request
<1> QED
  BY <1>1, <1>2, <1>3, <1>5, <1>8, CallKeeps DEF ExchangeTypeOK, RoundTrue

\* Each further round carries what the last was asked.
LEMMA AnswerStep ==
  ASSUME ExchangeInv, NEW c \in Calls, Answer(c)
  PROVE  ExchangeInv'
<1>1. pc[c] = "answering" /\ UNCHANGED <<handler, deployed, post, known, learnt, built>>
  BY DEF Answer, Rounds!Answer, serverVars
<1>2. ExchangeTypeOK /\ RoundTrue(c)
  BY DEF ExchangeInv
<1>3. CASE pc'[c] = "asking"
  <2>1. PICK omitted \in SUBSET (asked[c].questions \cap Optional) :
          /\ sends' = [sends EXCEPT ![c] = Rounds!Retry(c, asked[c].questions \ omitted)]
          /\ round' = [round EXCEPT ![c] = IF @ < MaxInputRounds THEN @ + 1 ELSE @]
          /\ pc' = [pc EXCEPT ![c] = "asking"]
          /\ UNCHANGED asked
    BY <1>2, <1>3 DEF Answer, Rounds!Answer, Rounds!Ended, ExchangeTypeOK
  <2>2. queued' = [queued EXCEPT ![c] = Request(wants[c], sends'[c])] /\ UNCHANGED wants
    BY <1>3 DEF Answer
  <2>3. round[c] \in 0 .. MaxInputRounds /\ round[c] # 0 /\ round[c] # MaxInputRounds
    BY <1>1, <1>2 DEF ExchangeTypeOK, RoundTrue
  <2>4. round'[c] = round[c] + 1 /\ round' \in [Calls -> 0 .. MaxInputRounds] /\ round'[c] # 1
        /\ round'[c] # 0
    BY <1>2, <2>1, <2>3, ExchangeAssumption DEF ExchangeTypeOK
  <2>5. ExchangeTypeOK'
    BY <1>1, <1>2, <2>1, <2>2, <2>4 DEF ExchangeTypeOK, IsPost
  <2>6. sends'[c].answers = asked[c].questions \ omitted /\ sends'[c].state = asked[c].state
    BY <1>2, <2>1 DEF ExchangeTypeOK, Rounds!Retry
  <2>7. queued'[c] = Request(wants[c], sends'[c])
    BY <1>2, <2>2 DEF ExchangeTypeOK
  <2>8. Last(c)' = asked[c]
    BY <2>1, <2>4 DEF Last
  <2>9. Carries(c, sends[c])'
    BY <2>6, <2>8 DEF Carries
  <2>10. queued'[c].answers = sends'[c].answers /\ queued'[c].state = sends'[c].state
         /\ queued'[c].method = wants[c].method /\ queued'[c].name = wants[c].name
    BY <2>7 DEF Request
  <2>11. RoundTrue(c)'
    BY <1>1, <1>2, <1>3, <2>2, <2>4, <2>9, <2>10 DEF RoundTrue, Carries
  <2> QED
    BY <1>1, <1>2, <2>1, <2>2, <2>5, <2>11, CallKeeps DEF ExchangeTypeOK, RoundTrue
<1>4. CASE pc'[c] # "asking"
  <2>1. Rounds!Ended(c)
    BY <1>2, <1>4 DEF Answer, Rounds!Answer, ExchangeTypeOK
  <2>2. UNCHANGED queued /\ wants' = [wants EXCEPT ![c] = None]
    BY <1>4 DEF Answer, Dropped
  <2>3. ExchangeTypeOK'
    BY <1>1, <1>2, <2>1, <2>2, Ending DEF ExchangeTypeOK, IsPost
  <2>4. RoundTrue(c)'
    BY <1>1, <1>2, <2>1, <2>2, Ending DEF RoundTrue
  <2> QED
    BY <1>1, <1>2, <2>1, <2>2, <2>3, <2>4, Ending, CallKeeps
<1> QED
  BY <1>3, <1>4

\* A call that gave up may leave a request or a POST behind.
LEMMA GiveUpStep ==
  ASSUME ExchangeInv, NEW c \in Calls, GiveUp(c)
  PROVE  ExchangeInv'
<1>1. /\ pc[c] = "asking" /\ Rounds!Ended(c) /\ UNCHANGED handler
      /\ UNCHANGED <<deployed, post, known, learnt, built, queued>>
      /\ wants' = [wants EXCEPT ![c] = None]
  BY DEF GiveUp, Rounds!Failed, serverVars, wireVars, Dropped
<1>2. ExchangeTypeOK /\ RoundTrue(c)
  BY DEF ExchangeInv
<1>3. ExchangeTypeOK'
  BY <1>1, <1>2, Ending DEF ExchangeTypeOK, IsPost
<1>4. RoundTrue(c)'
  BY <1>1, <1>2, Ending DEF RoundTrue
<1> QED
  BY <1>1, <1>2, <1>3, <1>4, Ending, CallKeeps

\* What is not about a slot, where only one slot changed.
LEMMA SlotKeeps ==
  ASSUME ExchangeInv, NEW s \in Slots, \A u \in Slots \ {s} : post'[u] = post[u],
         \A d \in Calls \ {s} : /\ pc'[d] = pc[d] /\ round'[d] = round[d] /\ sends'[d] = sends[d]
                               /\ asked'[d] = asked[d] /\ wants'[d] = wants[d]
                               /\ queued'[d] = queued[d] /\ built'[d] = built[d]
  PROVE  /\ \A d \in Calls \ {s} : Enveloped(d)' /\ Passes(d)' /\ RoundTrue(d)'
         /\ \A d \in Calls \ {s} : pc'[d] = "asking" /\ post'[d].stage # "none" =>
                                  Carries(d, post[d].req.body)'
<1> SUFFICES ASSUME NEW d \in Calls \ {s}
             PROVE  /\ Enveloped(d)' /\ Passes(d)' /\ RoundTrue(d)'
                    /\ pc'[d] = "asking" /\ post'[d].stage # "none" =>
                         Carries(d, post[d].req.body)'
  OBVIOUS
<1>1. /\ post'[d] = post[d] /\ queued'[d] = queued[d] /\ built'[d] = built[d]
      /\ pc'[d] = pc[d] /\ round'[d] = round[d] /\ sends'[d] = sends[d]
      /\ asked'[d] = asked[d] /\ wants'[d] = wants[d]
  BY ExchangeAssumption
<1>2. Enveloped(d) /\ Passes(d) /\ RoundTrue(d)
  BY DEF ExchangeInv
<1>3. Enveloped(d)' /\ Passes(d)'
  BY <1>1, <1>2 DEF Enveloped, Passes
<1>4. RoundTrue(d)'
  BY <1>1, <1>2 DEF RoundTrue, Carries, Last
<1>5. pc'[d] = "asking" /\ post'[d].stage # "none" => Carries(d, post[d].req.body)'
  BY <1>1 DEF ExchangeInv, CarriesTheLastRound, Carries, Last
<1> QED
  BY <1>3, <1>4, <1>5

\* An envelope is built from what is known, and posted.
LEMMA SendStep ==
  ASSUME ExchangeInv, NEW c \in Calls, Send(c)
  PROVE  ExchangeInv'
<1>1. /\ queued[c] # None
      /\ queued' = [queued EXCEPT ![c] = None] /\ built' = [built EXCEPT ![c] = learnt]
      /\ UNCHANGED <<deployed, roundVars, known, learnt, wants>>
  BY DEF Send
<1>2. PICK q : q = queued[c]
  OBVIOUS
<1>3. PICK r : r = Envelope(q.method, Body(q), KnownSchema(q))
  OBVIOUS
<1>4. c \in Slots /\ Arrive(c, r)
  BY <1>2, <1>3, ExchangeAssumption DEF Send
<1>5. PICK p : /\ post' = [post EXCEPT ![c] = p] /\ IsPost(p) /\ p.stage = "arrived"
               /\ p.req = r /\ p.by = deployed /\ ~p.streamed /\ ~p.ran
  BY <1>4, Arriving
<1>6. /\ post'[c] = p /\ \A u \in Slots \ {c} : post'[u] = post[u]
      /\ post' = [u \in Slots |-> post'[u]]
      /\ \A u \in Slots : (post[u] = NoPost \/ IsPost(post[u]))' /\ Stands(u)' /\ Seen(u)'
  BY <1>1, <1>4, <1>5, SlotRefilled
<1>7. ExchangeTypeOK /\ RoundTrue(c) /\ KnownTrue
  BY DEF ExchangeInv
<1>8. ExchangeTypeOK' /\ KnownTrue'
  BY <1>1, <1>6, <1>7 DEF ExchangeTypeOK, KnownTrue, roundVars
<1>9. /\ queued'[c] = None /\ built'[c] = learnt
      /\ \A d \in Calls \ {c} : queued'[d] = queued[d] /\ built'[d] = built[d]
  BY <1>1, <1>7 DEF ExchangeTypeOK
<1>10. /\ RequiresName(q.method) => q.name \in Tools \cup Prompts
       /\ pc[c] = "asking" => Carries(c, q)
       /\ pc[c] \notin {"idle", "answering"}
  BY <1>1, <1>2, <1>7 DEF RoundTrue
<1>11. PICK b : b = Body(q)
  OBVIOUS
<1>12. /\ b.version = "modern" /\ b.capabilities # None /\ b.name = q.name /\ b.args = q.args
       /\ b.answers = q.answers /\ b.state = q.state
  BY <1>11, NamesAssumption DEF Body
<1>13. /\ r.door = Posted /\ r.method = q.method /\ r.body = b
       /\ r.headers.version = b.version /\ r.headers.method = q.method
       /\ RequiresName(q.method) => r.headers.name = Encode(b.name)
       /\ q.method = Call => r.headers.params = Promote(KnownSchema(q), b.args)
  BY <1>3, <1>11 DEF Envelope
<1>14. ASSUME q.method = Call, learnt # 0, NEW t \in DOMAIN Deployments[learnt], t = q.name
       PROVE  r.headers.params = Promote(Deployments[learnt][t].schema, b.args)
  <2>1. learnt \in DOMAIN Deployments /\ known[t] = Deployments[learnt][t].schema
    BY <1>7, <1>14 DEF KnownTrue
  <2>2. t \in Tools
    BY <1>14, <2>1, ServerAssumption
  <2>3. KnownSchema(q) = Deployments[learnt][t].schema
    BY <1>14, <2>1, <2>2 DEF KnownSchema
  <2> QED
    BY <1>13, <1>14, <2>3
<1>15. Enveloped(c)'
  BY <1>1, <1>5, <1>6, <1>9, <1>10, <1>12, <1>13, <1>14 DEF Enveloped
<1>16. Passes(c)' /\ RoundTrue(c)'
  BY <1>1, <1>5, <1>6, <1>7, <1>9, <1>10 DEF Passes, RoundTrue, roundVars, Carries, Last
<1>17. pc'[c] = "asking" => Carries(c, post[c].req.body)'
  BY <1>1, <1>5, <1>6, <1>10, <1>12, <1>13 DEF roundVars, Carries, Last
<1>18. /\ \A d \in Calls \ {c} : Enveloped(d)' /\ Passes(d)' /\ RoundTrue(d)'
       /\ \A d \in Calls \ {c} : pc'[d] = "asking" /\ post'[d].stage # "none" =>
                                Carries(d, post[d].req.body)'
  BY <1>1, <1>4, <1>6, <1>9, SlotKeeps DEF roundVars
<1> QED
  BY <1>6, <1>8, <1>15, <1>16, <1>17, <1>18 DEF ExchangeInv, CarriesTheLastRound

\* What is issued again is what was issued.
LEMMA ReissueStep ==
  ASSUME ExchangeInv, NEW c \in Calls, Reissue(c)
  PROVE  ExchangeInv'
<1>1. /\ post[c].stage = "broken"
      /\ UNCHANGED <<deployed, roundVars, queued, known, learnt, built, wants>>
  BY DEF Reissue
<1>2. PICK r : r = post[c].req
  OBVIOUS
<1>3. c \in Slots /\ Arrive(c, r)
  BY <1>2, ExchangeAssumption DEF Reissue
<1>4. PICK p : /\ post' = [post EXCEPT ![c] = p] /\ IsPost(p) /\ p.stage = "arrived"
               /\ p.req = r /\ p.by = deployed /\ ~p.streamed /\ ~p.ran
  BY <1>3, Arriving
<1>5. /\ post'[c] = p /\ \A u \in Slots \ {c} : post'[u] = post[u]
      /\ post' = [u \in Slots |-> post'[u]]
      /\ \A u \in Slots : (post[u] = NoPost \/ IsPost(post[u]))' /\ Stands(u)' /\ Seen(u)'
  BY <1>1, <1>3, <1>4, SlotRefilled
<1>6. ExchangeTypeOK /\ KnownTrue /\ Enveloped(c) /\ RoundTrue(c)
  BY DEF ExchangeInv
<1>7. ExchangeTypeOK' /\ KnownTrue'
  BY <1>1, <1>5, <1>6 DEF ExchangeTypeOK, KnownTrue, roundVars
<1>8. Enveloped(c)' /\ Passes(c)'
  BY <1>1, <1>2, <1>4, <1>5, <1>6 DEF Enveloped, Passes
<1>9. RoundTrue(c)'
  BY <1>1, <1>4, <1>5, <1>6 DEF RoundTrue, roundVars, Carries, Last
<1>10. pc'[c] = "asking" => Carries(c, post[c].req.body)'
  BY <1>1, <1>2, <1>4, <1>5 DEF ExchangeInv, CarriesTheLastRound, roundVars, Carries, Last
<1>11. /\ \A d \in Calls \ {c} : Enveloped(d)' /\ Passes(d)' /\ RoundTrue(d)'
       /\ \A d \in Calls \ {c} : pc'[d] = "asking" /\ post'[d].stage # "none" =>
                                Carries(d, post[d].req.body)'
  BY <1>1, <1>3, <1>5, SlotKeeps DEF roundVars
<1> QED
  BY <1>5, <1>7, <1>8, <1>9, <1>10, <1>11 DEF ExchangeInv, CarriesTheLastRound

\* Other peers ask, and leave, in a slot of their own.
LEMMA OthersStep ==
  ASSUME ExchangeInv, Leave \/ \E r \in Requests : Ask(r)
  PROVE  ExchangeInv'
<1>1. UNCHANGED <<deployed, roundVars, wireVars, wants>> /\ Other \in Slots /\ Other \notin Calls
  BY ExchangeAssumption DEF Leave, Ask
<1>2. PICK p : /\ post' = [post EXCEPT ![Other] = p]
               /\ \/ p = NoPost
                  \/ IsPost(p) /\ p.stage = "arrived" /\ p.by = deployed /\ ~p.streamed /\ ~p.ran
  BY <1>1, Arriving DEF Leave, Ask
<1>3. /\ \A u \in Slots \ {Other} : post'[u] = post[u]
      /\ post' = [u \in Slots |-> post'[u]]
      /\ \A u \in Slots : (post[u] = NoPost \/ IsPost(post[u]))' /\ Stands(u)' /\ Seen(u)'
  BY <1>1, <1>2, SlotRefilled
<1>4. ExchangeTypeOK' /\ KnownTrue'
  BY <1>1, <1>3 DEF ExchangeInv, ExchangeTypeOK, KnownTrue, roundVars, wireVars
<1>5. /\ \A d \in Calls \ {Other} : Enveloped(d)' /\ Passes(d)' /\ RoundTrue(d)'
      /\ \A d \in Calls \ {Other} : pc'[d] = "asking" /\ post'[d].stage # "none" =>
                                   Carries(d, post[d].req.body)'
  BY <1>1, <1>3, SlotKeeps DEF wireVars, roundVars
<1> QED
  BY <1>1, <1>3, <1>4, <1>5 DEF ExchangeInv, CarriesTheLastRound

\* A listing that came back is known from then on, whole.
LEMMA Observing ==
  ASSUME ExchangeInv, NEW c \in Calls, Observe(c), Arrived(c)
  PROVE  KnownTrue' /\ known' = [t \in Tools |-> known'[t]]
<1>1. CASE UNCHANGED <<known, learnt>>
  BY <1>1 DEF ExchangeInv, KnownTrue, ExchangeTypeOK
<1>2. CASE /\ known' = Recorded(known, Deployments[post[c].by])
           /\ learnt' = post[c].by
  <2>1. learnt' \in DOMAIN Deployments
    <3>1. c \in Slots /\ post[c].stage # "none"
      BY ExchangeAssumption DEF Arrived
    <3> QED
      BY <1>2, <3>1, Held DEF ExchangeInv, IsPost
  <2>2. \A t \in DOMAIN Deployments[learnt'] : t \in Tools
    BY <2>1, ServerAssumption
  <2> QED
    BY <1>2, <2>1, <2>2 DEF KnownTrue, Recorded
<1> QED
  BY <1>1, <1>2 DEF Observe

\* The end of a POST ends the call, or has it answer, or is heard by nobody.
LEMMA CollectStep ==
  ASSUME ExchangeInv, NEW c \in Calls, Collect(c)
  PROVE  ExchangeInv'
<1>1. /\ Arrived(c) /\ Observe(c)
      /\ post' = [post EXCEPT ![c] = NoPost] /\ built' = [built EXCEPT ![c] = 0]
      /\ UNCHANGED <<deployed, queued>>
  BY DEF Collect
<1>2. c \in Slots
  BY ExchangeAssumption
<1>3. /\ post'[c] = NoPost /\ \A u \in Slots \ {c} : post'[u] = post[u]
      /\ post' = [u \in Slots |-> post'[u]]
      /\ \A u \in Slots : (post[u] = NoPost \/ IsPost(post[u]))' /\ Stands(u)' /\ Seen(u)'
  BY <1>1, <1>2, SlotRefilled
<1>4. KnownTrue' /\ known' = [t \in Tools |-> known'[t]]
  BY <1>1, Observing
<1>5. ExchangeTypeOK /\ RoundTrue(c) /\ post[c].stage # "none"
  BY <1>1 DEF ExchangeInv, Arrived
<1>6. /\ pc' \in [Calls -> {"idle", "asking", "answering", "done"}]
      /\ round' \in [Calls -> 0 .. MaxInputRounds]
      /\ sends' = [d \in Calls |-> sends'[d]] /\ asked' = [d \in Calls |-> asked'[d]]
      /\ wants' = [d \in Calls |-> wants'[d]] /\ handler' = handler
      /\ \A d \in Calls \ {c} : /\ pc'[d] = pc[d] /\ round'[d] = round[d] /\ sends'[d] = sends[d]
                              /\ asked'[d] = asked[d] /\ wants'[d] = wants[d]
      /\ \/ pc'[c] = "done"
         \/ /\ pc'[c] = "answering" /\ round'[c] = round[c] /\ round[c] # MaxInputRounds
            /\ wants'[c] = wants[c] /\ pc[c] = "asking"
  <2>1. CASE pc[c] # "asking"
    <3>1. pc[c] = "done" /\ UNCHANGED roundVars
      BY <1>5, <2>1 DEF Collect, RoundTrue, ExchangeTypeOK
    <3>2. wants' = [wants EXCEPT ![c] = None]
      BY <3>1 DEF Collect, Dropped, roundVars
    <3> QED
      BY <1>5, <3>1, <3>2 DEF ExchangeTypeOK, roundVars
  <2>2. CASE pc[c] = "asking" /\ Rounds!Ended(c) /\ UNCHANGED handler
    <3>1. pc'[c] = "done"
      BY <1>5, <2>2 DEF Rounds!Ended, ExchangeTypeOK
    <3>2. wants' = [wants EXCEPT ![c] = None]
      BY <3>1 DEF Collect, Dropped
    <3> QED
      BY <1>5, <2>2, <3>2, Ending
  <2>3. CASE /\ pc[c] = "asking" /\ ~Rounds!Spent(c)
             /\ pc' = [pc EXCEPT ![c] = "answering"]
             /\ asked' = [asked EXCEPT ![c] = post[c].result]
             /\ UNCHANGED <<round, sends, handler>>
    <3>1. pc'[c] = "answering"
      BY <1>5, <2>3 DEF ExchangeTypeOK
    <3>2. UNCHANGED wants
      BY <3>1 DEF Collect
    <3> QED
      BY <1>5, <2>3, <3>1, <3>2 DEF ExchangeTypeOK, Rounds!Spent
  <2> QED
    BY <2>1, <2>2, <2>3 DEF Collect, Rounds!Heard, Rounds!Failed
<1>7. ExchangeTypeOK'
  BY <1>1, <1>3, <1>4, <1>5, <1>6 DEF ExchangeTypeOK
<1>8. queued'[c] = None
  BY <1>1, <1>5 DEF RoundTrue
<1>9. Enveloped(c)' /\ Passes(c)'
  BY <1>3 DEF Enveloped, Passes, NoPost
<1>10. RoundTrue(c)'
  BY <1>3, <1>5, <1>6, <1>8 DEF RoundTrue, NoPost
<1>11. /\ \A d \in Calls \ {c} : Enveloped(d)' /\ Passes(d)' /\ RoundTrue(d)'
       /\ \A d \in Calls \ {c} : pc'[d] = "asking" /\ post'[d].stage # "none" =>
                                Carries(d, post[d].req.body)'
  <2>1. \A d \in Calls \ {c} : queued'[d] = queued[d] /\ built'[d] = built[d]
    BY <1>1, <1>5 DEF ExchangeTypeOK
  <2> QED
    BY <1>2, <1>3, <1>6, <2>1, SlotKeeps
<1> QED
  BY <1>3, <1>4, <1>7, <1>9, <1>10, <1>11 DEF ExchangeInv, CarriesTheLastRound, NoPost

-----------------------------------------------------------------------------
(* Theorems. *)

\* Before the first call nothing was sent, known or asked.
LEMMA InitExchangeInv == ExchangeInit => ExchangeInv
<1> SUFFICES ASSUME ExchangeInit PROVE ExchangeInv
  OBVIOUS
<1> USE DEF ExchangeInit, ServerInit, Rounds!RoundsInit
<1>1. ExchangeTypeOK
  <2>1. 1 \in DOMAIN Deployments
    BY ServerAssumption
  <2> QED
    BY <2>1, ExchangeAssumption DEF ExchangeTypeOK
<1>2. KnownTrue /\ \A s \in Slots : Stands(s) /\ Seen(s)
  BY DEF KnownTrue, Stands, Seen, NoPost
<1>3. \A c \in Calls : Enveloped(c) /\ Passes(c) /\ RoundTrue(c)
  BY ExchangeAssumption DEF Enveloped, Passes, RoundTrue, NoPost
<1>4. CarriesTheLastRound
  BY DEF CarriesTheLastRound
<1> QED
  BY <1>1, <1>2, <1>3, <1>4 DEF ExchangeInv

\* What is queued, posted, run and answered fits together, whatever breaks or is
\* deployed anew.
THEOREM ExchangeConsistent == ExchangeSpec => []ExchangeInv
<1>1. ASSUME ExchangeInv, ExchangeNext
      PROVE  ExchangeInv'
  <2>1. ASSUME NEW c \in Calls,
               Begin(c) \/ Answer(c) \/ GiveUp(c) \/ Send(c) \/ Reissue(c) \/ Collect(c)
        PROVE  ExchangeInv'
    BY <1>1, <2>1, BeginStep, AnswerStep, GiveUpStep, SendStep, ReissueStep, CollectStep
  <2>2. ASSUME NEW s \in Slots, ServerStep(Open(s) \/ Dispatch(s) \/ Returned(s) \/ Cut(s))
        PROVE  ExchangeInv'
    <3>1. UNCHANGED <<roundVars, wireVars, wants>>
      BY <2>2 DEF ServerStep
    <3>2. CASE Open(s)
      <4>1. UNCHANGED deployed
        BY <3>2 DEF Open
      <4> QED
        BY <1>1, <3>1, <3>2, <4>1, OpenStep, ServerKeeps
    <3>3. CASE Dispatch(s)
      <4>1. UNCHANGED deployed
        BY <3>3 DEF Dispatch
      <4> QED
        BY <1>1, <3>1, <3>3, <4>1, DispatchStep, ServerKeeps
    <3>4. CASE Returned(s)
      <4>1. \E code \in {"ok", "internal"} : \E result : Return(s, code, result)
        BY <3>4 DEF Returned
      <4>2. UNCHANGED deployed
        BY <4>1 DEF Return
      <4> QED
        BY <1>1, <3>1, <4>1, <4>2, ReturnStep, ServerKeeps
    <3>5. CASE Cut(s)
      <4>1. UNCHANGED deployed
        BY <3>5 DEF Cut
      <4> QED
        BY <1>1, <3>1, <3>5, <4>1, CutStep, ServerKeeps
    <3> QED
      BY <2>2, <3>2, <3>3, <3>4, <3>5 DEF ServerStep
  <2>3. CASE ServerStep(Redeploy)
    BY <1>1, <2>3, RedeployStep DEF ServerStep
  <2>4. CASE Leave \/ \E r \in Requests : Ask(r)
    BY <1>1, <2>4, OthersStep
  <2> QED
    BY <1>1, <2>1, <2>2, <2>3, <2>4 DEF ExchangeNext
<1>2. ASSUME ExchangeInv, UNCHANGED exchangeVars
      PROVE  ExchangeInv'
  <2>1. /\ UNCHANGED <<deployed, post, pc, round, sends, asked, handler>>
        /\ UNCHANGED <<queued, known, learnt, built, wants>>
    BY <1>2 DEF exchangeVars, serverVars, roundVars, wireVars
  <2>2. ExchangeTypeOK' /\ KnownTrue'
    BY <1>2, <2>1 DEF ExchangeInv, ExchangeTypeOK, KnownTrue, IsPost
  <2>3. UNCHANGED Registered
    BY <2>1 DEF Registered
  <2>4. \A s \in Slots : Stands(s)' /\ Seen(s)'
    BY <1>2, <2>1, <2>3 DEF ExchangeInv, Stands, Seen, NeedsStream, Missing, Interactive
  <2>5. \A c \in Calls : Enveloped(c)' /\ Passes(c)'
    BY <1>2, <2>1 DEF ExchangeInv, Enveloped, Passes
  <2>6. \A c \in Calls : RoundTrue(c)'
    BY <1>2, <2>1 DEF ExchangeInv, RoundTrue, Carries, Last
  <2>7. CarriesTheLastRound'
    BY <1>2, <2>1 DEF ExchangeInv, CarriesTheLastRound, Carries, Last
  <2> QED
    BY <2>2, <2>4, <2>5, <2>6, <2>7 DEF ExchangeInv
<1> QED
  BY <1>1, <1>2, InitExchangeInv, PTL DEF ExchangeSpec

\* What the crate's client sends the crate's server takes, unless the tools changed
\* in between (http_modern.rs:303-310, validate.rs:102-256).
THEOREM OwnRequestsAreTaken == ExchangeSpec => []OwnRequestsPass
<1>1. ExchangeInv => OwnRequestsPass
  BY DEF ExchangeInv, OwnRequestsPass
<1> QED
  BY <1>1, ExchangeConsistent, PTL

\* A refusal is a 400, of a request that was never run, and nothing runs for a peer
\* the server does not serve (server/mod.rs:407-413, handler.rs:115-118,
\* origin.rs:104-122).
THEOREM RefusalsAreSeen == ExchangeSpec => []RefusalIsSeen
<1>1. ExchangeInv => RefusalIsSeen
  BY DEF ExchangeInv, RefusalIsSeen
<1> QED
  BY <1>1, ExchangeConsistent, PTL

\* Each round carries the state and the answers of the round before, and nothing
\* older (driver.rs:110-138).
THEOREM RoundsCarryOn == ExchangeSpec => []CarriesTheLastRound
<1>1. ExchangeInv => CarriesTheLastRound
  BY DEF ExchangeInv
<1> QED
  BY <1>1, ExchangeConsistent, PTL

=============================================================================
