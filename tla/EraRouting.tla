------------------------------ MODULE EraRouting ------------------------------
(***************************************************************************)
(* The dual-era HTTP transport: which protocol era each outgoing message   *)
(* is sent under (route in transports/http_dual.rs), how a modern exchange *)
(* ends (dispatch_modern, send_once and stream_response in                 *)
(* transports/http_modern.rs) and a legacy one (send_once_via_http in      *)
(* transports/http.rs), and what the era cache remembers of it.            *)
(*                                                                         *)
(* Every message is routed by a task of its own.  Permits are left out:    *)
(* the model's messages are fewer than max_concurrent_requests.            *)
(***************************************************************************)
EXTENDS Integers, Sequences

CONSTANTS Requests,    \* messages with an id and a method
          Notes,       \* notifications
          Replies,     \* the client's answers to requests a server pushed
          Modes,       \* EraMode: "auto", "modern", "legacy"
          Peers,       \* "modern", "legacy", "lenient": a legacy server that
                       \* answers modern requests with JSON-RPC over a 200
          Gateways,    \* whether something in front of the peer may refuse a
                       \* request with a page of its own: TRUE, FALSE
          MaxRetries,  \* max_stream_retries
          MaxFinals    \* bound on how often one stream carries the response

Messages == Requests \cup Notes \cup Replies

ASSUME KindsAssumption == /\ Requests \cap (Notes \cup Replies) = {}
                          /\ Notes \cap Replies = {}
ASSUME EraAssumption == /\ Modes \subseteq {"auto", "modern", "legacy"}
                        /\ Peers \subseteq {"modern", "legacy", "lenient"}
                        /\ Gateways \subseteq BOOLEAN
                        /\ MaxRetries \in Nat /\ MaxFinals \in Nat

VARIABLES
  mode, peer,  \* fixed when the transport starts, as is
  gateway,     \* whether this one is in the way
  cache,       \* the EraCache entry of this endpoint
  opened,      \* how many GET streams were spawned
  pc,          \* the task routing each message
  seen,        \* the era route() resolved for it
  attempt,     \* stream re-issues so far
  answers,     \* what was routed to the caller, in order
  executed     \* history: how often the peer acted on it

fixed   == <<mode, peer, gateway>>
eraVars == <<fixed, cache, opened, pc, seen, attempt, answers, executed>>

Eras  == {"none", "modern", "legacy"}
Words == {"result", "refusal", "rejection", "outdated", "blank", "local"}

EraTypeOK ==
  /\ mode \in Modes /\ peer \in Peers /\ gateway \in Gateways
  /\ cache \in Eras
  /\ opened \in Nat
  /\ pc \in [Messages -> {"idle", "queued", "modern", "proved", "fallback",
                          "legacy", "suspended", "done"}]
  /\ seen \in [Messages -> Eras]
  /\ attempt \in [Messages -> 0 .. MaxRetries]
  /\ answers \in [Messages -> Seq(Words)]
  /\ executed \in [Messages -> Nat]

EraInit ==
  /\ mode \in Modes /\ peer \in Peers /\ gateway \in Gateways
  /\ cache = "none"
  /\ opened = 0
  /\ pc = [m \in Messages |-> "idle"]
  /\ seen = [m \in Messages |-> "none"]
  /\ attempt = [m \in Messages |-> 0]
  /\ answers = [m \in Messages |-> <<>>]
  /\ executed = [m \in Messages |-> 0]

-----------------------------------------------------------------------------
(* The pieces of a step. *)

\* EraMode::resolve: a pinned mode ignores the cache.
Resolved == IF mode = "auto" THEN cache ELSE mode

To(m, place) == pc' = [pc EXCEPT ![m] = place]

\* An id to answer, or nobody is told.
Tell(m, words) ==
  answers' = IF m \in Notes THEN answers ELSE [answers EXCEPT ![m] = @ \o words]

Executed(m) == executed' = [executed EXCEPT ![m] = @ + 1]

\* Fault: every legacy verdict opens a stream.
EnsureAgain == opened' = opened + 1

\* LegacyListener::ensure: the swap lets one caller through.
Ensure == opened' = IF opened = 0 THEN 1 ELSE opened

\* send_legacy: the GET stream comes first, then the POST.
SendLegacy(m) == Ensure /\ To(m, "legacy")

\* What the caller may be told of a response.  A stream carries it any number
\* of times, each forwarded; an empty body is told as an empty success; and a
\* message of another kind, or of another id, is forwarded and tells it nothing.
\* Only a modern exchange ends in the transport's own word: for a body that is no
\* message, or a stream past the buffer limit, whatever it had carried.
Finals   == {"result", "refusal"}
Carried  == UNION {[1 .. n -> Finals] : n \in 1 .. MaxFinals}
LegacyOk == Carried \cup {<<"blank">>, <<>>}
Accepted == LegacyOk \cup {s \o <<"local">> : s \in Carried \cup {<<>>}}

-----------------------------------------------------------------------------
(* Routing. *)

\* The client writes the message to the transport's outgoing channel.
Submit(m) ==
  /\ pc[m] = "idle"
  /\ To(m, "queued")
  /\ UNCHANGED <<fixed, cache, opened, seen, attempt, answers, executed>>

\* route() up to the first POST: a legacy era opens the GET stream on the way.
RouteLegacy(m) ==
  /\ pc[m] = "queued"
  /\ Resolved = "legacy"
  /\ seen' = [seen EXCEPT ![m] = "legacy"]
  /\ SendLegacy(m)
  /\ UNCHANGED <<fixed, cache, attempt, answers, executed>>

RouteModern(m) ==
  /\ pc[m] = "queued"
  /\ m \notin Replies
  /\ Resolved # "legacy"
  /\ seen' = [seen EXCEPT ![m] = Resolved]
  /\ To(m, "modern")
  /\ UNCHANGED <<fixed, cache, opened, attempt, answers, executed>>

\* dispatch_modern sends no message without a method: it is answered locally.
RejectReply(m) ==
  /\ pc[m] = "queued"
  /\ m \in Replies
  /\ Resolved # "legacy"
  /\ seen' = [seen EXCEPT ![m] = Resolved]
  /\ Tell(m, <<"local">>)
  /\ To(m, "done")
  /\ UNCHANGED <<fixed, cache, opened, attempt, executed>>

-----------------------------------------------------------------------------
(* A modern exchange. *)

\* A 2xx with a body or a whole stream.
Accept(m, told) ==
  /\ pc[m] = "modern"
  /\ peer \in {"modern", "lenient"}
  /\ Tell(m, told)
  /\ Executed(m)
  /\ To(m, "proved")
  /\ UNCHANGED <<fixed, cache, opened, seen, attempt>>

\* Fault: a lost stream taken for a legacy peer.
StreamBreaksToLegacy(m) ==
  /\ pc[m] = "modern"
  /\ peer \in {"modern", "lenient"}
  /\ Executed(m)
  /\ To(m, "fallback")
  /\ UNCHANGED <<fixed, cache, opened, seen, attempt, answers>>

\* A 2xx stream that ends without the response: re-issued under a fresh id
\* while retries last.  A notification wants nothing back.
StreamBreaks(m) ==
  /\ pc[m] = "modern"
  /\ peer \in {"modern", "lenient"}
  /\ Executed(m)
  /\ IF m \in Requests /\ attempt[m] < MaxRetries
       THEN /\ attempt' = [attempt EXCEPT ![m] = @ + 1]
            /\ UNCHANGED <<pc, answers>>
       ELSE /\ Tell(m, <<"local">>)
            /\ To(m, "proved")
            /\ UNCHANGED attempt
  /\ UNCHANGED <<fixed, cache, opened, seen>>

\* A 400 with a modern error code, or a 404 or 405 with a JSON-RPC error.
\* "outdated" is UNSUPPORTED_PROTOCOL_VERSION.
Reject(m, reply) ==
  /\ pc[m] = "modern"
  /\ peer = "modern"
  /\ Tell(m, <<reply>>)
  /\ To(m, "proved")
  /\ UNCHANGED <<fixed, cache, opened, seen, attempt, executed>>

\* Faults: the verdict is told to the caller as well, and it is not kept when
\* the message is routed again.
RefuseBareTold(m) ==
  /\ pc[m] = "modern"
  /\ peer = "legacy" \/ gateway
  /\ To(m, IF seen[m] = "none" THEN "fallback" ELSE "proved")
  /\ Tell(m, <<"local">>)
  /\ UNCHANGED <<fixed, cache, opened, seen, attempt, executed>>

RefuseBareAgain(m) ==
  /\ pc[m] = "modern"
  /\ peer = "legacy" \/ gateway
  /\ To(m, "queued")
  /\ UNCHANGED <<fixed, cache, opened, seen, attempt, answers, executed>>

\* A 400, 404 or 405 without one: proof of a legacy peer while the era is
\* unknown, an error for the caller afterwards.
RefuseBare(m) ==
  /\ pc[m] = "modern"
  /\ peer = "legacy" \/ gateway
  /\ IF seen[m] = "none"
       THEN To(m, "fallback") /\ UNCHANGED answers
       ELSE To(m, "proved") /\ Tell(m, <<"local">>)
  /\ UNCHANGED <<fixed, cache, opened, seen, attempt, executed>>

\* Faults: a failure that counts as proof of a modern peer, and one that is
\* tried again.
FailProves(m) ==
  /\ pc[m] = "modern"
  /\ Tell(m, <<"local">>)
  /\ Executed(m) \/ UNCHANGED executed
  /\ To(m, "proved")
  /\ UNCHANGED <<fixed, cache, opened, seen, attempt>>

FailRetries(m) ==
  /\ pc[m] = "modern"
  /\ Executed(m)
  /\ UNCHANGED <<fixed, cache, opened, pc, seen, attempt, answers>>

\* No connection, no reply in time, a 429 or 5xx, a 401 or 403 that brings no
\* token: nothing is learned, and the peer may have acted on the request.  A
\* challenge that does bring one is no step: the message is sent again as it was,
\* the peer having refused it unread, as often as AuthSession allows.
Fail(m) ==
  /\ pc[m] = "modern"
  /\ Tell(m, <<"local">>)
  /\ Executed(m) \/ UNCHANGED executed
  /\ To(m, "done")
  /\ UNCHANGED <<fixed, cache, opened, seen, attempt>>

\* Dispatched::HandledModern: the answer was routed before this insert.
Record(m) ==
  /\ pc[m] = "proved"
  /\ cache' = IF seen[m] = "none" THEN "modern" ELSE cache
  /\ To(m, "done")
  /\ UNCHANGED <<fixed, opened, seen, attempt, answers, executed>>

\* Dispatched::FallBackToLegacy.
FallBack(m) ==
  /\ pc[m] = "fallback"
  /\ cache' = "legacy"
  /\ SendLegacy(m)
  /\ UNCHANGED <<fixed, seen, attempt, answers, executed>>

-----------------------------------------------------------------------------
(* A legacy exchange. *)

LegacyAnswer(m, told) ==
  /\ pc[m] = "legacy"
  /\ peer # "modern" \/ told = <<"refusal">>
  /\ Tell(m, told)
  /\ Executed(m)
  /\ To(m, "done")
  /\ UNCHANGED <<fixed, cache, opened, seen, attempt>>

\* Anything at or above 400, no connection, or an unusable body.
LegacyFail(m) ==
  /\ pc[m] = "legacy"
  /\ Tell(m, <<"local">>)
  /\ Executed(m) \/ UNCHANGED executed
  /\ To(m, "done")
  /\ UNCHANGED <<fixed, cache, opened, seen, attempt>>

\* The stream ended without the response.  The caller is told nothing: the GET
\* stream is asked to resume from where it stopped.
LegacyStreamEnds(m) ==
  /\ pc[m] = "legacy"
  /\ peer # "modern"
  /\ Executed(m)
  /\ To(m, IF m \in Requests THEN "suspended" ELSE "done")
  /\ UNCHANGED <<fixed, cache, opened, seen, attempt, answers>>

Resume(m) ==
  /\ pc[m] = "suspended"
  /\ opened > 0
  /\ \E told \in Carried : Tell(m, told)
  /\ To(m, "done")
  /\ UNCHANGED <<fixed, cache, opened, seen, attempt, executed>>

-----------------------------------------------------------------------------
\* DEFAULT_ERA_TTL passes: the next EraCache::get finds nothing.
Expire ==
  /\ cache # "none"
  /\ cache' = "none"
  /\ UNCHANGED <<fixed, opened, pc, seen, attempt, answers, executed>>

Exchange(m) ==
  \/ (\E told \in Accepted : Accept(m, told)) \/ StreamBreaks(m)
  \/ (\E reply \in {"rejection", "outdated"} : Reject(m, reply))
  \/ RefuseBare(m) \/ Fail(m)
  \/ (\E told \in LegacyOk : LegacyAnswer(m, told))
  \/ LegacyFail(m) \/ LegacyStreamEnds(m)

Step(m) ==
  \/ RouteLegacy(m) \/ RouteModern(m) \/ RejectReply(m)
  \/ Exchange(m) \/ Record(m) \/ FallBack(m)

EraNext ==
  \/ \E m \in Messages : Submit(m) \/ Step(m) \/ Resume(m)
  \/ Expire

EraSpec == EraInit /\ [][EraNext]_eraVars

\* A task is polled, and the HTTP client's timeout ends an exchange the peer
\* does not.  A legacy server need not resume a stream.
EraFairSpec == EraSpec /\ \A m \in Messages : WF_eraVars(Step(m))

-----------------------------------------------------------------------------
(* Properties. *)

\* Whatever order answers, expiries and failures come in, the cache never holds
\* an era the peer did not show: "a sick or unauthenticated server is never
\* mistaken for an old one" (http_dual.rs:17-23, detect.rs:112-115).
EraIsTrue ==
  ~gateway => /\ cache = "modern" => peer # "legacy"
              /\ cache = "legacy" => peer = "legacy"

\* However many requests find out at once that the peer is legacy, one GET
\* stream is opened, and before any of them is sent (http_dual.rs:386-417).
OneStreamBeforeLegacy ==
  /\ opened <= 1
  /\ \A m \in Messages : pc[m] \in {"legacy", "suspended"} => opened = 1

\* Only the peer's own responses are followed by another word.
FinalsFirst(told) == \A i \in 1 .. Len(told) - 1 : told[i] \in Finals

\* A caller hears of one exchange only, the last: nothing of a stream that broke,
\* of a fallback or of an exchange not yet over.  Only the peer's own responses
\* are followed by another word, and a caller left without any is left so by a
\* peer that did take the last issue of its request: every refusal, failure and
\* lost stream is told (http_modern.rs:334-387, 560-566, 606-637).
OneExchangeTells ==
  \A m \in Requests :
    IF pc[m] \in {"proved", "done"}
      THEN /\ FinalsFirst(answers[m])
           /\ answers[m] = <<>> => executed[m] = attempt[m] + 1
      ELSE answers[m] = <<>>

\* A peer acts on a request at most once per issue of it: nothing is sent again
\* after an outcome the transport does not know (http_modern.rs:334-387).
OncePerIssue == \A m \in Messages : executed[m] <= attempt[m] + 1

\* Only a request whose peer was unknown when it was routed is sent under both
\* eras; a known or pinned era surfaces a 400 (http_dual.rs:341-343).
FallsBackOnlyWhenUnknown ==
  \A m \in Messages :
    pc[m] \in {"fallback", "legacy", "suspended"} =>
      seen[m] = "legacy" \/ (mode = "auto" /\ seen[m] = "none")

\* http_dual.rs:25-27: "Re-sending on fallback is safe rather than a
\* double-execution risk: every response that yields the legacy verdict means
\* the request was rejected *before* being processed."  So it is with nothing in
\* front of the server; a gateway's page, in answer to the re-issue of a request
\* whose stream broke, is taken for the verdict too.
FallbackNeverRepeats ==
  ~gateway => \A m \in Messages : pc[m] = "fallback" => executed[m] = 0

\* The task of every request ends, unless a legacy server ended its stream and
\* never resumes it (http.rs:355-364).
EveryRequestSettles ==
  \A m \in Requests : pc[m] = "queued" ~> pc[m] \in {"done", "suspended"}

-----------------------------------------------------------------------------
(* The inductive invariant behind the safety properties above. *)

\* A task that is about to record a verdict has the evidence for it.
VerdictsTrue ==
  ~gateway => \A m \in Messages :
    /\ pc[m] = "proved" /\ seen[m] = "none" => peer # "legacy"
    /\ pc[m] = "fallback" => peer = "legacy"

\* Only an unpinned transport routes a message with the era unknown.
SeenTrue ==
  \A m \in Messages :
    pc[m] = "modern" => seen[m] = "modern" \/ (mode = "auto" /\ seen[m] = "none")

\* What a message may have cost so far, by where its task is; a legacy peer has
\* acted on nothing that is still being tried as modern.
CountsTrue ==
  \A m \in Messages :
    /\ pc[m] \in {"idle", "queued"} => executed[m] = 0 /\ attempt[m] = 0
    /\ pc[m] \in {"modern", "fallback", "legacy"} => executed[m] = attempt[m]
    /\ peer = "legacy" /\ pc[m] \in {"modern", "fallback"} => executed[m] = 0

RoutingInv ==
  /\ EraTypeOK /\ VerdictsTrue /\ SeenTrue /\ OneStreamBeforeLegacy
  /\ CountsTrue /\ OncePerIssue /\ FallsBackOnlyWhenUnknown /\ OneExchangeTells

EraInv == RoutingInv /\ EraIsTrue

=============================================================================
