------------------------------- MODULE LegacyHttp -------------------------------
(***************************************************************************)
(* The Streamable HTTP transport of the stateful lifecycle                 *)
(* (transports/http.rs): every message is a POST in a task of its own,     *)
(* answered by a body or by an event stream, and a GET stream beside them  *)
(* brings what the server originates (http_listen.rs).  An event stream    *)
(* that ends before its answer is to be resumed by the GET stream, from    *)
(* the last event id any stream has left in the hints they share.          *)
(***************************************************************************)
EXTENDS ClientStreams

CONSTANTS Permits,        \* max_concurrent_requests
          MaxChallenges   \* bound on the challenges a request is sent again after

ASSUME PermitsAssumption == Permits \in Nat \ {0} /\ MaxChallenges \in Nat

VARIABLES
  offers,    \* whether the server has a GET stream
  held,      \* the message the loop holds while it waits for a permit
  posts,     \* each message's POST
  marked,    \* those whose event stream gave an event id
  answered,  \* those whose event stream brought the answer
  last,      \* hints.last_event_id: the stream whose id it is; None if the GET stream's own or none
  listener,  \* the listener's loop
  from,      \* the id its GET carries
  replay,    \* the answer the server has to bring on the GET stream
  refused,   \* history: how often the peer turned each request away unread
  awaiting,  \* history: requests whose stream ended early, until a GET asks for the rest
  overtaken  \* history: those whose id gave way to one of the GET stream's own

hintVars == <<last, listener, from, replay, awaiting, overtaken>>
httpVars == <<offers, held, posts, marked, answered, refused, hintVars>>

HttpTypeOK ==
  /\ offers \in BOOLEAN
  /\ posts \in [Calls -> {"none", "sending", "streaming", "over"}]
  /\ {held, last, from, replay} \subseteq Calls \cup {None}
  /\ \A s \in {marked, answered, awaiting, overtaken} : s \subseteq Calls
  /\ listener \in {"awaiting", "top", "asking", "listening", "woken", "asleep", "ended"}
  /\ refused \in [Calls -> Nat]

HttpInit ==
  /\ offers \in BOOLEAN
  /\ held = None /\ posts = [c \in Calls |-> "none"]
  /\ marked = {} /\ answered = {}
  /\ last = None /\ listener = "awaiting" /\ from = None /\ replay = None
  /\ awaiting = {} /\ overtaken = {} /\ refused = [c \in Calls |-> 0]

-----------------------------------------------------------------------------
(* The loop, and a message's task. *)

Open == {c \in Calls : posts[c] \in {"sending", "streaming"}}

PostIs(c, state) == posts' = [posts EXCEPT ![c] = state]

HttpTakes(c) ==
  /\ taking /\ held = None /\ Take(c) /\ held' = c
  /\ UNCHANGED <<pc, result, taking, incoming, feeders, carried, heard, offers, posts,
                 marked, answered, refused, hintVars>>

Spawn(c) ==
  /\ taking /\ held = c /\ Cardinality(Open) < Permits
  /\ held' = None /\ PostIs(c, "sending")
  /\ UNCHANGED <<streamVars, offers, marked, answered, refused, hintVars>>

Over(c) ==
  /\ posts[c] = "sending" /\ PostIs(c, "over")
  /\ UNCHANGED <<pc, result, outgoing, taking, feeders, heard, offers, held,
                 marked, answered, refused, hintVars>>

\* A 401 or 403 that brings a token: the request is sent again, after the
\* authorization, which is part of "sending".  The peer turned it away unread.
Challenged(c) ==
  /\ posts[c] = "sending" /\ refused[c] < MaxChallenges
  /\ refused' = [refused EXCEPT ![c] = @ + 1]
  /\ UNCHANGED <<streamVars, offers, held, posts, marked, answered, hintVars>>

\* An error of the connection or the timer, or any other status of 400 and more,
\* is reported to the call: the peer may have got the message all the same.
HttpFails(c) ==
  Over(c) /\ Feed(Said(c, "report")) /\ (Reaches(c) \/ UNCHANGED carried)

\* A body: the answer; nothing, or nothing readable, which are reported; a message
\* of another kind, which tells the call nothing; or events with none among them.
HttpAnswers(c) ==
  /\ Over(c) /\ Reaches(c)
  /\ \/ \E m \in {Said(c, "result"), Said(c, "report"), Said(None, "push")} : Feed(m)
     \/ UNCHANGED incoming

Streams(c) ==
  /\ posts[c] = "sending" /\ PostIs(c, "streaming") /\ Reaches(c)
  /\ UNCHANGED <<pc, result, outgoing, taking, incoming, feeders, heard, offers, held,
                 marked, answered, refused, hintVars>>

\* An event with an id, which only a server that can be resumed gives.
Mark(c) ==
  /\ posts[c] = "streaming" /\ offers /\ marked' = marked \cup {c}
  /\ UNCHANGED <<streamVars, offers, held, posts, answered, refused, hintVars>>

\* The answer, which a stream may bring again.
StreamAnswers(c) ==
  /\ posts[c] = "streaming"
  /\ Feed(Said(c, "result")) /\ answered' = answered \cup {c}
  /\ UNCHANGED <<pc, result, outgoing, taking, feeders, carried, heard, offers, held, posts,
                 marked, refused, hintVars>>

\* Fault: the id is kept only of an answered stream.
RecordOfAnswered(c) ==
  /\ last' = IF c \in marked \cap answered THEN c ELSE last
  /\ listener' = IF c \notin answered /\ listener = "listening" THEN "woken" ELSE listener

\* StreamHints::record: notify_waiters reaches only a listener in its select!.
Record(c) ==
  /\ last' = IF c \in marked THEN c ELSE last
  /\ listener' = IF c \notin answered /\ listener = "listening" THEN "woken" ELSE listener

\* The event stream ends: closed, broken, cut by the timer or past the limit.
StreamStops(c) ==
  /\ posts[c] = "streaming" /\ PostIs(c, "over") /\ Record(c)
  /\ awaiting' = awaiting \cup ({c} \cap (marked \ answered))
  /\ UNCHANGED <<streamVars, offers, held, marked, answered, refused, from, replay, overtaken>>

-----------------------------------------------------------------------------
(* listen(). *)

postVars == <<offers, held, posts, marked, answered, refused>>

Turns(state, next) == listener = state /\ listener' = next

\* await_session and the pause between two streams.
Wakes ==
  /\ listener \in {"awaiting", "asleep"} /\ listener' = "top"
  /\ UNCHANGED <<streamVars, postVars, last, from, replay, awaiting, overtaken>>

\* The resume point is read afresh each round, before the request is made.
Snapshot ==
  /\ Turns("top", "asking")
  /\ from' = last /\ awaiting' = awaiting \ {last} /\ replay' = None
  /\ UNCHANGED <<streamVars, postVars, last, overtaken>>

\* Established; a status or an error to retry; or no such stream at all.
Asked ==
  /\ \/ offers /\ Turns("asking", "listening") /\ replay' \in {None, from}
     \/ offers /\ Turns("asking", "asleep") /\ UNCHANGED replay
     \/ ~offers /\ Turns("asking", "ended") /\ UNCHANGED replay
  /\ UNCHANGED <<streamVars, postVars, last, from, awaiting, overtaken>>

Replays ==
  /\ listener \in {"listening", "woken"} /\ replay # None
  /\ Feed(Said(replay, "result")) /\ replay' = None
  /\ UNCHANGED <<pc, result, outgoing, taking, feeders, carried, heard, postVars,
                 last, listener, from, awaiting, overtaken>>

\* The branch of the select! that was asked to resume.
Leaves ==
  /\ Turns("woken", "asleep")
  /\ UNCHANGED <<streamVars, postVars, last, from, replay, awaiting, overtaken>>

\* The branch of the stream, which may win over a wake-up: the client's own timer
\* cuts it at the latest.  The last id of its events, if it had any, is kept in
\* place of one whose stream is not resumed yet.
GetEnds ==
  /\ listener \in {"listening", "woken"} /\ listener' = "asleep"
  /\ last' \in {last, None}
  /\ overtaken' = overtaken \cup (awaiting \cap ({last} \ {last'}))
  /\ UNCHANGED <<streamVars, postVars, from, replay, awaiting>>

Listening == Wakes \/ Snapshot \/ Asked \/ Leaves \/ GetEnds

-----------------------------------------------------------------------------

\* close() aborts the loop; the tasks it spawned and the listener go on, and
\* keep the stream to the calls open.
HttpClose ==
  /\ taking /\ taking' = FALSE /\ held' = None
  /\ UNCHANGED <<pc, result, outgoing, incoming, feeders, carried, heard, offers, posts,
                 marked, answered, refused, hintVars>>

HttpNext ==
  \/ Listening \/ Replays \/ HttpClose
  \/ \E c \in Calls :
       \/ HttpTakes(c) \/ Spawn(c) \/ Challenged(c) \/ HttpFails(c) \/ HttpAnswers(c)
       \/ Streams(c) \/ Mark(c) \/ StreamAnswers(c) \/ StreamStops(c)
       \/ (c \in Ordinary /\ Ask(c)) /\ UNCHANGED httpVars
       \/ (CallStep(c) \/ TimeOut(c)) /\ UNCHANGED httpVars

-----------------------------------------------------------------------------
(* Properties. *)

Owed(s) == \E c \in s : pc[c] = "waiting"

\* A call whose event stream ended before its answer has its resume point asked
\* for, whatever the listener was doing then: if nobody hears the wake-up, when
\* the GET stream ends.  It is lost only if that stream leaves an id of its own
\* (http_listen.rs:86-99, 159-162, 202-209).  With one request at a time: the
\* hints keep one id.
ResumedUnlessOvertaken == Owed(awaiting \ overtaken) ~> ~Owed(awaiting \ overtaken)

=============================================================================
