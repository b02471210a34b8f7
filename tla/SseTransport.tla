------------------------------ MODULE SseTransport ------------------------------
(***************************************************************************)
(* The older HTTP transport (transports/sse.rs): one GET stream brings the *)
(* peer's messages, and first the URL that messages are to be posted to;   *)
(* one task posts them, one at a time.  start() waits for the URL.         *)
(***************************************************************************)
EXTENDS ClientStreams

VARIABLES
  start,   \* start_with_limits
  url,     \* whether the peer has announced the URL
  stream,  \* the task that reads the GET stream
  post,    \* the message being posted, or None
  got,     \* the same, from the peer's receipt of it to the end of the POST
  routed,  \* what the poster still has to put in incoming
  owed     \* requests the peer has, to be answered on the stream

sseVars == <<start, url, stream, post, got, routed, owed>>

SseTypeOK ==
  /\ start \in {"looking", "arming", "waiting", "ready", "failed"}
  /\ url \in BOOLEAN
  /\ stream \in {"connecting", "open", "ended"}
  /\ {post, got} \subseteq Calls \cup {None}
  /\ routed \in Message \cup {None}
  /\ owed \subseteq Calls

SseInit ==
  /\ start = "looking" /\ url = FALSE /\ stream = "connecting"
  /\ post = None /\ got = None /\ routed = None /\ owed = {}

-----------------------------------------------------------------------------
(* start(): look for the URL, then register with the Notify, then wait. *)

Look ==
  /\ start = "looking"
  /\ start' = IF url THEN "ready" ELSE "arming"
  /\ UNCHANGED <<streamVars, url, stream, post, got, routed, owed>>

Arm ==
  /\ start = "arming" /\ start' = "waiting"
  /\ UNCHANGED <<streamVars, url, stream, post, got, routed, owed>>

\* The error drops the transport, and with it its tasks.
StartFails == start' = "failed" /\ taking' = FALSE /\ feeders' = {}

StartTimesOut ==
  /\ start \in {"arming", "waiting"}
  /\ StartFails
  /\ UNCHANGED <<pc, result, outgoing, incoming, carried, heard,
                 url, stream, post, got, routed, owed>>

-----------------------------------------------------------------------------
(* handle_sse_connection. *)

Reading == "reader" \in feeders /\ stream = "open"

Connect ==
  /\ "reader" \in feeders /\ stream = "connecting" /\ stream' = "open"
  /\ UNCHANGED <<streamVars, start, url, post, got, routed, owed>>

\* An endpoint event; notify_waiters wakes the one who waits and leaves nothing
\* for the one who is about to.  Waking, start() looks again.
Announce ==
  /\ Reading /\ url' = TRUE
  /\ start' = IF start = "waiting" THEN "looking" ELSE start
  /\ UNCHANGED <<streamVars, stream, post, got, routed, owed>>

\* A message event, which may come again.
Bring(c) ==
  /\ Reading /\ c \in owed
  /\ owed' \in {owed, owed \ {c}}
  /\ Feed(Said(c, "result"))
  /\ UNCHANGED <<pc, result, outgoing, taking, feeders, carried, heard,
                 start, url, stream, post, got, routed>>

\* A status that is no success, an error, an end, an event past the limit.  The
\* poster still holds its sender, so nobody is told.
StreamEnds ==
  /\ "reader" \in feeders /\ stream # "ended" /\ stream' = "ended"
  /\ feeders' = feeders \ {"reader"}
  /\ UNCHANGED <<pc, result, outgoing, taking, incoming, carried, heard,
                 start, url, post, got, routed, owed>>

-----------------------------------------------------------------------------
(* outgoing_handler. *)

Posting == "poster" \in feeders

SseTakes(c) ==
  /\ Posting /\ {post, got, routed} = {None} /\ Take(c)
  /\ IF url THEN post' = c ELSE UNCHANGED post
  /\ UNCHANGED <<pc, result, taking, incoming, feeders, carried, heard,
                 start, url, stream, got, routed, owed>>

\* From here the peer may answer on the stream, before its POST is over.
PostArrives(c) ==
  /\ Posting /\ post = c
  /\ post' = None /\ got' = c /\ Reaches(c)
  /\ owed' \in {owed, owed \cup {c}}
  /\ UNCHANGED <<pc, result, outgoing, taking, incoming, feeders, heard,
                 start, url, stream, routed>>

\* Fault: a message whose POST failed is posted again.
PostAgain(c) == post' = c /\ got' = None /\ UNCHANGED routed

\* An error is reported to the call, and may hide that the peer did get the
\* message.
PostFails(c) == post' = None /\ got' = None /\ routed' = Said(c, "report")

\* The other outcomes of a POST: the answer at once, or another message (200, or
\* an error status with one in it), and nothing (202, an empty 200, a body that is
\* cut).
Posted(c) ==
  /\ Posting /\ c \in {post, got}
  /\ \/ PostFails(c)
     \/ /\ got = c /\ got' = None /\ UNCHANGED post
        /\ routed' \in {None, Said(c, "result"), Said(None, "push")}
  /\ UNCHANGED <<streamVars, start, url, stream, owed>>

\* The send into incoming waits for room.
SseRoutes ==
  /\ Posting /\ routed # None
  /\ Feed(routed) /\ routed' = None
  /\ UNCHANGED <<pc, result, outgoing, taking, feeders, carried, heard,
                 start, url, stream, post, got, owed>>

\* close(): both tasks are aborted.
SseClose ==
  /\ start = "ready" /\ taking
  /\ taking' = FALSE /\ feeders' = {}
  /\ UNCHANGED <<pc, result, outgoing, incoming, carried, heard, sseVars>>

-----------------------------------------------------------------------------

\* The streams are handed out once start() has returned.
SseUse(c) == start = "ready" /\ c \in Ordinary /\ Ask(c) /\ UNCHANGED sseVars

SseNext ==
  \/ Look \/ Arm \/ StartTimesOut
  \/ Connect \/ Announce \/ StreamEnds \/ SseRoutes \/ SseClose
  \/ \E c \in Calls : \/ SseUse(c) \/ (CallStep(c) /\ UNCHANGED sseVars)
                      \/ (TimeOut(c) /\ UNCHANGED sseVars)
                      \/ Bring(c) \/ SseTakes(c) \/ PostArrives(c) \/ Posted(c)

=============================================================================
