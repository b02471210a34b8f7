--------------------------------- MODULE Stdio ---------------------------------
(***************************************************************************)
(* The stdio transport (transports/stdio.rs), the settling of the era on   *)
(* it (stdio_dual.rs), and the child it talks to, which runs the server's  *)
(* loop over its own stdin and stdout (server/serve.rs).                   *)
(*                                                                         *)
(* One task writes each message to the child's stdin, adding the modern    *)
(* metadata if it is set when the message is taken; one reads the child's  *)
(* stdout.  Both pipes are as bounded as the channels.                     *)
(***************************************************************************)
EXTENDS ClientStreams

CONSTANTS Discover, Rediscover, Initialize,  \* the calls of the settling
          Tracked,     \* calls with a progress callback
          EraModes,    \* configured
          Children,    \* what the child may be
          Spoken,      \* the versions of this crate, in order of preference
          Lists,       \* the versions each child lists
          MaxNoise     \* bound on lines of the child that answer nothing

ASSUME StdioAssumption ==
  /\ {Discover, Rediscover, Initialize} \cup Tracked \subseteq Calls
  /\ EraModes \subseteq {"auto", "legacy", "modern"}
  /\ Children \subseteq {"modern", "dated", "foreign", "legacy"} /\ Children \subseteq DOMAIN Lists

VARIABLES
  mode,     \* EraMode
  child,    \* the protocol of the child
  alive,    \* whether its process runs
  closing,  \* whether close() was called
  phase,    \* of stdio_client_dual
  meta,     \* whether modern_meta is set
  writer,   \* the message the writer is writing, with its metadata
  stdin,    \* the child's
  serving,  \* the answer the child is writing
  stdout,   \* the child's
  noise     \* lines so far that answer nothing

stdioVars == <<mode, child, alive, closing, phase, meta, writer, stdin, serving, stdout, noise>>

Settled   == phase \in {"modern", "legacy"}

\* params._meta of a request: what the call put there, and what the writer does.
Lines == [of : Calls, meta : SUBSET {"modern", "token"}]

StdioTypeOK ==
  /\ mode \in EraModes /\ child \in Children
  /\ alive \in BOOLEAN /\ closing \in BOOLEAN
  /\ phase \in {"start", "probing", "reprobing", "initializing", "modern", "legacy", "failed"}
  /\ meta \in BOOLEAN
  /\ writer \in Lines \cup {None}
  /\ stdin \in Seq(Lines)
  /\ serving \in Message \cup {None}
  /\ stdout \in Seq(Message)
  /\ noise \in Nat

StdioInit ==
  /\ mode \in EraModes /\ child \in Children
  /\ alive = TRUE /\ closing = FALSE /\ phase = "start" /\ meta = FALSE
  /\ writer = None /\ stdin = <<>> /\ serving = None /\ stdout = <<>>
  /\ noise = 0

-----------------------------------------------------------------------------
(* stdio_client_dual. *)

\* Fault: the metadata is left in place for the legacy handshake.
LeftSet == UNCHANGED meta

Cleared == meta' = FALSE

Turn(from, to) == phase = from /\ phase' = to
PipesSame == UNCHANGED <<mode, child, alive, closing, writer, stdin, serving, stdout, noise>>

\* negotiate_version: the first of the crate's versions the child lists.
Renegotiated ==
  LET common == {i \in DOMAIN Spoken : Spoken[i] \in Lists[child]}
  IN IF common = {} THEN None ELSE Spoken[CHOOSE i \in common : \A j \in common : i <= j]

\* from_discover makes a profile of a result that lists such a version.
Profiled(c) == Heard(c, {"result"}) /\ Renegotiated # None

\* classify_probe_error: an error no modern server gives; a lost or late answer
\* proves nothing.
ProbeRefused == Heard(Discover, {"refused"})

Probe ==
  /\ mode # "legacy" /\ Turn("start", "probing")
  /\ meta' = TRUE /\ Ask(Discover) /\ PipesSame

Retry ==
  /\ Turn("probing", "reprobing") /\ Heard(Discover, {"rejected"}) /\ Renegotiated # None
  /\ Ask(Rediscover) /\ UNCHANGED meta /\ PipesSame

HandshakeLegacy ==
  /\ \/ mode = "legacy" /\ Turn("start", "initializing")
     \/ mode = "auto" /\ Turn("probing", "initializing") /\ ProbeRefused
  /\ Cleared /\ Ask(Initialize) /\ PipesSame

Settle ==
  /\ \/ Turn("probing", "modern") /\ Profiled(Discover)
     \/ Turn("reprobing", "modern") /\ Profiled(Rediscover)
     \/ Turn("initializing", "legacy") /\ Heard(Initialize, {"result"})
  /\ UNCHANGED <<streamVars, meta>> /\ PipesSame

Lost == {"timed_out", "closed"}

\* An error is returned, and the transport dropped with it: its tasks are
\* aborted and the child is killed.
Refused ==
  /\ \/ /\ Turn("probing", "failed")
        /\ Heard(Discover, Lost \cup (IF mode = "modern" THEN {"refused"} ELSE {})
                                \cup (IF Renegotiated = None THEN {"rejected", "result"} ELSE {}))
     \/ Turn("reprobing", "failed") /\ Heard(Rediscover, Lost \cup {"rejected", "refused"})
     \/ Turn("initializing", "failed") /\ Heard(Initialize, Lost \cup {"rejected", "refused"})
  /\ alive' = FALSE /\ taking' = FALSE /\ feeders' = {}
  /\ UNCHANGED <<pc, result, outgoing, incoming, carried, heard,
                 mode, child, closing, meta, writer, stdin, serving, stdout, noise>>

Use(c) ==
  /\ Settled /\ c \in Ordinary
  /\ Ask(c) /\ UNCHANGED stdioVars

-----------------------------------------------------------------------------
(* The two tasks. *)

\* inject_meta puts its block in place of the call's.
Stamped(c) == IF meta THEN {"modern"} ELSE IF c \in Tracked THEN {"token"} ELSE {}

WriterTakes(c) ==
  /\ taking /\ writer = None /\ Take(c)
  /\ writer' = [of |-> c, meta |-> Stamped(c)]
  /\ UNCHANGED <<pc, result, taking, incoming, feeders, carried, heard,
                 mode, child, alive, closing, phase, meta, stdin, serving, stdout, noise>>

\* A write to a child that is gone fails, and the task returns.
WriterWrites ==
  /\ taking /\ writer # None
  /\ writer' = None
  /\ IF ~alive THEN taking' = FALSE /\ UNCHANGED stdin
                      ELSE Room(stdin) /\ stdin' = Append(stdin, writer) /\ UNCHANGED taking
  /\ UNCHANGED <<pc, result, outgoing, incoming, feeders, carried, heard,
                 mode, child, alive, closing, phase, meta, serving, stdout, noise>>

\* Fault: the reader returns and its sender of incoming stays.
ReaderKeeps == UNCHANGED feeders

ReaderReturns == feeders' = feeders \ {"reader"}

\* A line: routed, or passed over when it is blank, no JSON, or no message.  A
\* batch is its messages, one after the other.
Read ==
  /\ "reader" \in feeders /\ stdout # <<>>
  /\ stdout' = Tail(stdout)
  /\ IF Head(stdout).word = "push" THEN incoming' \in {incoming, Append(incoming, Head(stdout))}
                                   ELSE incoming' = Append(incoming, Head(stdout))
  /\ Len(incoming') <= Cap
  /\ UNCHANGED <<pc, result, outgoing, taking, feeders, carried, heard,
                 mode, child, alive, closing, phase, meta, writer, stdin, serving, noise>>

\* The end of stdout, or a line past the limit.
ReadEnds ==
  /\ "reader" \in feeders
  /\ \/ ~alive /\ stdout = <<>> /\ UNCHANGED stdout
     \/ /\ stdout # <<>> /\ Head(stdout).word = "push"
        /\ stdout' = Tail(stdout)
  /\ ReaderReturns
  /\ UNCHANGED <<pc, result, outgoing, taking, incoming, carried, heard,
                 mode, child, alive, closing, phase, meta, writer, stdin, serving, noise>>

-----------------------------------------------------------------------------
(* The child. *)

\* What it says to a request.  One that refuses this client's version lists
\* those it takes, perhaps none of the crate's; the version of a retry is
\* again the one of the writer's metadata, whatever was chosen from the list.
Verdicts(line) ==
  IF "modern" \in line.meta
    THEN CASE child = "modern" -> {"result"}
           [] child = "foreign" -> {"rejected", "result"}
           [] child = "dated"  -> IF line.of = Discover THEN {"rejected"} ELSE {"rejected", "result"}
           [] child = "legacy" -> {"refused"}
    ELSE {IF child # "modern" THEN "result" ELSE "refused"}

\* McpServer::serve, one line after the other.
Serve ==
  /\ alive /\ serving = None /\ stdin # <<>>
  /\ stdin' = Tail(stdin)
  /\ \E w \in Verdicts(Head(stdin)) : serving' = Said(Head(stdin).of, w)
  /\ Reaches(Head(stdin).of)
  /\ UNCHANGED <<pc, result, outgoing, taking, incoming, feeders, heard,
                 mode, child, alive, closing, phase, meta, writer, stdout, noise>>

WriteLine ==
  /\ alive /\ serving # None /\ Room(stdout)
  /\ stdout' = Append(stdout, serving) /\ serving' = None
  /\ UNCHANGED <<streamVars, mode, child, alive, closing, phase, meta, writer, stdin, noise>>

\* A notification, a request of the server's own, or no message at all.
Chatter ==
  /\ alive /\ noise < MaxNoise /\ Room(stdout)
  /\ noise' = noise + 1
  /\ stdout' = Append(stdout, Said(None, "push"))
  /\ UNCHANGED <<streamVars, mode, child, alive, closing, phase, meta, writer, stdin, serving>>

Exit ==
  /\ alive /\ alive' = FALSE
  /\ UNCHANGED <<streamVars, mode, child, closing, phase, meta, writer, stdin, serving, stdout, noise>>

-----------------------------------------------------------------------------
(* close(): SIGTERM, a second of grace with the tasks still running, SIGKILL, *)
(* and only then the tasks.                                                    *)

Terminate ==
  /\ Settled /\ ~closing /\ closing' = TRUE
  /\ UNCHANGED <<streamVars, mode, child, alive, phase, meta, writer, stdin, serving, stdout, noise>>

Abort ==
  /\ closing /\ (taking \/ feeders # {})
  /\ alive' = FALSE /\ taking' = FALSE /\ feeders' = {}
  /\ UNCHANGED <<pc, result, outgoing, incoming, carried, heard,
                 mode, child, closing, phase, meta, writer, stdin, serving, stdout, noise>>

-----------------------------------------------------------------------------

StdioCall(c) == CallStep(c) /\ UNCHANGED stdioVars

Tasking == (\E c \in Calls : WriterTakes(c)) \/ WriterWrites \/ Read

StdioNext ==
  \/ Probe \/ Retry \/ HandshakeLegacy \/ Settle \/ Refused
  \/ \E c \in Calls : Use(c) \/ StdioCall(c) \/ (TimeOut(c) /\ UNCHANGED stdioVars)
  \/ Tasking \/ ReadEnds
  \/ Serve \/ WriteLine \/ Chatter \/ Exit \/ Terminate \/ Abort

-----------------------------------------------------------------------------
(* Properties. *)

Written == {stdin[i] : i \in 1..Len(stdin)} \cup ({writer} \ {None})

\* What is on its way to the child is in the dialect the peer was found to
\* speak: a server that knows no metadata is sent none, not even by the task
\* that stamps messages behind the handshake's back, and a modern one is sent no
\* request without (stdio_dual.rs:82-107, stdio.rs:252-259).
SpeaksTheSettledEra ==
  \A line \in Written :
    /\ phase \in {"initializing", "legacy"} => "modern" \notin line.meta
    /\ phase \in {"probing", "reprobing", "modern"} => "modern" \in line.meta

=============================================================================
