------------------------------- MODULE Transports -------------------------------
(***************************************************************************)
(* A client over one of its transports.  Whichever it is, the calls see    *)
(* two channels and the promise of Transport.                              *)
(***************************************************************************)
EXTENDS Stdio, SseTransport, LegacyHttp

CONSTANT Kinds   \* of transport

ASSUME KindsAssumption ==
  Kinds \subseteq {"stdio", "sse", "http"} /\ {"reader", "poster", "listener"} \subseteq Tasks

VARIABLE kind

allVars == <<kind, streamVars, stdioVars, sseVars, httpVars>>

TasksOf == [k \in Kinds |->
  CASE k = "stdio" -> {"reader"}
    [] k = "sse"   -> {"reader", "poster"}
    [] k = "http"  -> {"listener"}]

ClientInit ==
  /\ kind \in Kinds /\ StreamInit(TasksOf[kind])
  /\ StdioInit /\ (kind # "stdio" => mode = "auto" /\ child = "modern")
  /\ SseInit
  /\ HttpInit /\ (kind # "http" => offers)

ClientNext ==
  /\ UNCHANGED kind
  /\ \/ kind = "stdio" /\ StdioNext /\ UNCHANGED <<sseVars, httpVars>>
     \/ kind = "sse"   /\ SseNext   /\ UNCHANGED <<stdioVars, httpVars>>
     \/ kind = "http"  /\ HttpNext  /\ UNCHANGED <<stdioVars, sseVars>>

ClientSpec == ClientInit /\ [][ClientNext]_allVars

\* The calls and the transport's tasks are polled.  No timer of a call, and no
\* peer, is relied on; the GET stream is cut by the timer of the HTTP client.
ClientFairSpec ==
  /\ ClientSpec
  /\ WF_allVars(kind = "stdio" /\ ClientNext /\ \E c \in Calls : StdioCall(c))
  /\ WF_allVars(kind = "stdio" /\ ClientNext /\ (Tasking \/ ReadEnds))
  /\ WF_allVars(kind = "http" /\ ClientNext /\ Listening)

-----------------------------------------------------------------------------
(* Properties. *)

Promise == INSTANCE Transport WITH turned <- refused, given <- carried, told <- heard

\* Whatever fails, is lost or is abandoned, the peer takes no request twice, is
\* shown one again only after it turned it away, and no answer is made up
\* (transports/mod.rs:16-43, http.rs:216-236).
KeepsThePromise == Promise!Spec

\* A call on stdio ends when the child is gone, without its timer and wherever
\* its request is: the tasks let go of both channels (stdio.rs:183-275).
DeadChildIsNoticed == (kind = "stdio" /\ ~alive /\ ~Quiet) ~> Quiet

-----------------------------------------------------------------------------
(* The inductive invariant behind SpeaksTheSettledEra and KeepsThePromise:     *)
(* each request is in one place until the peer has it.                         *)

Queued == {outgoing[i] : i \in 1 .. Len(outgoing)}
Lined  == {line.of : line \in Written}

\* In the hands of the transport, on its way to the peer.
Hands == Lined \cup ({post, held} \ {None}) \cup {c \in Calls : posts[c] = "sending"}

CallTrue(c) ==
  /\ carried[c] \in {0, 1} /\ heard[c] \in {0, 1}
  /\ heard[c] = 1 => pc[c] = "ended"
  /\ result[c] \in Answers => carried[c] = 1
  /\ pc[c] \in {"idle", "writing"} => carried[c] = 0 /\ c \notin Queued \cup Hands
  /\ c \in Queued \cup Hands => carried[c] = 0

\* No request is in two places.
QueuedOnce ==
  /\ \A i, j \in 1 .. Len(outgoing) : outgoing[i] = outgoing[j] => i = j
  /\ Queued \cap Hands = {}

HandedOnce ==
  /\ \A i, j \in 1 .. Len(stdin) : stdin[i].of = stdin[j].of => i = j
  /\ writer # None => \A i \in 1 .. Len(stdin) : stdin[i].of # writer.of
  /\ held # None => posts[held] # "sending"

\* What is said in the name of the peer is said of a request it got.
Vouched(m) == m.word \in Answers => m.of \in Calls /\ carried[m.of] = 1

Evident ==
  /\ \A i \in 1 .. Len(incoming) : Vouched(incoming[i])
  /\ \A i \in 1 .. Len(stdout) : Vouched(stdout[i])
  /\ \A m \in {serving, routed} \ {None} : Vouched(m)
  /\ \A c \in owed \cup ({got} \ {None}) \cup marked \cup {d \in Calls : posts[d] = "streaming"} : carried[c] = 1
  /\ {last, from, replay} \subseteq marked \cup {None}

\* The transports that are not used are as they were.
Unused ==
  /\ kind # "stdio" => writer = None /\ stdin = <<>> /\ serving = None /\ stdout = <<>>
  /\ kind # "sse"   => post = None /\ got = None /\ routed = None /\ owed = {}
  /\ kind # "http"  => /\ held = None /\ marked = {} /\ last = None /\ from = None /\ replay = None
                       /\ \A c \in Calls : posts[c] = "none"

\* The writer stamps what the settling is about, which until it is decided has
\* made no call but its own.
EraSettling ==
  kind = "stdio" =>
    /\ phase \in {"probing", "reprobing", "modern"} => meta
    /\ phase \in {"start", "initializing", "legacy"} => ~meta
    /\ phase = "start" => \A c \in Calls : pc[c] = "idle"
    /\ phase = "probing" => \A c \in Calls : pc[c] # "idle" => c = Discover

TransportsTypeOK == kind \in Kinds /\ StreamTypeOK /\ StdioTypeOK /\ SseTypeOK /\ HttpTypeOK

PlacesInv ==
  /\ TransportsTypeOK
  /\ \A c \in Calls : CallTrue(c)
  /\ QueuedOnce /\ HandedOnce /\ Evident /\ Unused
  /\ EraSettling /\ SpeaksTheSettledEra

=============================================================================
