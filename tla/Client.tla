---------------------------------- MODULE Client ----------------------------------
(***************************************************************************)
(* The client object (client/mod.rs) and the Python class around it        *)
(* (chuk-mcp-python).  An operation is one request, or one per round when  *)
(* a modern server answers that it needs input; every request is a call of *)
(* SendMessage over the streams the client holds.  In Rust operations      *)
(* overlap as their caller likes; in Python each holds a mutex, from its   *)
(* first request to its last, the input handler it awaits included.  Calls *)
(* on the raw streams go around the client.                                *)
(***************************************************************************)
EXTENDS SendMessage

CONSTANTS
  Ops,    \* operations of the application
  Rounds, \* requests one may take, 8 in the code
  Codes,  \* of the errors a server answers with
  Mixes   \* which kinds of operations are made together

ASSUME ClientAssumption ==
  /\ Rounds \in Nat \ {0} /\ None \notin Ops
  /\ \A mix \in Mixes :
       /\ mix \in [Ops -> {"call", "list", "ping", "send", "close"}]
       /\ \A o \in Ops : /\ mix[o] # "close" => <<o, 1>> \in Callers
                         /\ mix[o] = "call" => {o} \X (1 .. Rounds) \subseteq Callers

VARIABLES
  python,  \* whether it is the Python class: a mutex around the client
  modern,  \* the era settled when it connected
  handler, \* whether it was given an input handler
  kind,    \* of each operation; "send" is send_message on the raw streams
  stage,   \* of each operation
  round,   \* the request it is at
  within,  \* the operation whose input handler made it
  inner,   \* who holds the mutex around the client
  queue,   \* who waits for it
  gone,    \* whether close() took the client out
  outcome  \* what each operation came to

world      == <<python, modern, handler, kind>>
objVars    == <<world, stage, round, within, inner, queue, gone, outcome>>
clientVars == <<sendVars, objVars>>

Call(o)    == <<o, round[o]>>
Guarded(o) == python /\ kind[o] # "send"
Open(o)    == stage[o] \notin {"idle", "ended"}

\* Whether an operation waits for another that its handler made.
Awaits(o) == \E p \in Ops : within[p] = o /\ Open(p)

ClientInit ==
  /\ python \in BOOLEAN /\ modern \in BOOLEAN /\ handler \in BOOLEAN /\ kind \in Mixes
  /\ SendInit /\ overlap
  /\ tokened \in SUBSET {c \in Callers : kind[c[1]] = "send"}
  /\ stage = [o \in Ops |-> "idle"] /\ round = [o \in Ops |-> 1]
  /\ within = [o \in Ops |-> None]
  /\ inner = None /\ queue = <<>> /\ gone = FALSE
  /\ outcome = [o \in Ops |-> "none"]

-----------------------------------------------------------------------------
(* What an operation comes to. *)

\* Errors a caller should not repeat a request after; any other code may be.
NonRetryable == {"parse", "invalid_request", "not_found", "invalid_params", "unsupported"}

\* send_ping swallows every error, and close() has none to tell of.
Outcome(o, how) ==
  IF kind[o] = "ping" THEN IF how = "value" THEN "alive" ELSE "dead" ELSE how

\* The class of the error a response carries, in either language.
ErrorOf(code) == IF code \in NonRetryable THEN "NonRetryable" ELSE "Retryable"

\* An operation ends and its guard of the mutex goes.
Finish(o, how) ==
  /\ stage' = [stage EXCEPT ![o] = "ended"]
  /\ outcome' = [outcome EXCEPT ![o] = Outcome(o, how)]
  /\ inner' = IF inner = o THEN None ELSE inner
  /\ UNCHANGED <<world, round, within, queue, gone>>

\* Fault: the mutex is given up while the handler is asked.
HandleUnguarded(o) ==
  /\ stage' = [stage EXCEPT ![o] = "handling"]
  /\ inner' = IF inner = o THEN None ELSE inner
  /\ UNCHANGED <<world, round, within, queue, gone, outcome>>

\* The server needs input, and there is a handler to ask.
Handle(o) ==
  /\ stage' = [stage EXCEPT ![o] = "handling"]
  /\ UNCHANGED <<world, round, within, inner, queue, gone, outcome>>

\* What a response turns out to be: a result, an error, or a request for input,
\* which only tools/call, resources/read and prompts/get are asked for.
Respond(o) ==
  \/ Finish(o, "value")
  \/ \E code \in Codes : Finish(o, ErrorOf(code))
  \/ /\ modern /\ kind[o] = "call"
     /\ IF handler /\ round[o] < Rounds THEN Handle(o)
        ELSE Finish(o, "Validation")

-----------------------------------------------------------------------------
(* Making an operation. *)

\* Its first request.
Start(o) ==
  /\ Begin(<<o, 1>>)
  /\ stage' = [stage EXCEPT ![o] = "running"]

\* An operation is asked for, by the application or by an input handler.
Ask(o, by) ==
  /\ stage[o] = "idle"
  /\ within' = [within EXCEPT ![o] = by]
  /\ IF Guarded(o)
       THEN /\ stage' = [stage EXCEPT ![o] = "waiting"]
            /\ queue' = Append(queue, o)
            /\ UNCHANGED sendVars
       ELSE kind[o] # "close" /\ Start(o) /\ UNCHANGED queue
  /\ UNCHANGED <<world, round, inner, gone, outcome>>

Invoke(o) == Ask(o, None)

\* In Rust close() takes the client for itself: no call on it is under way.
TakeAndClose(o) ==
  /\ stage[o] = "idle" /\ kind[o] = "close" /\ ~python
  /\ \A p \in Ops \ {o} : Open(p) => kind[p] = "send"
  /\ stage' = [stage EXCEPT ![o] = "closing"]
  /\ UNCHANGED <<sendVars, world, round, within, inner, queue, gone, outcome>>

\* A handler makes a call on the client it answers for.
AskFromHandler(o, p) ==
  /\ \/ stage[o] = "handling"
     \/ stage[o] = "running" /\ pc[Call(o)] = "answering" /\ kind[o] = "call" /\ handler
  /\ ~Awaits(o)
  /\ Ask(p, o)

\* The lock is got; after close() there is no client behind it.
Enter(o) ==
  /\ inner = None /\ queue # <<>> /\ Head(queue) = o
  /\ queue' = Tail(queue)
  /\ IF gone
       THEN /\ stage' = [stage EXCEPT ![o] = "ended"]
            /\ outcome' = [outcome EXCEPT ![o] = Outcome(o, IF kind[o] = "close" THEN "value" ELSE "closed")]
            /\ UNCHANGED <<sendVars, inner, gone>>
       ELSE /\ inner' = o
            /\ gone' = (kind[o] = "close")
            /\ IF kind[o] = "close"
                 THEN stage' = [stage EXCEPT ![o] = "closing"] /\ UNCHANGED sendVars
                 ELSE Start(o)
            /\ UNCHANGED outcome
  /\ UNCHANGED <<world, round, within>>

\* The transport is closed, and the streams with it.
CloseClient(o) ==
  /\ stage[o] = "closing"
  /\ Close \/ (closed /\ UNCHANGED sendVars)
  /\ Finish(o, "value")

\* A modern server's questions were answered: the next request carries that.
HandlerReturns(o) ==
  /\ stage[o] = "handling" /\ ~Awaits(o)
  /\ Begin(<<o, round[o] + 1>>)
  /\ round' = [round EXCEPT ![o] = @ + 1]
  /\ stage' = [stage EXCEPT ![o] = "running"]
  /\ UNCHANGED <<world, within, inner, queue, gone, outcome>>

-----------------------------------------------------------------------------
(* The request of an operation. *)

Requesting(o) == stage[o] = "running"

Writes(o) ==
  /\ Requesting(o) /\ Write(Call(o))
  /\ IF closed THEN Finish(o, "closed") ELSE UNCHANGED objVars

Locks(o) == Requesting(o) /\ Lock(Call(o)) /\ UNCHANGED objVars

Receives(o) ==
  /\ Requesting(o) /\ Receive(Call(o))
  /\ IF pc'[Call(o)] = "ended" THEN Respond(o) ELSE UNCHANGED objVars

Replies(o) == Requesting(o) /\ ~Awaits(o) /\ Reply(Call(o)) /\ UNCHANGED objVars

Polls(o) ==
  Requesting(o) /\ (PollToken(Call(o)) \/ NoticeCancelled(Call(o))) /\ UNCHANGED objVars

Fails(o) ==
  Requesting(o) /\ (Report(Call(o)) \/ StreamClosed(Call(o))) /\ Finish(o, result'[Call(o)])

TimesOut(o) == Requesting(o) /\ TimeOut(Call(o)) /\ Finish(o, result'[Call(o)])

Progresses(o) ==
  \/ Enter(o) \/ CloseClient(o)
  \/ Writes(o) \/ Locks(o) \/ Receives(o) \/ Polls(o) \/ Fails(o)

\* A server of its era: a modern one pushes no requests.
Elsewhere ==
  /\ \/ \E c \in Callers : ServerResponds(c) \/ ServerProgresses(c)
     \/ ~modern /\ \E q \in Pushes : ServerPushes(q)
     \/ tokened # {} /\ \E k \in Cancellers : Cancel(k)
     \/ Drain \/ Close
  /\ UNCHANGED objVars

ClientNext ==
  \/ \E o \in Ops :
       \/ Invoke(o) \/ TakeAndClose(o) \/ Progresses(o) \/ Replies(o) \/ TimesOut(o) \/ HandlerReturns(o)
       \/ \E p \in Ops : AskFromHandler(o, p)
  \/ Elsewhere

ClientSpec == ClientInit /\ [][ClientNext]_clientVars

\* Tasks are polled and timers fire.  An input handler may take for ever, a server
\* need not answer, and a transport need not take what is written to it.
ClientFairSpec ==
  /\ ClientSpec
  /\ \A o \in Ops : WF_clientVars(Progresses(o)) /\ WF_clientVars(TimesOut(o))

-----------------------------------------------------------------------------
(* Properties. *)

\* Operations of the Python class alone make their requests in turn, which is
\* how the streams are meant to be shared: what holds of calls that do not
\* overlap holds of them (protocol/messages/send_message.rs:19-23, lib.rs:169).
InTurn == INSTANCE SendMessage
            WITH overlap <- ~python \/ \E o \in Ops : kind[o] = "send"

MadeInTurn == InTurn!SendSpec

\* A value is the answer to the last request of its own operation, and every
\* request before that one was answered too (client/input/driver.rs:46-62).
OwnValue ==
  \A o \in Ops : outcome[o] \in {"value", "alive"} /\ kind[o] # "close" =>
    \A r \in 1 .. round[o] : <<o, r>> \in answered \ lost

\* The channel to the transport is full and no timer is running: before the
\* request is sent, or to report one that will not be.
Stalled(o) ==
  /\ Requesting(o) /\ ~closed /\ ~Room
  /\ \/ pc[Call(o)] = "writing"
     \/ pc[Call(o)] = "cancelling" /\ holder # Call(o)

\* It, or the operation that holds the mutex it waits for, is in a wait that has no
\* limit of time.
HeldUp(o) ==
  \E p \in Ops : /\ p = o \/ (p = inner /\ stage[o] = "waiting")
                 /\ stage[p] = "handling" \/ Stalled(p)

\* Each operation that is asked for ends, however the streams, the server and those
\* ahead of it at either mutex do, replies and notices to the server included.
\* There are two waits without a limit, and it may be held up by these only: a
\* modern server's question is with the input handler, where a pushed one is within
\* its call's, and the channel to the transport is full before a request is sent
\* (client/input/driver.rs:86, send_message.rs:149-160, 162-178).
EveryOperationEnds == []<>(\A o \in Ops : Open(o) => HeldUp(o))

-----------------------------------------------------------------------------
(* The inductive invariants behind OneReader, OwnValue and MadeInTurn: what an *)
(* operation is at, and what its requests are at.                              *)

ClientTypeOK ==
  /\ {python, modern, handler, gone} \subseteq BOOLEAN /\ kind \in Mixes
  /\ stage \in [Ops -> {"idle", "waiting", "running", "handling", "closing", "ended"}]
  /\ round \in [Ops -> 1 .. Rounds]
  /\ inner \in Ops \cup {None} /\ queue \in Seq(Ops)

\* Which requests an operation may be at.
RoundsTrue(o) ==
  /\ kind[o] # "call" \/ stage[o] \in {"idle", "waiting", "closing"} => round[o] = 1
  /\ stage[o] = "running" => kind[o] # "close"
  /\ stage[o] = "closing" => kind[o] = "close"
  /\ stage[o] = "handling" => kind[o] = "call" /\ round[o] < Rounds

\* Who works behind the mutex holds it, its input handler included.
MutexHeld ==
  \A o \in Ops : Guarded(o) /\ stage[o] \in {"running", "handling", "closing"} => inner = o

QueueTrue ==
  \A i, j \in 1 .. Len(queue) :
    stage[queue[i]] = "waiting" /\ (queue[i] = queue[j] => i = j)

ObjInv == ClientTypeOK /\ (\A o \in Ops : RoundsTrue(o)) /\ MutexHeld /\ QueueTrue

Valued(o) == outcome[o] \in {"value", "alive"} /\ kind[o] # "close"

\* A request in flight is the one its operation is at; those before it, and the
\* last of an operation with a value, were given their response.
RequestsTrue ==
  /\ outcome \in [Ops -> {"none", "value", "alive", "dead", "Retryable", "NonRetryable",
                          "Validation", "cancelled", "timed_out", "closed"}]
  /\ \A c \in Callers :
       /\ InFlight(c) => \E o \in Ops : c = Call(o) /\ stage[o] = "running"
       /\ result[c] = "response" => pc[c] = "ended"
  /\ \A o \in Ops :
       /\ outcome[o] # "none" => stage[o] = "ended"
       /\ \A r \in 1 .. round[o] :
            r < round[o] \/ stage[o] = "handling" \/ Valued(o) => result[<<o, r>>] = "response"

=============================================================================
