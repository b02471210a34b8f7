------------------------------- MODULE Listeners -------------------------------
(***************************************************************************)
(* subscriptions/listen: the server's stream of change notifications       *)
(* (server/listeners.rs, opened by listen in server/dispatch.rs and served *)
(* by stream in server/http/handler.rs).                                   *)
(*                                                                         *)
(* Requests are served by tasks of a multi-threaded runtime and change     *)
(* notifications come from any thread.  Fanning out and closing hold the   *)
(* registry's lock throughout; opening sends the acknowledgement before it *)
(* takes the lock.                                                         *)
(***************************************************************************)
EXTENDS Integers, Sequences

CONSTANTS Subs,       \* subscriptions/listen requests, each one stream
          Topics,     \* three list-changed notifications, one update per URI
          MaxChanges  \* bound: notifications fanned out

ASSUME TopicsAssumption == Topics \cap {"ack", "result"} = {}

VARIABLES
  stage,    \* the task serving each request
  filter,   \* what each request asks for: from_params of what it says
  open,     \* Listeners::open
  gone,     \* requests whose client has stopped reading
  stream,   \* what was put on each request's stream, in order
  changes,  \* history: every notification fanned out, in order
  since,    \* history: Len(changes) when it entered the registry
  until     \* history: Len(changes) when it ended, -1 before

history == <<changes, since, until>>
lvars   == <<stage, filter, open, gone, stream, history>>

LTypeOK ==
  /\ stage \in [Subs -> {"new", "acknowledged", "returned"}]
  /\ filter \in [Subs -> SUBSET Topics]
  /\ open \in SUBSET Subs
  /\ gone \in SUBSET Subs
  /\ stream \in [Subs -> Seq(Topics \cup {"ack", "result"})]
  /\ changes \in Seq(Topics)
  /\ since \in [Subs -> Int] /\ until \in [Subs -> Int]

LInit ==
  /\ stage = [s \in Subs |-> "new"]
  /\ filter \in [Subs -> SUBSET Topics]
  /\ open = {}
  /\ gone = {}
  /\ stream = [s \in Subs |-> <<>>]
  /\ changes = <<>>
  /\ since = [s \in Subs |-> -1]
  /\ until = [s \in Subs |-> -1]

-----------------------------------------------------------------------------

Wants(s, t) == t \in filter[s]

\* UnboundedSender::send to each of S: nothing reaches a client that has left.
Sent(S, message) ==
  [s \in Subs |-> IF s \in S \ gone THEN Append(stream[s], message) ELSE stream[s]]

Ended(S) ==
  [s \in Subs |-> IF s \in S /\ until[s] = -1 THEN Len(changes) ELSE until[s]]

\* Listeners::open up to the lock.  A client that has already left is not
\* registered, and the task has nothing more to do.
Acknowledge(s) ==
  /\ stage[s] = "new"
  /\ stage' = [stage EXCEPT ![s] = IF s \in gone THEN "returned" ELSE "acknowledged"]
  /\ stream' = Sent({s}, "ack")
  /\ UNCHANGED <<filter, open, gone, changes, since, until>>

\* The push under the lock.  listen answers nothing, and the task that called
\* it ends with its own two senders: the registry's is the only one left.
Enter(s) ==
  /\ stage[s] = "acknowledged"
  /\ stage' = [stage EXCEPT ![s] = "returned"]
  /\ open' = open \cup {s}
  /\ since' = [since EXCEPT ![s] = Len(changes)]
  /\ UNCHANGED <<filter, gone, stream, changes, until>>

\* Faults: fan_out without the filter, and a retain that keeps only those it
\* sent to.
ChangeForAll(t) ==
  /\ Len(changes) < MaxChanges
  /\ stream' = Sent(open, t)
  /\ open' = open \ gone
  /\ changes' = Append(changes, t)
  /\ UNCHANGED <<stage, filter, gone, since, until>>

ChangePrunesOthers(t) ==
  LET wanting == {s \in open : Wants(s, t)} IN
  /\ Len(changes) < MaxChanges
  /\ stream' = Sent(wanting, t)
  /\ open' = wanting \ gone
  /\ changes' = Append(changes, t)
  /\ UNCHANGED <<stage, filter, gone, since, until>>

\* fan_out, which tools_list_changed, prompts_list_changed,
\* resources_list_changed and resource_updated call: the interested listeners
\* are sent to, and those a send fails for are dropped from the registry.
Change(t) ==
  LET wanting == {s \in open : Wants(s, t)} IN
  /\ Len(changes) < MaxChanges
  /\ stream' = Sent(wanting, t)
  /\ open' = open \ (wanting \cap gone)
  /\ changes' = Append(changes, t)
  /\ UNCHANGED <<stage, filter, gone, since, until>>

\* Fault: the listeners are visited and not drained.
CloseKeepsOpen ==
  /\ open # {}
  /\ stream' = Sent(open, "result")
  /\ until' = Ended(open)
  /\ UNCHANGED <<stage, filter, open, gone, changes, since>>

\* close_all: every registered listener is drained and sent its empty result.
CloseAll ==
  /\ open # {}
  /\ stream' = Sent(open, "result")
  /\ until' = Ended(open)
  /\ open' = {}
  /\ UNCHANGED <<stage, filter, gone, changes, since>>

\* The client drops its response.  The server is not told.
Leave(s) ==
  /\ s \notin gone
  /\ gone' = gone \cup {s}
  /\ until' = Ended({s})
  /\ UNCHANGED <<stage, filter, open, stream, changes, since>>

LNext ==
  \/ \E s \in Subs : Acknowledge(s) \/ Enter(s) \/ Leave(s)
  \/ \E t \in Topics : Change(t)
  \/ CloseAll

LSpec == LInit /\ [][LNext]_lvars

-----------------------------------------------------------------------------
(* Properties. *)

\* What subscription s is owed, by its place among the changes: those it asked
\* for, made since it was registered and before it ended.
Last(s) == IF until[s] = -1 THEN Len(changes) ELSE until[s]

Owed(s) == IF since[s] = -1 THEN {} ELSE {i \in since[s] + 1 .. Last(s) : Wants(s, changes[i])}

\* What it was told, by its place on its stream.
Told(s) == {j \in 1 .. Len(stream[s]) : stream[s][j] \in Topics}

\* Whether `at` says of each notification which change it was made for, in order.
Accounts(at, s) ==
  /\ \A j \in Told(s) : stream[s][j] = changes[at[j]]
  /\ \A j, k \in Told(s) : j < k => at[j] < at[k]
  /\ \A i \in Owed(s) : \E j \in Told(s) : at[j] = i

\* From the moment it is registered until it ends, a subscription is sent
\* every change it asked for and no other, once each and in order, whatever is
\* opened, closed or pruned beside it (listeners.rs:191-212).
HearsExactlyWhatItAskedFor ==
  \A s \in Subs : \E at \in [Told(s) -> Owed(s)] : Accounts(at, s)

\* The acknowledgement is the first message on a stream and the empty result
\* the last, each at most once (listeners.rs:13-17, 157-158, 234-238).
AcknowledgedFirstClosedLast ==
  \A s \in Subs : \A i \in 1 .. Len(stream[s]) :
    /\ stream[s][i] = "ack" <=> i = 1
    /\ stream[s][i] = "result" => i = Len(stream[s])

\* A response body ends when its last sender is dropped: the task's when it
\* returns, the registry's when the listener leaves it.
Over(s) == stage[s] = "returned" /\ s \notin open

\* A client that is still reading never sees its stream end without the final
\* result, so it can tell a shutdown from a dropped connection
\* (listeners.rs:236-238): pruning takes no listener that is still there, and
\* no stream ends between its acknowledgement and its registration.
EndsWithAResult ==
  \A s \in Subs : Over(s) /\ s \notin gone =>
    stream[s] # <<>> /\ stream[s][Len(stream[s])] = "result"

-----------------------------------------------------------------------------
(* The inductive invariant behind the three properties. *)

StagesTrue ==
  \A s \in Subs :
    /\ stage[s] = "new" => stream[s] = <<>> /\ s \notin open
    /\ stage[s] = "acknowledged" =>
         s \notin open /\ Len(stream[s]) = 1 /\ stream[s][1] = "ack"
    /\ s \in open => /\ stage[s] = "returned"
                     /\ Len(stream[s]) > 0
                     /\ \A i \in 1 .. Len(stream[s]) : stream[s][i] # "result"

FrameInv == LTypeOK /\ StagesTrue /\ AcknowledgedFirstClosedLast /\ EndsWithAResult

\* Registered and not ended is in the registry; who left or was sent its result
\* has ended.
RegistryTrue ==
  \A s \in Subs :
    /\ since[s] \in -1 .. Len(changes) /\ until[s] \in -1 .. Len(changes)
    /\ s \in open => since[s] # -1
    /\ since[s] # -1 => stage[s] = "returned"
    /\ since[s] # -1 /\ until[s] = -1 => s \in open
    /\ s \in gone => until[s] # -1
    /\ until[s] # -1 /\ s \notin gone => s \notin open /\ stage[s] = "returned"

LInv == FrameInv /\ RegistryTrue /\ HearsExactlyWhatItAskedFor

=============================================================================
