---------------------------- MODULE StreamedCalls ----------------------------
(***************************************************************************)
(* Calls answered on an event stream (stream() in server/http/handler.rs   *)
(* and event_stream in server/http/response.rs).                           *)
(*                                                                         *)
(* The handler of a call runs in a task of its own and speaks through a    *)
(* clonable CallContext: it notifies, it asks (PendingRequests), it may    *)
(* hand a clone to a helper it spawns, and it returns a result.  Whatever  *)
(* is sent is queued on the unbounded channel that feeds the response      *)
(* body; the body ends when the last sender is dropped.                    *)
(***************************************************************************)
EXTENDS PendingRequests, Sequences

CONSTANT MaxNotes   \* bound: notifications queued on one stream

ASSUME MaxNotesAssumption == MaxNotes \in Nat

VARIABLES
  phase,     \* the task of each call
  helper,    \* a clone of the call's context held by a task that outlives
             \* nothing in particular: the handler need not wait for it
  byHelper,  \* the asks made by helpers, fixed by the handler's code
  stream     \* what each call has put on its event stream, in order

callVars == <<phase, helper, byHelper, stream>>
allVars  == <<vars, callVars>>

Event == {"note", "ask", "result"}

CallsTypeOK ==
  /\ phase \in [Calls -> {"idle", "running", "returned", "done"}]
  /\ helper \in [Calls -> {"none", "alive", "gone"}]
  /\ byHelper \in SUBSET Asks
  /\ stream \in [Calls -> Seq(Event)]

CallsInit ==
  /\ Init
  /\ phase = [c \in Calls |-> "idle"]
  /\ helper = [c \in Calls |-> "none"]
  /\ byHelper \in SUBSET Asks
  /\ stream = [c \in Calls |-> <<>>]

-----------------------------------------------------------------------------

\* UnboundedSender::send: an error, which every sender here ignores or turns
\* into "the client hung up", once the client has stopped reading.
Queue(c, event) ==
  stream' = IF c \in hungUp THEN stream ELSE [stream EXCEPT ![c] = Append(@, event)]

Notes(c) == Len(SelectSeq(stream[c], LAMBDA e : e = "note"))

\* Some task holds a context of the call.
Speaking(c) == phase[c] = "running" \/ helper[c] = "alive"

\* needs_stream holds and the client accepts an event stream.
Accept(c) ==
  /\ phase[c] = "idle"
  /\ phase' = [phase EXCEPT ![c] = "running"]
  /\ UNCHANGED <<vars, helper, byHelper, stream>>

SpawnHelper(c) ==
  /\ phase[c] = "running"
  /\ helper[c] = "none"
  /\ helper' = [helper EXCEPT ![c] = "alive"]
  /\ UNCHANGED <<vars, phase, byHelper, stream>>

\* CallContext::notify, and progress and log, which send through it.
Notify(c) ==
  /\ Speaking(c)
  /\ Notes(c) < MaxNotes
  /\ Queue(c, "note")
  /\ UNCHANGED <<vars, phase, helper, byHelper>>

\* CallContext::request begins in the handler or in its helper.
StartAsk(a) ==
  /\ IF a \in byHelper THEN helper[of[a]] = "alive" ELSE phase[of[a]] = "running"
  /\ Number(a)
  /\ UNCHANGED callVars

SendAsk(a) ==
  /\ Send(a)
  /\ Queue(of[a], "ask")
  /\ UNCHANGED <<phase, helper, byHelper>>

\* Every other step of an ask or of a post leaves the streams alone.
OtherAskStep(a) == (Register(a) \/ Finish(a) \/ Drop(a)) /\ UNCHANGED callVars
Answering(p)    == PostStep(p) /\ UNCHANGED callVars

Settled(S) == \A a \in S : pc[a] \in {"idle", "ended"}

\* Fault: a handler that returns while a question of its own is open.
ReturnUnawaited(c) ==
  /\ phase[c] = "running"
  /\ phase' = [phase EXCEPT ![c] = "returned"]
  /\ UNCHANGED <<vars, helper, byHelper, stream>>

\* The handler's own questions are awaited by it, so it returns after them.
Return(c) ==
  /\ phase[c] = "running"
  /\ Settled({a \in Asks \ byHelper : of[a] = c})
  /\ phase' = [phase EXCEPT ![c] = "returned"]
  /\ UNCHANGED <<vars, helper, byHelper, stream>>

\* Fault: the result is queued before the handler is through.
SendResultEarly(c) ==
  /\ phase[c] \in {"running", "returned"}
  /\ phase' = [phase EXCEPT ![c] = "done"]
  /\ Queue(c, "result")
  /\ UNCHANGED <<vars, helper, byHelper>>

\* The task sends the answer, then drops its sender.
SendResult(c) ==
  /\ phase[c] = "returned"
  /\ phase' = [phase EXCEPT ![c] = "done"]
  /\ Queue(c, "result")
  /\ UNCHANGED <<vars, helper, byHelper>>

HelperEnds(c) ==
  /\ helper[c] = "alive"
  /\ Settled({a \in byHelper : of[a] = c})
  /\ helper' = [helper EXCEPT ![c] = "gone"]
  /\ UNCHANGED <<vars, phase, byHelper, stream>>

\* The client drops a response it has been given.
ClientLeaves(c) ==
  /\ phase[c] # "idle"
  /\ HangUp(c)
  /\ UNCHANGED callVars

CallsNext ==
  \/ \E c \in Calls : \/ Accept(c) \/ SpawnHelper(c) \/ Notify(c) \/ Return(c)
                      \/ SendResult(c) \/ HelperEnds(c) \/ ClientLeaves(c)
  \/ \E a \in Asks : StartAsk(a) \/ SendAsk(a) \/ OtherAskStep(a)
  \/ \E p \in Posts : Answering(p)

CallsSpec == CallsInit /\ [][CallsNext]_allVars

\* As in PendingRequests, and a handler or a helper that has stopped asking
\* finishes: a tool that computes for ever is not the server's to stop.
CallsFairness ==
  /\ \A a \in Asks : /\ WF_allVars(SendAsk(a))
                     /\ WF_allVars(Register(a) /\ UNCHANGED callVars)
                     /\ WF_allVars(Finish(a) /\ UNCHANGED callVars)
  /\ \A c \in Calls : /\ WF_allVars(Return(c)) /\ WF_allVars(SendResult(c))
                      /\ WF_allVars(HelperEnds(c))

CallsFairSpec == CallsSpec /\ CallsFairness

-----------------------------------------------------------------------------
(* Properties. *)

Results(c) == {i \in 1 .. Len(stream[c]) : stream[c][i] = "result"}

\* The response body has ended: every sender is gone.
Closed(c) == phase[c] = "done" /\ helper[c] # "alive"

\* A handler that kept its context to itself is answered exactly once, after
\* everything it said; a client still reading when the task ends has the
\* result (handler.rs:157-178).
ResultComesLast ==
  \A c \in Calls :
    /\ helper[c] = "none" /\ Results(c) # {} => Results(c) = {Len(stream[c])}
    /\ phase[c] = "done" /\ c \notin hungUp => Results(c) # {}

\* By the time a call's result is queued, every question its handler asked has
\* been settled and has left the table, unless the handler dropped it
\* (context.rs:278-297): no call finishes with the server still waiting on it.
NoQuestionOutlivesItsCall ==
  \A w \in waiting :
    (phase[of[w.ask]] \in {"returned", "done"} /\ w.ask \notin byHelper)
      => outcome[w.ask] = "dropped"

\* A client that never answers and never leaves does not hold the response
\* open (context.rs:20-24): the stream of every call ends.
StreamCloses == \A c \in Calls : phase[c] = "running" ~> Closed(c)

-----------------------------------------------------------------------------
(* The inductive invariant behind the safety properties above. *)

\* A question is asked by a task that is still there while it is in progress.
AskersTrue ==
  \A a \in Asks : pc[a] # "idle" =>
    IF a \in byHelper
      THEN helper[of[a]] # "none"
      ELSE phase[of[a]] = "running" \/ (phase[of[a]] # "idle" /\ pc[a] = "ended")

\* No result before the task is done, and none lost to a client that reads.
StreamsTrue ==
  \A c \in Calls :
    /\ phase[c] # "done" => Results(c) = {}
    /\ helper[c] # "none" => phase[c] # "idle"

CallsInv == IInv /\ CallsTypeOK /\ AskersTrue /\ StreamsTrue /\ ResultComesLast

=============================================================================
