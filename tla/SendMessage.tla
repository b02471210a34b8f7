------------------------------ MODULE SendMessage ------------------------------
(***************************************************************************)
(* A client's request and the loop that awaits its response                *)
(* (send_message_with_options, await_response and answer_inbound in        *)
(* protocol/messages/send_message.rs).                                     *)
(*                                                                         *)
(* All calls of a client read one stream behind a mutex.  The call that    *)
(* holds it takes every message that arrives: its own response, responses  *)
(* to other calls, progress, and requests a legacy server pushes, which it *)
(* answers.  Timeouts drop the waiting future wherever it is.              *)
(***************************************************************************)
EXTENDS CancellationToken, Integers, Sequences

CONSTANTS Callers,   \* calls of send_message_with_options, sharing one token
          Pushes,    \* requests the server sends
          Cap,       \* of the channel to the transport, 100 in the code
          None

ASSUME CallersAssumption ==
  Callers \subseteq Waiters /\ None \notin Callers \cup Pushes /\ Cap \in Nat \ {0}

VARIABLES
  overlap,   \* whether calls are made while another is in flight: the client's choice
  tokened,   \* calls made with a cancellation token
  pc,        \* each call
  result,    \* what it returned
  holder,    \* the call holding the read stream's mutex
  inbox,     \* the read stream
  outbox,    \* the channel to the transport: requests; None is a reply or a notice
  sent,      \* requests the transport took
  answered,  \* requests the server responded to
  lost,      \* responses taken out of the stream by another call
  asked,     \* what became of each pushed request
  asking,    \* the pushed request a call is answering
  closed     \* whether the transport closed its streams

given    == <<overlap, tokened>>
callVars == <<given, pc, result, holder, inbox, outbox, sent, answered, lost, asked, asking, closed>>
sendVars == <<tokenVars, callVars>>

Response(c) == [kind |-> "response", of |-> c]
Progress    == [kind |-> "progress", of |-> None]   \* of whichever call: it calls back, at most
Push(q)     == [kind |-> "push", of |-> q]

Message == [kind : {"response"}, of : Callers] \cup {Progress} \cup [kind : {"push"}, of : Pushes]

SendTypeOK ==
  /\ TokenTypeOK
  /\ overlap \in BOOLEAN /\ tokened \in SUBSET Callers
  /\ pc \in [Callers -> {"idle", "writing", "locking", "selecting", "answering",
                         "cancelling", "ended"}]
  /\ result \in [Callers -> {"none", "response", "cancelled", "timed_out", "closed"}]
  /\ holder \in Callers \cup {None}
  /\ inbox \in Seq(Message) /\ outbox \in Seq(Callers \cup {None})
  /\ {sent, answered, lost} \subseteq SUBSET Callers
  /\ asked \in [Pushes -> {"unasked", "queued", "taken", "replied"}]
  /\ asking \in [Callers -> Pushes \cup {None}]
  /\ closed \in BOOLEAN

SendInit ==
  /\ TokenInit
  /\ overlap \in BOOLEAN /\ tokened \in SUBSET Callers
  /\ pc = [c \in Callers |-> "idle"]
  /\ result = [c \in Callers |-> "none"]
  /\ holder = None
  /\ inbox = <<>> /\ outbox = <<>>
  /\ sent = {} /\ answered = {} /\ lost = {}
  /\ asked = [q \in Pushes |-> "unasked"]
  /\ asking = [c \in Callers |-> None]
  /\ closed = FALSE

-----------------------------------------------------------------------------
(* The pieces of a step. *)

InFlight(c) == pc[c] \notin {"idle", "ended"}

\* Fault: a call that ends and keeps the stream.
EndHolding(c, how) ==
  /\ pc' = [pc EXCEPT ![c] = "ended"]
  /\ result' = [result EXCEPT ![c] = how]
  /\ wpc' = [wpc EXCEPT ![c] = "idle"]
  /\ UNCHANGED holder

\* Faults: any response ends a call, and the comparison of ids inverted.
AnyResponse(m, c)   == m.kind = "response"
OtherResponse(m, c) == m.kind = "response" /\ m # Response(c)

\* The id filter.
IsFor(m, c) == m = Response(c)

\* The call returns; its guard of the mutex and its wait on the token go.
End(c, how) ==
  /\ pc' = [pc EXCEPT ![c] = "ended"]
  /\ result' = [result EXCEPT ![c] = how]
  /\ holder' = IF holder = c THEN None ELSE holder
  /\ wpc' = [wpc EXCEPT ![c] = "idle"]

\* The top of the loop: select! makes a new wait on the token.
Select(c) ==
  /\ pc' = [pc EXCEPT ![c] = "selecting"]
  /\ wpc' = [wpc EXCEPT ![c] = IF c \in tokened THEN "looking" ELSE "idle"]

-----------------------------------------------------------------------------
(* A call. *)

\* A token cancelled beforehand stops the request from being sent.
Begin(c) ==
  /\ pc[c] = "idle"
  /\ overlap \/ \A d \in Callers : ~InFlight(d)
  /\ pc' = [pc EXCEPT ![c] = IF c \in tokened /\ cancelled THEN "cancelling" ELSE "writing"]
  /\ UNCHANGED <<tokenVars, given, result, holder, inbox, outbox, sent, answered, lost,
                 asked, asking, closed>>

\* The channel has room.
Room == Len(outbox) < Cap

\* A message on its way to the server: it waits for room, or is lost to a
\* transport that closed.
Post(m) ==
  \/ closed /\ UNCHANGED outbox
  \/ ~closed /\ Room /\ outbox' = Append(outbox, m)

\* The write waits for room, before the timer of the call starts.
Write(c) ==
  /\ pc[c] = "writing" /\ Post(c)
  /\ IF closed
       THEN End(c, "closed")
       ELSE /\ pc' = [pc EXCEPT ![c] = "locking"]
            /\ UNCHANGED <<result, holder, wpc>>
  /\ UNCHANGED <<cancelled, cpc, given, inbox, sent, answered, lost, asked, asking, closed>>

Lock(c) ==
  /\ pc[c] = "locking" /\ holder = None
  /\ holder' = c
  /\ Select(c)
  /\ UNCHANGED <<cancelled, cpc, given, result, inbox, outbox, sent, answered, lost,
                 asked, asking, closed>>

\* One message out of the stream, by what it is.
Receive(c) ==
  /\ pc[c] = "selecting" /\ inbox # <<>>
  /\ inbox' = Tail(inbox)
  /\ LET m == Head(inbox) IN
       \/ /\ IsFor(m, c)
          /\ End(c, "response")
          /\ UNCHANGED <<lost, asked, asking>>
       \/ /\ m.kind = "push"
          /\ pc' = [pc EXCEPT ![c] = "answering"]
          /\ wpc' = [wpc EXCEPT ![c] = "idle"]
          /\ asking' = [asking EXCEPT ![c] = m.of]
          /\ asked' = [asked EXCEPT ![m.of] = "taken"]
          /\ UNCHANGED <<result, holder, lost>>
       \/ /\ m.kind # "push" /\ ~IsFor(m, c)
          /\ Select(c)
          /\ lost' = IF m.kind = "response" THEN lost \cup {m.of} ELSE lost
          /\ UNCHANGED <<result, holder, asked, asking>>
  /\ UNCHANGED <<cancelled, cpc, given, outbox, sent, answered, closed>>

StreamClosed(c) ==
  /\ pc[c] = "selecting" /\ inbox = <<>> /\ closed
  /\ End(c, "closed")
  /\ UNCHANGED <<cancelled, cpc, given, inbox, outbox, sent, answered, lost, asked, asking, closed>>

\* answer_inbound: the handler's answer, or METHOD_NOT_FOUND without one.
Reply(c) ==
  /\ pc[c] = "answering" /\ Post(None)
  /\ asked' = IF closed THEN asked ELSE [asked EXCEPT ![asking[c]] = "replied"]
  /\ asking' = [asking EXCEPT ![c] = None]
  /\ Select(c)
  /\ UNCHANGED <<cancelled, cpc, given, result, holder, inbox, sent, answered, lost, closed>>

\* The token's future, polled by select!.
PollToken(c) ==
  /\ pc[c] = "selecting"
  /\ Look(c) \/ Sleep(c)
  /\ UNCHANGED callVars

NoticeCancelled(c) ==
  /\ pc[c] = "selecting" /\ wpc[c] = "resolved"
  /\ pc' = [pc EXCEPT ![c] = "cancelling"]
  /\ wpc' = [wpc EXCEPT ![c] = "idle"]
  /\ UNCHANGED <<cancelled, cpc, given, result, holder, inbox, outbox, sent, answered, lost,
                 asked, asking, closed>>

\* cancel_and_report: the server is told, if it still can be.  Of a call that was
\* not made this is outside its timer.
Report(c) ==
  /\ pc[c] = "cancelling" /\ Post(None)
  /\ End(c, "cancelled")
  /\ UNCHANGED <<cancelled, cpc, given, inbox, sent, answered, lost, asked, asking, closed>>

\* Fault: the limit is on each receive, not on the call.
TimeOutReceiving(c) ==
  /\ pc[c] = "selecting"
  /\ End(c, "timed_out")
  /\ asking' = [asking EXCEPT ![c] = None]
  /\ UNCHANGED <<cancelled, cpc, given, inbox, outbox, sent, answered, lost, asked, closed>>

\* tokio's Timeout polls await_response first, so it elapses only where that is
\* waiting: for the mutex, for a message, for the handler or for the channel.
\* Messages without end do not put it off: tokio suspends a receive that used up
\* its budget, with messages left, and then looks at the timer.
TimeOut(c) ==
  /\ \/ pc[c] = "locking" /\ holder # None
     \/ pc[c] = "selecting"
     \/ pc[c] = "answering"
     \/ pc[c] = "cancelling" /\ holder = c
  /\ End(c, "timed_out")
  /\ asking' = [asking EXCEPT ![c] = None]
  /\ UNCHANGED <<cancelled, cpc, given, inbox, outbox, sent, answered, lost, asked, closed>>

-----------------------------------------------------------------------------
(* Everyone else. *)

Arrives(m) == ~closed /\ inbox' = Append(inbox, m)

ServerResponds(c) ==
  /\ c \in sent \ answered
  /\ Arrives(Response(c))
  /\ answered' = answered \cup {c}
  /\ UNCHANGED <<tokenVars, given, pc, result, holder, outbox, sent, lost, asked, asking, closed>>

\* Bound: one progress notification waits in the stream at a time.
ServerProgresses(c) ==
  /\ c \in sent \ answered
  /\ \A i \in 1 .. Len(inbox) : inbox[i].kind # "progress"
  /\ Arrives(Progress)
  /\ UNCHANGED <<tokenVars, given, pc, result, holder, outbox, sent, answered, lost, asked,
                 asking, closed>>

ServerPushes(q) ==
  /\ asked[q] = "unasked"
  /\ Arrives(Push(q))
  /\ asked' = [asked EXCEPT ![q] = "queued"]
  /\ UNCHANGED <<tokenVars, given, pc, result, holder, outbox, sent, answered, lost, asking, closed>>

\* The transport takes the next message, if it gets to: on stdio it first has to
\* be rid of the last one.
Drain ==
  /\ outbox # <<>> /\ outbox' = Tail(outbox)
  /\ sent' = sent \cup ({Head(outbox)} \ {None})
  /\ UNCHANGED <<tokenVars, given, pc, result, holder, inbox, answered, lost, asked, asking, closed>>

\* What was still in the channel is dropped with it.
Close ==
  /\ ~closed
  /\ closed' = TRUE /\ outbox' = <<>>
  /\ UNCHANGED <<tokenVars, given, pc, result, holder, inbox, sent, answered, lost,
                 asked, asking>>

Cancel(k) == (Store(k) \/ NotifyWaiters(k)) /\ UNCHANGED callVars

CallStep(c) ==
  \/ Write(c) \/ Lock(c) \/ Receive(c) \/ StreamClosed(c) \/ Reply(c)
  \/ PollToken(c) \/ NoticeCancelled(c) \/ Report(c)

SendNext ==
  \/ \E c \in Callers : \/ Begin(c) \/ CallStep(c) \/ TimeOut(c)
                        \/ ServerResponds(c) \/ ServerProgresses(c)
  \/ \E q \in Pushes : ServerPushes(q)
  \/ \E k \in Cancellers : Cancel(k)
  \/ Drain \/ Close

SendSpec == SendInit /\ [][SendNext]_sendVars

-----------------------------------------------------------------------------
(* Properties. *)

\* One call holds the stream, from the lock to its end, and none that ended
\* does: no timeout or cancellation leaves the client deaf (lines 202, 162-178).
OneReader ==
  \A c \in Callers :
    /\ pc[c] \in {"selecting", "answering"} => holder = c
    /\ holder = c => pc[c] \in {"selecting", "answering", "cancelling"}

\* A call that got its response is one it was sent for, and a response is handed
\* to its own call or to none (lines 258-264).
OwnResponse ==
  \A c \in Callers : result[c] = "response" => c \in answered \ lost

\* Calls made one after the other, as the stream is meant to be shared (lines
\* 19-23), lose no response while it is awaited, late ones of timed-out calls
\* included.
NoneStolen == ~overlap => \A c \in lost : result[c] \in {"timed_out", "cancelled", "closed"}

-----------------------------------------------------------------------------
(* The inductive invariant behind the safety properties above. *)

\* A response that waits in the stream is the only one of its call, which was
\* not given it and did not lose it.
MailTrue ==
  \A i \in 1 .. Len(inbox) : \A c \in Callers :
    inbox[i] = Response(c) =>
      /\ c \in answered \ lost /\ result[c] # "response"
      /\ \A j \in 1 .. Len(inbox) : inbox[j] = Response(c) => j = i

\* How far the calls have come: only those that were made are sent, answered or
\* lost, an ended one has a result, and calls made in turn do not meet.
CallsTrue ==
  /\ lost \subseteq answered /\ answered \subseteq sent
  /\ \A c \in sent : pc[c] # "idle"
  /\ \A c \in Callers : pc[c] = "ended" => result[c] # "none"
  /\ ~overlap => \A c, d \in Callers : InFlight(c) /\ InFlight(d) => c = d

\* The requests on their way to the transport are of calls that were made.
OutboxTrue == \A i \in 1 .. Len(outbox) : outbox[i] # None => pc[outbox[i]] # "idle"

SInv ==
  /\ SendTypeOK /\ OneReader /\ OwnResponse /\ NoneStolen
  /\ MailTrue /\ CallsTrue /\ OutboxTrue

=============================================================================
