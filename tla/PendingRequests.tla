---------------------------- MODULE PendingRequests ----------------------------
(***************************************************************************)
(* Questions this server puts to a client, and the answers coming back.    *)
(*                                                                         *)
(* A tool handler asks on the event stream of the call it serves; the      *)
(* client POSTs its answer as an HTTP request of its own.  The table in    *)
(* server/pending.rs pairs the two, CallContext::request                   *)
(* (server/context.rs) is the asking end, and the first lines of           *)
(* McpServer::handle_message_with (server/dispatch.rs) the answering end.  *)
(* All three run on a multi-threaded runtime, so a step here is at most    *)
(* what happens between two atomic operations or two holds of the lock.    *)
(***************************************************************************)
EXTENDS Integers

CONSTANTS Asks,   \* calls of CallContext::request; each is made at most once
          Posts,  \* answers a client POSTs: real, repeated, late or mistaken
          Calls,  \* the streamed calls the questions are asked from
          Ids,    \* the ids a client may name: ones it was sent, guesses, and
                  \* -1 for a message without an id
          None    \* "no post" / "no ask": outside Asks and Posts

ASSUME NoneAssumption == None \notin Asks \cup Posts
ASSUME IdsAssumption == Ids \subseteq Nat \cup {-1}

\* What the receiving half of an ask's oneshot channel may hold besides a post.
Empty  == "empty"    \* the sender is alive and has sent nothing
Orphan == "orphan"   \* the sender was dropped without sending

ASSUME SlotAssumption == {Empty, Orphan} \cap Posts = {}

VARIABLES
  next,      \* PendingRequests::next
  waiting,   \* PendingRequests::waiting: entries [id, ask], ask = whose sender
  hungUp,    \* calls whose stream the client has stopped reading
  pc,        \* where each ask is in CallContext::request
  of,        \* the call each ask was made from
  num,       \* the id each ask was issued
  slot,      \* the receiving half of each ask's channel
  outcome,   \* what request() returned
  ppc,       \* where each post is in PendingRequests::resolve
  answers,   \* the id each post names
  refusal,   \* whether the post is an error response
  sender     \* the ask whose sender the post took out of the table

askVars  == <<pc, of, num, slot, outcome>>
postVars == <<ppc, answers, refusal, sender>>
vars     == <<next, waiting, hungUp, pc, of, num, slot, outcome,
              ppc, answers, refusal, sender>>

Stages   == {"idle", "numbered", "registered", "waiting", "quitting", "ended"}
Outcomes == {"none", "answered", "refused", "hung_up", "disowned",
             "timed_out", "dropped"}

TypeOK ==
  /\ next \in Nat
  /\ waiting \in SUBSET [id : Nat, ask : Asks]
  /\ hungUp \in SUBSET Calls
  /\ pc \in [Asks -> Stages]
  /\ of \in [Asks -> Calls]
  /\ num \in [Asks -> Nat \cup {-1}]
  /\ slot \in [Asks -> Posts \cup {Empty, Orphan}]
  /\ outcome \in [Asks -> Outcomes]
  /\ ppc \in [Posts -> {"idle", "claimed", "delivered", "unclaimed"}]
  /\ answers \in [Posts -> Nat \cup {-1}]
  /\ refusal \in [Posts -> BOOLEAN]
  /\ sender \in [Posts -> Asks \cup {None}]

Init ==
  /\ next = 0
  /\ waiting = {}
  /\ hungUp = {}
  /\ pc = [a \in Asks |-> "idle"]
  /\ of \in [Asks -> Calls]
  /\ num = [a \in Asks |-> -1]
  /\ slot = [a \in Asks |-> Empty]
  /\ outcome = [a \in Asks |-> "none"]
  /\ ppc = [p \in Posts |-> "idle"]
  /\ answers = [p \in Posts |-> -1]
  /\ refusal \in [Posts -> BOOLEAN]
  /\ sender = [p \in Posts |-> None]

-----------------------------------------------------------------------------
(* The table. *)

Without(i)    == {w \in waiting : w.id # i}
Entry(i)      == {w \in waiting : w.id = i}
Insert(i, a)  == Without(i) \cup {[id |-> i, ask |-> a]}

\* The receivers left when the senders of the asks in S are dropped.
Orphaned(S) ==
  [b \in Asks |-> IF b \in S /\ slot[b] = Empty THEN Orphan ELSE slot[b]]

AsksOf(entries) == {w.ask : w \in entries}

-----------------------------------------------------------------------------
(* PendingRequests::issue: the number is taken before the lock is. *)

\* Fault, for the checks to catch: an id that is read and not advanced.
NumberReused(a) ==
  /\ pc[a] = "idle"
  /\ num' = [num EXCEPT ![a] = next]
  /\ pc' = [pc EXCEPT ![a] = "numbered"]
  /\ UNCHANGED <<next, waiting, hungUp, of, slot, outcome, postVars>>

Number(a) ==
  /\ pc[a] = "idle"
  /\ num' = [num EXCEPT ![a] = next]
  /\ next' = next + 1
  /\ pc' = [pc EXCEPT ![a] = "numbered"]
  /\ UNCHANGED <<waiting, hungUp, of, slot, outcome, postVars>>

\* HashMap::insert drops the sender of an entry it replaces.
Register(a) ==
  /\ pc[a] = "numbered"
  /\ waiting' = Insert(num[a], a)
  /\ slot' = Orphaned(AsksOf(Entry(num[a])))
  /\ pc' = [pc EXCEPT ![a] = "registered"]
  /\ UNCHANGED <<next, hungUp, of, num, outcome, postVars>>

-----------------------------------------------------------------------------
(* CallContext::request, from the send on. *)

Send(a) ==
  /\ pc[a] = "registered"
  /\ IF of[a] \in hungUp
       THEN /\ pc' = [pc EXCEPT ![a] = "quitting"]
            /\ outcome' = [outcome EXCEPT ![a] = "hung_up"]
       ELSE /\ pc' = [pc EXCEPT ![a] = "waiting"]
            /\ UNCHANGED outcome
  /\ UNCHANGED <<next, waiting, hungUp, of, num, slot, postVars>>

\* The receiver resolves: to an answer, or because its sender is gone.
Hear(a) ==
  /\ pc[a] = "waiting"
  /\ slot[a] # Empty
  /\ pc' = [pc EXCEPT ![a] = IF slot[a] = Orphan THEN "quitting" ELSE "ended"]
  /\ outcome' = [outcome EXCEPT ![a] = IF slot[a] = Orphan THEN "disowned"
                                       ELSE IF refusal[slot[a]] THEN "refused"
                                       ELSE "answered"]
  /\ UNCHANGED <<next, waiting, hungUp, of, num, slot, postVars>>

\* Fault: the wait starts over instead of ending.
TimeOutRestarts(a) ==
  /\ pc[a] = "waiting"
  /\ slot[a] = Empty
  /\ UNCHANGED vars

\* tokio's Timeout polls the receiver before the timer, so it elapses only on
\* an empty receiver, which is dropped with it.
TimeOut(a) ==
  /\ pc[a] = "waiting"
  /\ slot[a] = Empty
  /\ pc' = [pc EXCEPT ![a] = "quitting"]
  /\ outcome' = [outcome EXCEPT ![a] = "timed_out"]
  /\ UNCHANGED <<next, waiting, hungUp, of, num, slot, postVars>>

\* Fault: a path that gives up and keeps its entry.
ForgetNothing(a) ==
  /\ pc[a] = "quitting"
  /\ pc' = [pc EXCEPT ![a] = "ended"]
  /\ UNCHANGED <<next, waiting, hungUp, of, num, slot, outcome, postVars>>

\* PendingRequests::forget, on each of the three paths that give up.
Forget(a) ==
  /\ pc[a] = "quitting"
  /\ waiting' = Without(num[a])
  /\ slot' = Orphaned(AsksOf(Entry(num[a])) \ {a})
  /\ pc' = [pc EXCEPT ![a] = "ended"]
  /\ UNCHANGED <<next, hungUp, of, num, outcome, postVars>>

\* The handler drops the future of request() at its only await, as select! or
\* a timeout of the handler's own does: no code of request() runs again.
Drop(a) ==
  /\ pc[a] = "waiting"
  /\ pc' = [pc EXCEPT ![a] = "ended"]
  /\ outcome' = [outcome EXCEPT ![a] = "dropped"]
  /\ UNCHANGED <<next, waiting, hungUp, of, num, slot, postVars>>

-----------------------------------------------------------------------------
(* handle_message_with on a response, and PendingRequests::resolve. *)

\* Fault: an answer goes to whoever is waiting, whatever id it names.
ClaimAny(p, i) ==
  /\ ppc[p] = "idle"
  /\ \E w \in waiting :
       /\ sender' = [sender EXCEPT ![p] = w.ask]
       /\ waiting' = waiting \ {w}
  /\ answers' = [answers EXCEPT ![p] = i]
  /\ ppc' = [ppc EXCEPT ![p] = "claimed"]
  /\ UNCHANGED <<next, hungUp, askVars, refusal>>

\* The entry leaves the table under the lock; the answer is sent after it.
Claim(p, i) ==
  /\ ppc[p] = "idle"
  /\ \E w \in Entry(i) :
       /\ sender' = [sender EXCEPT ![p] = w.ask]
       /\ waiting' = waiting \ {w}
  /\ answers' = [answers EXCEPT ![p] = i]
  /\ ppc' = [ppc EXCEPT ![p] = "claimed"]
  /\ UNCHANGED <<next, hungUp, askVars, refusal>>

\* An id nobody waits on, or (i = -1) no id at all: nothing changes hands.
Ignore(p, i) ==
  /\ ppc[p] = "idle"
  /\ Entry(i) = {}
  /\ answers' = [answers EXCEPT ![p] = i]
  /\ ppc' = [ppc EXCEPT ![p] = "unclaimed"]
  /\ UNCHANGED <<next, waiting, hungUp, askVars, refusal, sender>>

Listening(a) == pc[a] \in {"numbered", "registered", "waiting"}

\* oneshot::Sender::send: lost when the receiver is gone, and not reported.
Deliver(p) ==
  /\ ppc[p] = "claimed"
  /\ slot' = IF Listening(sender[p])
               THEN [slot EXCEPT ![sender[p]] = p] ELSE slot
  /\ ppc' = [ppc EXCEPT ![p] = "delivered"]
  /\ UNCHANGED <<next, waiting, hungUp, pc, of, num, outcome,
                 answers, refusal, sender>>

-----------------------------------------------------------------------------
\* The client stops reading a call's stream.
HangUp(c) ==
  /\ c \notin hungUp
  /\ hungUp' = hungUp \cup {c}
  /\ UNCHANGED <<next, waiting, askVars, postVars>>

Finish(a) == Hear(a) \/ TimeOut(a) \/ Forget(a)

AskStep(a) == Number(a) \/ Register(a) \/ Send(a) \/ Finish(a) \/ Drop(a)

PostStep(p) == Deliver(p) \/ \E i \in Ids : Claim(p, i) \/ Ignore(p, i)

Next ==
  \/ \E a \in Asks : AskStep(a)
  \/ \E p \in Posts : PostStep(p)
  \/ \E c \in Calls : HangUp(c)

Spec == Init /\ [][Next]_vars

\* The runtime keeps polling a task that can go on and its timers fire.  A
\* handler need not ask, a client need not answer, nobody need hang up.
Fairness ==
  /\ \A a \in Asks : WF_vars(Register(a)) /\ WF_vars(Send(a)) /\ WF_vars(Finish(a))
  /\ \A p \in Posts : WF_vars(Deliver(p))

FairSpec == Spec /\ Fairness

-----------------------------------------------------------------------------
(* Properties. *)

\* What a caller of request() holds is the answer of a client that named its
\* id, and no answer is handed to two callers: the id is the only thing that
\* ties two HTTP requests together (pending.rs:39-69).
OwnAnswerOnly ==
  \A a \in Asks : slot[a] \in Posts =>
    /\ answers[slot[a]] = num[a]
    /\ \A b \in Asks \ {a} : slot[b] # slot[a]

\* A question that was answered, gave up or could not be sent leaves no entry
\* in the table; only a handler that dropped the future of request() does,
\* until the client answers (pending.rs:71-74, context.rs:278-297).
NothingLeftBehind ==
  \A w \in waiting : \/ pc[w.ask] \in {"registered", "waiting", "quitting"}
                     \/ outcome[w.ask] = "dropped"

\* Registering and forgetting questions never drops the sender of another one:
\* "the client never answered" (context.rs:286-289) is an outcome no schedule
\* produces, because no two questions ever share an id.
NeverDisowned ==
  \A a \in Asks : slot[a] # Orphan /\ outcome[a] # "disowned"

\* Whatever the client does, request() returns (context.rs:20-24: without a
\* limit a silent client would hold the call open for the life of the process).
EveryAskEnds ==
  \A a \in Asks : pc[a] = "numbered" ~> pc[a] = "ended"

-----------------------------------------------------------------------------
(* The inductive invariant behind the safety properties above. *)

IdsTrue ==
  /\ \A a \in Asks : (pc[a] = "idle" <=> num[a] = -1) /\ num[a] < next
  /\ \A a, b \in Asks : num[a] = num[b] /\ num[a] # -1 => a = b

\* A registered sender belongs to the question with that id, unanswered so far.
TableTrue ==
  \A w \in waiting : /\ w.id = num[w.ask]
                     /\ pc[w.ask] \notin {"idle", "numbered"}
                     /\ slot[w.ask] = Empty

\* A sender taken out of the table is in one resolver's hands, and only there.
SendersTrue ==
  \A p \in Posts :
    /\ ppc[p] \in {"claimed", "delivered"} <=> sender[p] # None
    /\ sender[p] # None =>
         /\ answers[p] = num[sender[p]]
         /\ pc[sender[p]] \notin {"idle", "numbered"}
         /\ \A w \in waiting : w.ask # sender[p]
         /\ \A q \in Posts : sender[q] = sender[p] => q = p
    /\ ppc[p] = "claimed" => slot[sender[p]] = Empty
    /\ ppc[p] = "idle" => answers[p] = -1

SlotsTrue ==
  \A a \in Asks : /\ slot[a] # Orphan
                  /\ slot[a] \in Posts => sender[slot[a]] = a

OutcomesTrue ==
  \A a \in Asks :
    /\ pc[a] \in {"idle", "numbered", "registered", "waiting"} => outcome[a] = "none"
    /\ outcome[a] # "disowned"

IInv ==
  TypeOK /\ IdsTrue /\ TableTrue /\ SendersTrue /\ SlotsTrue /\ OutcomesTrue
         /\ NothingLeftBehind

-----------------------------------------------------------------------------
(* What the three pieces of code promise together. *)

StageOf(a) ==
  CASE pc[a] = "idle" -> "idle"
    [] pc[a] \in {"quitting", "ended"} -> "ended"
    [] OTHER -> "open"

VerdictOf(a) == IF outcome[a] \in {"answered", "refused"} THEN slot[a] ELSE None

Questions == INSTANCE ClientQuestions WITH
  stage   <- [a \in Asks |-> StageOf(a)],
  number  <- num,
  verdict <- [a \in Asks |-> VerdictOf(a)],
  names   <- answers

\* The table, the asking end and the answering end implement ClientQuestions:
\* every question gets a number of its own and ends once, with the answer of a
\* post naming that number or with none, and no post answers two questions.
ImplementsQuestions == Questions!Spec

=============================================================================
