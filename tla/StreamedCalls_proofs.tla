------------------------- MODULE StreamedCalls_proofs -------------------------
(***************************************************************************)
(* Proofs about StreamedCalls and the table it asks through,               *)
(* PendingRequests: the table, for any number of questions, posts and      *)
(* calls, and any ids a client names; then that what the table guarantees  *)
(* survives being composed with the calls, and that the streams end as     *)
(* they should.                                                            *)
(***************************************************************************)
EXTENDS StreamedCalls, TLAPS

-----------------------------------------------------------------------------
(* The table: PendingRequests. *)

USE NoneAssumption, SlotAssumption, IdsAssumption
    DEF Empty, Orphan, Stages, Outcomes

\* The invariant holds of an empty table.
LEMMA InitIInv == Init => IInv
BY DEF Init, IInv, TypeOK, IdsTrue, TableTrue, SendersTrue, SlotsTrue,
       OutcomesTrue, NothingLeftBehind

\* No two entries of the table share an id, and none has the id of a question
\* that is yet to be registered.
LEMMA EntryIsUnique ==
  ASSUME IInv, NEW w \in waiting, NEW a \in Asks, w.id = num[a]
  PROVE  w.ask = a
<1>1. w \in [id : Nat, ask : Asks]
  BY DEF IInv, TypeOK
<1>2. w.ask \in Asks /\ w.id \in Nat
  BY <1>1
<1>3. w.id = num[w.ask] /\ w.id # -1
  BY <1>2 DEF IInv, TableTrue
<1> QED
  BY <1>2, <1>3 DEF IInv, IdsTrue

\* Taking a number keeps every other question's id and makes a fresh one.
LEMMA NumberStep ==
  ASSUME IInv, NEW a \in Asks, Number(a)
  PROVE  IInv'
<1> USE DEF IInv, Number, askVars, postVars
<1>1. TypeOK'
  BY DEF TypeOK
<1>2. \A b \in Asks : num[b] < next /\ num[b] \in Int /\ next \in Nat
  BY DEF TypeOK, IdsTrue
<1>3. IdsTrue'
  BY <1>2 DEF TypeOK, IdsTrue
<1>4. TableTrue' /\ NothingLeftBehind'
  BY DEF TypeOK, TableTrue, NothingLeftBehind
<1>5. SendersTrue'
  BY DEF TypeOK, SendersTrue, IdsTrue
<1>6. SlotsTrue' /\ OutcomesTrue'
  BY DEF TypeOK, SlotsTrue, OutcomesTrue
<1> QED
  BY <1>1, <1>3, <1>4, <1>5, <1>6

\* Registering replaces no other entry, so no sender is dropped.
LEMMA RegisterStep ==
  ASSUME IInv, NEW a \in Asks, Register(a)
  PROVE  IInv'
<1> USE DEF IInv, Register, askVars, postVars
<1>1. Entry(num[a]) = {}
  BY EntryIsUnique DEF Entry, TableTrue
<1>2. slot' = slot
  BY <1>1 DEF Orphaned, AsksOf, TypeOK
<1>3. waiting' = waiting \cup {[id |-> num[a], ask |-> a]}
  BY <1>1 DEF Insert, Without, Entry
<1>4. num[a] \in Nat /\ slot[a] = Empty /\ \A p \in Posts : sender[p] # a
  BY DEF TypeOK, IdsTrue, SlotsTrue, SendersTrue
<1>5. TypeOK'
  BY <1>2, <1>3, <1>4 DEF TypeOK
<1>6. IdsTrue' /\ OutcomesTrue'
  BY DEF TypeOK, IdsTrue, OutcomesTrue
<1>7. TableTrue' /\ NothingLeftBehind'
  BY <1>2, <1>3, <1>4 DEF TypeOK, TableTrue, NothingLeftBehind
<1>8. SendersTrue' /\ SlotsTrue'
  BY <1>2, <1>3, <1>4 DEF TypeOK, SendersTrue, SlotsTrue
<1> QED
  BY <1>5, <1>6, <1>7, <1>8

\* Sending, hearing the answer, timing out and being dropped move the ask on
\* and leave the table and the senders alone.
LEMMA WaitingStep ==
  ASSUME IInv, NEW a \in Asks, Send(a) \/ Hear(a) \/ TimeOut(a) \/ Drop(a)
  PROVE  IInv'
<1> USE DEF IInv, Send, Hear, TimeOut, Drop, postVars
<1>1. TypeOK' /\ IdsTrue'
  BY DEF TypeOK, IdsTrue
<1>2. CASE Hear(a)
  <2>1. slot[a] \in Posts /\ \A w \in waiting : w.ask # a
    BY <1>2 DEF TypeOK, TableTrue, SlotsTrue
  <2> QED
    BY <1>1, <1>2, <2>1 DEF TypeOK, TableTrue, SendersTrue, SlotsTrue,
       OutcomesTrue, NothingLeftBehind
<1>3. CASE Send(a) \/ TimeOut(a) \/ Drop(a)
  BY <1>1, <1>3 DEF TypeOK, TableTrue, SendersTrue, SlotsTrue, OutcomesTrue,
     NothingLeftBehind
<1> QED
  BY <1>2, <1>3

\* Forgetting removes the ask's own entry and nobody else's.
LEMMA ForgetStep ==
  ASSUME IInv, NEW a \in Asks, Forget(a)
  PROVE  IInv'
<1> USE DEF IInv, Forget, postVars
<1>1. \A w \in waiting : w.id = num[a] => w.ask = a
  BY EntryIsUnique
<1>2. slot' = slot
  BY <1>1 DEF Orphaned, AsksOf, Entry, TypeOK
<1>3. /\ waiting' \subseteq waiting
      /\ \A w \in waiting' : w.ask # a
  BY DEF Without, TableTrue
<1>4. TypeOK' /\ IdsTrue' /\ OutcomesTrue'
  BY <1>2, <1>3 DEF TypeOK, IdsTrue, OutcomesTrue
<1>5. TableTrue' /\ NothingLeftBehind'
  BY <1>2, <1>3 DEF TypeOK, TableTrue, NothingLeftBehind
<1>6. pc' = [pc EXCEPT ![a] = "ended"] /\ UNCHANGED <<num, ppc, answers, sender>>
  OBVIOUS
<1>7. SendersTrue'
  BY <1>2, <1>3, <1>6 DEF TypeOK, SendersTrue
<1>8. SlotsTrue'
  BY <1>2 DEF SlotsTrue
<1> QED
  BY <1>4, <1>5, <1>7, <1>8

\* A post that claims a question moves its sender from the table to one hand.
LEMMA ClaimStep ==
  ASSUME IInv, NEW p \in Posts, NEW i \in Ids, Claim(p, i)
  PROVE  IInv'
<1> USE DEF IInv, Claim, askVars
<1>1. PICK w \in Entry(i) : /\ sender' = [sender EXCEPT ![p] = w.ask]
                            /\ waiting' = waiting \ {w}
  OBVIOUS
<1>2. /\ w \in waiting /\ w.id = i /\ w.ask \in Asks /\ w.id = num[w.ask]
      /\ slot[w.ask] = Empty /\ pc[w.ask] \notin {"idle", "numbered"}
      /\ \A q \in Posts : sender[q] # w.ask
  BY DEF Entry, TypeOK, TableTrue, SendersTrue
<1>3. \A v \in waiting : v.ask = w.ask => v = w
  BY <1>2 DEF TypeOK, TableTrue
<1>4. i \in Nat \cup {-1}
  OBVIOUS
<1>5. TypeOK' /\ IdsTrue' /\ OutcomesTrue'
  BY <1>1, <1>2, <1>4 DEF TypeOK, IdsTrue, OutcomesTrue
<1>6. TableTrue' /\ NothingLeftBehind'
  BY <1>1, <1>2 DEF TypeOK, TableTrue, NothingLeftBehind
<1>7. SlotsTrue'
  <2>1. \A b \in Asks : slot[b] # p
    BY DEF SlotsTrue, SendersTrue, TypeOK
  <2> QED
    BY <1>1, <2>1 DEF TypeOK, SlotsTrue
<1>8. SendersTrue'
  BY <1>1, <1>2, <1>3 DEF TypeOK, SendersTrue
<1> QED
  BY <1>5, <1>6, <1>7, <1>8

\* A post nobody waits for takes nothing.
LEMMA IgnoreStep ==
  ASSUME IInv, NEW p \in Posts, NEW i \in Ids, Ignore(p, i)
  PROVE  IInv'
<1> USE DEF IInv, Ignore, askVars
<1>1. TypeOK' /\ IdsTrue' /\ OutcomesTrue'
  BY DEF TypeOK, IdsTrue, OutcomesTrue
<1>2. TableTrue' /\ NothingLeftBehind' /\ SlotsTrue'
  BY DEF TypeOK, TableTrue, NothingLeftBehind, SlotsTrue
<1>3. sender[p] = None
  BY DEF SendersTrue
<1>4. SendersTrue'
  BY <1>3 DEF TypeOK, SendersTrue
<1> QED
  BY <1>1, <1>2, <1>4

\* An answer reaches the receiver of the sender it was sent on, or nobody.
LEMMA DeliverStep ==
  ASSUME IInv, NEW p \in Posts, Deliver(p)
  PROVE  IInv'
<1> USE DEF IInv, Deliver
<1>1. sender[p] \in Asks /\ slot[sender[p]] = Empty
  BY DEF TypeOK, SendersTrue
<1>2. TypeOK' /\ IdsTrue' /\ OutcomesTrue'
  BY <1>1 DEF TypeOK, IdsTrue, OutcomesTrue
<1>3. TableTrue' /\ NothingLeftBehind'
  BY <1>1 DEF TypeOK, TableTrue, NothingLeftBehind, SendersTrue
<1>4. SlotsTrue'
  BY <1>1 DEF TypeOK, SlotsTrue
<1>5. SendersTrue'
  BY <1>1 DEF TypeOK, SendersTrue
<1> QED
  BY <1>2, <1>3, <1>4, <1>5

\* A client that hangs up touches neither the table nor any question.
LEMMA OtherStep ==
  ASSUME IInv, (\E c \in Calls : HangUp(c)) \/ UNCHANGED vars
  PROVE  IInv'
BY DEF IInv, HangUp, vars, askVars, postVars, TypeOK, IdsTrue, TableTrue,
       SendersTrue, SlotsTrue, OutcomesTrue, NothingLeftBehind

\* IInv is inductive.
LEMMA StepIInv == IInv /\ [Next]_vars => IInv'
<1> SUFFICES ASSUME IInv, [Next]_vars PROVE IInv'
  OBVIOUS
<1>1. ASSUME NEW a \in Asks, AskStep(a) PROVE IInv'
  BY <1>1, NumberStep, RegisterStep, WaitingStep, ForgetStep DEF AskStep, Finish
<1>2. ASSUME NEW p \in Posts, PostStep(p) PROVE IInv'
  BY <1>2, DeliverStep, ClaimStep, IgnoreStep DEF PostStep
<1> QED
  BY <1>1, <1>2, OtherStep DEF Next

\* The table, the senders in flight and the receivers agree in every
\* reachable state, whatever the schedule and whatever the client posts.
THEOREM Consistent == Spec => []IInv
BY InitIInv, StepIInv, PTL DEF Spec

\* No caller ever holds an answer to another caller's question, and no answer
\* is held by two callers.
THEOREM OwnAnswers == Spec => []OwnAnswerOnly
<1>1. IInv => OwnAnswerOnly
  BY DEF IInv, TypeOK, SendersTrue, SlotsTrue, OwnAnswerOnly
<1> QED
  BY <1>1, Consistent, PTL

\* An entry in the table belongs to a question still in progress, or to one
\* whose future the handler dropped.
THEOREM TableIsTidy == Spec => []NothingLeftBehind
<1>1. IInv => NothingLeftBehind
  BY DEF IInv
<1> QED
  BY <1>1, Consistent, PTL

\* The "client never answered" outcome is unreachable.
THEOREM NobodyDisowned == Spec => []NeverDisowned
<1>1. IInv => NeverDisowned
  BY DEF IInv, SlotsTrue, OutcomesTrue, NeverDisowned
<1> QED
  BY <1>1, Consistent, PTL

-----------------------------------------------------------------------------
(* The code implements ClientQuestions. *)

\* Nothing is asked at the start.
LEMMA InitMaps == Init => Questions!Init
BY DEF Init, Questions!Init, StageOf, VerdictOf

\* Taking a number opens the question under a number nobody has.
LEMMA NumberMaps ==
  ASSUME IInv, NEW a \in Asks, Number(a)
  PROVE  Questions!Open(a)
<1>1. StageOf(a) = "idle" /\ StageOf(a)' = "open"
  BY DEF IInv, TypeOK, Number, StageOf
<1>2. \A b \in Asks : VerdictOf(b)' = VerdictOf(b)
  BY DEF Number, VerdictOf
<1>3. \A b \in Asks \ {a} : StageOf(b)' = StageOf(b)
  BY DEF IInv, TypeOK, Number, StageOf
<1>4. num' = [num EXCEPT ![a] = num'[a]] /\ num'[a] = next /\ UNCHANGED answers
  BY DEF IInv, TypeOK, Number, postVars
<1>5. next \in Nat \ {num[b] : b \in Asks}
  BY DEF IInv, TypeOK, IdsTrue
<1> QED
  BY <1>1, <1>2, <1>3, <1>4, <1>5 DEF Questions!Open

\* Hearing the answer ends the question with the post that named its id.
LEMMA HearMaps ==
  ASSUME IInv, NEW a \in Asks, Hear(a)
  PROVE  \E p \in Posts : Questions!Answer(a, p)
<1>1. slot[a] \in Posts /\ sender[slot[a]] = a /\ answers[slot[a]] = num[a]
  BY DEF IInv, TypeOK, SlotsTrue, SendersTrue, Hear
<1>2. \A b \in Asks : VerdictOf(b) # slot[a]
  BY <1>1 DEF IInv, TypeOK, SlotsTrue, OutcomesTrue, Hear, VerdictOf
<1>3. StageOf(a) = "open" /\ StageOf(a)' = "ended" /\ VerdictOf(a)' = slot[a]
  BY <1>1 DEF IInv, TypeOK, Hear, StageOf, VerdictOf
<1>4. \A b \in Asks \ {a} : StageOf(b)' = StageOf(b) /\ VerdictOf(b)' = VerdictOf(b)
  BY DEF IInv, TypeOK, Hear, StageOf, VerdictOf
<1>5. UNCHANGED <<num, answers>>
  BY DEF Hear, postVars
<1>6. Questions!Answer(a, slot[a])
  BY <1>1, <1>2, <1>3, <1>4, <1>5 DEF Questions!Answer
<1> QED
  BY <1>1, <1>6

\* Giving up ends the question without a verdict; so does dropping it.
LEMMA GiveUpMaps ==
  ASSUME IInv, NEW a \in Asks, Send(a) \/ TimeOut(a) \/ Drop(a)
  PROVE  Questions!GiveUp(a) \/ UNCHANGED Questions!vars
<1>1. \A b \in Asks \ {a} : StageOf(b)' = StageOf(b) /\ VerdictOf(b)' = VerdictOf(b)
  BY DEF IInv, TypeOK, Send, TimeOut, Drop, StageOf, VerdictOf
<1>2. VerdictOf(a)' = VerdictOf(a)
  BY DEF IInv, TypeOK, OutcomesTrue, Send, TimeOut, Drop, VerdictOf
<1>3. StageOf(a) = "open" /\ StageOf(a)' \in {"open", "ended"}
  BY DEF IInv, TypeOK, Send, TimeOut, Drop, StageOf
<1>4. UNCHANGED <<num, answers>>
  BY DEF Send, TimeOut, Drop, postVars
<1> QED
  BY <1>1, <1>2, <1>3, <1>4 DEF Questions!GiveUp, Questions!vars

\* Registering and forgetting are the table's own business.
LEMMA TableMaps ==
  ASSUME IInv, IInv', NEW a \in Asks, Register(a) \/ Forget(a)
  PROVE  UNCHANGED Questions!vars
<1>1. \A b \in Asks : StageOf(b)' = StageOf(b)
  BY DEF IInv, TypeOK, Register, Forget, StageOf
<1>2. \A b \in Asks : VerdictOf(b)' = VerdictOf(b)
  BY DEF IInv, TypeOK, SlotsTrue, Register, Forget, Orphaned, VerdictOf
<1> QED
  BY <1>1, <1>2 DEF Register, Forget, postVars, Questions!vars

\* A post arrives by claiming or by being ignored, and says nothing new later.
LEMMA PostMaps ==
  ASSUME IInv, NEW p \in Posts, PostStep(p)
  PROVE  Questions!Arrive(p) \/ UNCHANGED Questions!vars
<1>1. CASE Deliver(p)
  <2>1. \A b \in Asks : VerdictOf(b)' = VerdictOf(b) /\ StageOf(b)' = StageOf(b)
    BY <1>1 DEF IInv, TypeOK, SendersTrue, OutcomesTrue, Deliver, Listening,
       VerdictOf, StageOf
  <2> QED
    BY <1>1, <2>1 DEF Deliver, Questions!vars
<1>2. ASSUME NEW i \in Ids, Claim(p, i) \/ Ignore(p, i)
      PROVE  Questions!Arrive(p) \/ UNCHANGED Questions!vars
  BY <1>2 DEF IInv, TypeOK, SendersTrue, Claim, Ignore, askVars,
     Questions!Arrive, Questions!vars, StageOf, VerdictOf
<1> QED
  BY <1>1, <1>2 DEF PostStep

\* Every step is one of the abstract specification, or a stutter.
LEMMA StepMaps == IInv /\ IInv' /\ [Next]_vars => [Questions!Next]_Questions!vars
<1> SUFFICES ASSUME IInv, IInv', [Next]_vars
             PROVE  Questions!Next \/ UNCHANGED Questions!vars
  OBVIOUS
<1>1. ASSUME NEW a \in Asks, AskStep(a)
      PROVE  Questions!Next \/ UNCHANGED Questions!vars
  BY <1>1, NumberMaps, HearMaps, GiveUpMaps, TableMaps
     DEF AskStep, Finish, Questions!Next
<1>2. ASSUME NEW p \in Posts, PostStep(p)
      PROVE  Questions!Next \/ UNCHANGED Questions!vars
  BY <1>2, PostMaps DEF Questions!Next
<1>3. CASE (\E c \in Calls : HangUp(c)) \/ UNCHANGED vars
  BY <1>3 DEF HangUp, vars, askVars, postVars, Questions!vars, StageOf, VerdictOf
<1> QED
  BY <1>1, <1>2, <1>3 DEF Next

\* The table, the asking end and the answering end keep the promise made in
\* ClientQuestions, for any number of questions and posts.
THEOREM Implements == Spec => ImplementsQuestions
BY InitMaps, StepMaps, Consistent, PTL DEF Spec, ImplementsQuestions, Questions!Spec

-----------------------------------------------------------------------------
(* The calls: StreamedCalls. *)

\* Every step of the composition is a step of the table or leaves it alone.
LEMMA CallsStepIsStep == CallsNext => [Next]_vars
BY DEF CallsNext, Accept, SpawnHelper, Notify, Return, SendResult, HelperEnds,
       ClientLeaves, StartAsk, SendAsk, OtherAskStep, Answering, Next, AskStep,
       vars, callVars

\* Queueing an event that is no result adds no result, and a stream with no
\* result gets its result at the end.
LEMMA QueueResults ==
  ASSUME CallsTypeOK, NEW c \in Calls, NEW e \in Event, Queue(c, e)
  PROVE  /\ stream' \in [Calls -> Seq(Event)]
         /\ \A d \in Calls \ {c} : stream'[d] = stream[d]
         /\ c \in hungUp => stream' = stream
         /\ e # "result" /\ Results(c) = {} => Results(c)' = {}
         /\ Results(c) # {} => Results(c)' # {}
         /\ e = "result" /\ Results(c) = {} /\ c \notin hungUp
              => Results(c)' = {Len(stream'[c])}
<1>1. stream[c] \in Seq(Event)
  BY DEF CallsTypeOK
<1>2. CASE c \in hungUp
  BY <1>2, <1>1 DEF Queue, CallsTypeOK, Results
<1>3. CASE c \notin hungUp
  <2>1. stream'[c] = Append(stream[c], e)
    BY <1>3 DEF Queue, CallsTypeOK
  <2>2. /\ Len(stream'[c]) = Len(stream[c]) + 1
        /\ stream'[c][Len(stream[c]) + 1] = e
        /\ \A i \in 1 .. Len(stream[c]) : stream'[c][i] = stream[c][i]
        /\ Len(stream[c]) \in Nat
    BY <1>1, <2>1
  <2>3. /\ stream' \in [Calls -> Seq(Event)]
        /\ \A d \in Calls \ {c} : stream'[d] = stream[d]
    BY <1>1, <1>3 DEF Queue, CallsTypeOK
  <2> QED
    BY <1>3, <2>2, <2>3 DEF Results
<1> QED
  BY <1>2, <1>3

\* It holds at the start.
LEMMA CallsInitInv == CallsInit => CallsInv
<1> SUFFICES ASSUME CallsInit PROVE CallsInv
  OBVIOUS
<1>1. IInv
  BY InitIInv DEF CallsInit
<1>2. CallsTypeOK
  BY DEF CallsInit, CallsTypeOK, Event
<1>3. \A c \in Calls : Results(c) = {}
  BY DEF CallsInit, Results
<1> QED
  BY <1>1, <1>2, <1>3 DEF CallsInit, Init, CallsInv, AskersTrue, StreamsTrue,
     ResultComesLast

\* Steps of a call's tasks that put nothing on a stream.
LEMMA QuietStep ==
  ASSUME CallsInv, NEW c \in Calls,
         Accept(c) \/ SpawnHelper(c) \/ Return(c) \/ HelperEnds(c) \/ ClientLeaves(c)
  PROVE  CallsTypeOK' /\ AskersTrue' /\ StreamsTrue' /\ ResultComesLast'
<1> USE DEF CallsInv, CallsTypeOK, Accept, SpawnHelper, Return, HelperEnds,
            ClientLeaves, HangUp, vars, callVars, askVars, postVars
<1>1. CallsTypeOK' /\ UNCHANGED stream
  OBVIOUS
<1>2. \A d \in Calls : Results(d)' = Results(d)
  BY <1>1 DEF Results
<1>3. AskersTrue'
  BY DEF AskersTrue, Settled, IInv, TypeOK
<1>4. StreamsTrue'
  BY <1>2 DEF StreamsTrue
<1>5. ResultComesLast'
  BY <1>1, <1>2 DEF ResultComesLast, StreamsTrue
<1> QED
  BY <1>1, <1>3, <1>4, <1>5

\* The two steps of a call that queue an event.
LEMMA SpeakStep ==
  ASSUME CallsInv, NEW c \in Calls, Notify(c) \/ SendResult(c)
  PROVE  CallsTypeOK' /\ AskersTrue' /\ StreamsTrue' /\ ResultComesLast'
<1> USE DEF CallsInv
<1>1. CASE Notify(c)
  <2> USE <1>1 DEF Notify, vars, Speaking
  <2>1. /\ stream' \in [Calls -> Seq(Event)]
        /\ \A d \in Calls \ {c} : stream'[d] = stream[d]
        /\ Results(c) = {} <=> Results(c)' = {}
    BY QueueResults DEF Event
  <2>2. phase[c] = "done" => helper[c] # "none"
    OBVIOUS
  <2>3. \A d \in Calls \ {c} : Results(d)' = Results(d) /\ Len(stream[d])' = Len(stream[d])
    BY <2>1 DEF Results
  <2>4. CallsTypeOK' /\ AskersTrue'
    BY <2>1 DEF CallsTypeOK, AskersTrue
  <2>5. StreamsTrue'
    BY <2>1, <2>3 DEF StreamsTrue
  <2>6. ResultComesLast'
    BY <2>1, <2>2, <2>3 DEF ResultComesLast, StreamsTrue
  <2> QED
    BY <2>4, <2>5, <2>6
<1>2. CASE SendResult(c)
  <2> USE <1>2 DEF SendResult, vars
  <2>1. /\ stream' \in [Calls -> Seq(Event)]
        /\ \A d \in Calls \ {c} : stream'[d] = stream[d]
        /\ c \in hungUp => stream' = stream
        /\ Results(c) = {} /\ c \notin hungUp => Results(c)' = {Len(stream'[c])}
    BY QueueResults DEF Event
  <2>2. Results(c) = {}
    BY DEF StreamsTrue
  <2>3. \A d \in Calls \ {c} : Results(d)' = Results(d) /\ Len(stream[d])' = Len(stream[d])
    BY <2>1 DEF Results
  <2>4. /\ phase'[c] = "done"
        /\ \A d \in Calls \ {c} : phase'[d] = phase[d]
        /\ UNCHANGED <<pc, of, hungUp, helper, byHelper>>
    BY DEF CallsTypeOK
  <2>5. StreamsTrue'
    BY <2>3, <2>4 DEF StreamsTrue
  <2>8. CallsTypeOK'
    BY <2>1 DEF CallsTypeOK
  <2>9. AskersTrue'
    BY <2>4 DEF AskersTrue, IInv, TypeOK
  <2>6. c \in hungUp => Results(c)' = {}
    BY <2>1, <2>2 DEF Results
  <2>7. ResultComesLast'
    BY <2>1, <2>2, <2>3, <2>6 DEF ResultComesLast, CallsTypeOK
  <2> QED
    BY <2>5, <2>7, <2>8, <2>9
<1> QED
  BY <1>1, <1>2

\* Steps of the asks and of the posts.
LEMMA AskingStep ==
  ASSUME CallsInv, IInv', NEW a \in Asks, StartAsk(a) \/ OtherAskStep(a)
  PROVE  CallsTypeOK' /\ AskersTrue' /\ StreamsTrue' /\ ResultComesLast'
<1> USE DEF CallsInv, StartAsk, OtherAskStep, Finish, Number, Register, Hear,
            TimeOut, Forget, Drop, callVars, postVars
<1>1. UNCHANGED <<phase, helper, byHelper, stream, hungUp, of>>
  OBVIOUS
<1>2. CallsTypeOK' /\ StreamsTrue' /\ ResultComesLast'
  BY <1>1 DEF CallsTypeOK, StreamsTrue, ResultComesLast, Results
<1>3. /\ pc[a] = "idle" => StartAsk(a)
      /\ pc[a] # "ended"
      /\ \A b \in Asks \ {a} : pc'[b] = pc[b]
  BY DEF IInv, TypeOK
<1>4. AskersTrue'
  BY <1>1, <1>3 DEF AskersTrue
<1> QED
  BY <1>2, <1>4

\* A question goes out on the stream of its call.
LEMMA SendingStep ==
  ASSUME CallsInv, NEW a \in Asks, SendAsk(a)
  PROVE  CallsTypeOK' /\ AskersTrue' /\ StreamsTrue' /\ ResultComesLast'
<1> USE DEF CallsInv, SendAsk, Send, postVars
<1> DEFINE c == of[a]
<1>1. c \in Calls /\ pc[a] = "registered"
  BY DEF IInv, TypeOK
<1>2. /\ stream' \in [Calls -> Seq(Event)]
      /\ \A d \in Calls \ {c} : stream'[d] = stream[d]
      /\ Results(c) = {} <=> Results(c)' = {}
  BY <1>1, QueueResults DEF Event
<1>3. phase[c] = "running" \/ helper[c] # "none"
  BY <1>1 DEF AskersTrue
<1>4. \A d \in Calls \ {c} : Results(d)' = Results(d) /\ Len(stream[d])' = Len(stream[d])
  BY <1>2 DEF Results
<1>5. CallsTypeOK'
  BY <1>2 DEF CallsTypeOK
<1>6. AskersTrue'
  BY <1>1 DEF AskersTrue, IInv, TypeOK
<1>7. StreamsTrue'
  BY <1>2, <1>4 DEF StreamsTrue
<1>8. ResultComesLast'
  BY <1>2, <1>3, <1>4 DEF ResultComesLast, StreamsTrue
<1> QED
  BY <1>5, <1>6, <1>7, <1>8

\* A post moves the table and no call.
LEMMA AnsweringStep ==
  ASSUME CallsInv, (\E p \in Posts : Answering(p)) \/ UNCHANGED allVars
  PROVE  CallsTypeOK' /\ AskersTrue' /\ StreamsTrue' /\ ResultComesLast'
<1>1. UNCHANGED <<phase, helper, byHelper, stream, hungUp, of, pc>>
  BY DEF Answering, PostStep, Claim, Ignore, Deliver, allVars, vars, callVars, askVars
<1> QED
  BY <1>1 DEF CallsInv, CallsTypeOK, AskersTrue, StreamsTrue, ResultComesLast, Results

\* CallsInv is inductive.
LEMMA CallsStepInv == CallsInv /\ [CallsNext]_allVars => CallsInv'
<1> SUFFICES ASSUME CallsInv, [CallsNext]_allVars PROVE CallsInv'
  OBVIOUS
<1>1. IInv'
  BY StepIInv, CallsStepIsStep DEF CallsInv, allVars
<1>2. CallsTypeOK' /\ AskersTrue' /\ StreamsTrue' /\ ResultComesLast'
  BY <1>1, QuietStep, SpeakStep, AskingStep, SendingStep, AnsweringStep DEF CallsNext
<1> QED
  BY <1>1, <1>2 DEF CallsInv

\* What is proved of the calls holds of every reachable state.
THEOREM CallsConsistent == CallsSpec => []CallsInv
BY CallsInitInv, CallsStepInv, PTL DEF CallsSpec

\* A call whose handler keeps its context to itself is answered once, last,
\* and never goes without an answer while its client reads.
THEOREM ResultLast == CallsSpec => []ResultComesLast
<1>1. CallsInv => ResultComesLast
  BY DEF CallsInv
<1> QED
  BY <1>1, CallsConsistent, PTL

\* A call that returned has no question of its handler's left in the table,
\* but those the handler itself dropped.
THEOREM NoQuestionLeft == CallsSpec => []NoQuestionOutlivesItsCall
<1>1. CallsInv => NoQuestionOutlivesItsCall
  BY DEF CallsInv, IInv, TypeOK, TableTrue, NothingLeftBehind, AskersTrue,
     NoQuestionOutlivesItsCall
<1> QED
  BY <1>1, CallsConsistent, PTL

\* What was proved of the table holds of it inside the server.
THEOREM CallsUsePendingRequests == CallsSpec => Spec
<1>1. CallsInit => Init
  BY DEF CallsInit
<1>2. [CallsNext]_allVars => [Next]_vars
  BY CallsStepIsStep DEF allVars
<1> QED
  BY <1>1, <1>2, PTL DEF CallsSpec, Spec

=============================================================================
