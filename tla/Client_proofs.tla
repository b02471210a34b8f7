------------------------------ MODULE Client_proofs ------------------------------
(***************************************************************************)
(* Proofs about Client and the calls it makes, SendMessage: the calls, for *)
(* any number of them, of pushed requests and of cancellations; then, for  *)
(* any operations, rounds, codes and mixes, that what is proved of the     *)
(* calls holds of the requests a client makes, and that behind the mutex   *)
(* of the Python class they are made in turn.                              *)
(***************************************************************************)
EXTENDS Client, TLAPS

-----------------------------------------------------------------------------
(* Calls: SendMessage. *)

USE CallersAssumption

Stages  == {"idle", "writing", "locking", "selecting", "answering", "cancelling", "ended"}
Results == {"none", "response", "cancelled", "timed_out", "closed"}
Failed  == {"cancelled", "timed_out", "closed"}

\* Before the first call.
LEMMA InitSInv == SendInit => SInv
<1> SUFFICES ASSUME SendInit PROVE SInv
  OBVIOUS
<1> USE DEF SendInit, TokenInit
<1>1. SendTypeOK
  <2>1. TokenTypeOK
    BY DEF TokenTypeOK
  <2>2. inbox \in Seq(Message) /\ outbox \in Seq(Callers \cup {None})
    OBVIOUS
  <2>3. {sent, answered, lost} \subseteq SUBSET Callers
    OBVIOUS
  <2> QED
    BY <2>1, <2>2, <2>3 DEF SendTypeOK
<1>2. OneReader /\ OwnResponse /\ NoneStolen /\ MailTrue
  BY DEF OneReader, OwnResponse, NoneStolen, MailTrue
<1>3. CallsTrue /\ OutboxTrue
  BY DEF CallsTrue, OutboxTrue, InFlight
<1> QED
  BY <1>1, <1>2, <1>3 DEF SInv

\* A step that takes nothing from the stream and gives nobody a response says
\* nothing new about responses.
LEMMA QuietStep ==
  ASSUME SInv, UNCHANGED <<given, inbox, answered, lost>>,
         \A c \in Callers : result'[c] = result[c] \/ result'[c] \in Failed
  PROVE  OwnResponse' /\ NoneStolen' /\ MailTrue'
<1>1. OwnResponse' /\ NoneStolen'
  <2>1. lost \subseteq Callers /\ OwnResponse /\ NoneStolen
    BY DEF SInv, SendTypeOK
  <2> QED
    BY <2>1 DEF OwnResponse, NoneStolen, given, Failed
<1>2. MailTrue'
  <2> SUFFICES ASSUME NEW i \in 1 .. Len(inbox), NEW c \in Callers, inbox[i] = Response(c)
               PROVE  /\ c \in answered \ lost /\ result'[c] # "response"
                      /\ \A j \in 1 .. Len(inbox) : inbox[j] = Response(c) => j = i
    BY DEF MailTrue, Response
  <2>1. /\ c \in answered \ lost /\ result[c] # "response"
        /\ \A j \in 1 .. Len(inbox) : inbox[j] = Response(c) => j = i
    BY DEF SInv, MailTrue
  <2>2. result'[c] = result[c] \/ result'[c] \in Failed
    OBVIOUS
  <2> QED
    BY <2>1, <2>2 DEF Failed
<1> QED
  BY <1>1, <1>2

\* The channel to the transport as a step leaves it: as it was, empty, without its
\* first message, or with one more, which is not the request of a call not made.
Shifts ==
  \/ outbox' \in {outbox, <<>>}
  \/ outbox # <<>> /\ outbox' = Tail(outbox)
  \/ \E m \in Callers \cup {None} :
       outbox' = Append(outbox, m) /\ (m \in Callers => pc'[m] # "idle")

LEMMA OutboxStep ==
  ASSUME SInv, Shifts, \A c \in Callers : pc[c] # "idle" => pc'[c] # "idle"
  PROVE  outbox' \in Seq(Callers \cup {None}) /\ OutboxTrue'
<1>1. /\ outbox \in Seq(Callers \cup {None}) /\ Len(outbox) \in Nat
      /\ \A i \in 1 .. Len(outbox) :
           /\ outbox[i] \in Callers \cup {None}
           /\ outbox[i] # None => outbox[i] \in Callers /\ pc'[outbox[i]] # "idle"
  <2>1. outbox \in Seq(Callers \cup {None}) /\ OutboxTrue
    BY DEF SInv, SendTypeOK
  <2>2. Len(outbox) \in Nat /\ \A i \in 1 .. Len(outbox) : outbox[i] \in Callers \cup {None}
    BY <2>1
  <2> QED
    BY <2>1, <2>2 DEF OutboxTrue
<1>2. CASE outbox' = outbox
  BY <1>1, <1>2 DEF OutboxTrue
<1>3. CASE outbox' = <<>>
  BY <1>3 DEF OutboxTrue
<1>4. CASE outbox # <<>> /\ outbox' = Tail(outbox)
  <2>1. /\ Len(outbox') = Len(outbox) - 1 /\ outbox' \in Seq(Callers \cup {None})
        /\ \A i \in 1 .. Len(outbox') : i + 1 \in 1 .. Len(outbox) /\ outbox'[i] = outbox[i + 1]
    BY <1>1, <1>4
  <2> QED
    BY <1>1, <2>1 DEF OutboxTrue
<1>5. ASSUME NEW m \in Callers \cup {None}, outbox' = Append(outbox, m),
             m \in Callers => pc'[m] # "idle"
      PROVE  outbox' \in Seq(Callers \cup {None}) /\ OutboxTrue'
  <2>1. /\ Len(outbox') = Len(outbox) + 1 /\ outbox' \in Seq(Callers \cup {None})
        /\ outbox'[Len(outbox) + 1] = m
        /\ \A i \in 1 .. Len(outbox) : outbox'[i] = outbox[i]
    BY <1>1, <1>5
  <2>2. \A i \in 1 .. Len(outbox') : i \in 1 .. Len(outbox) \/ outbox'[i] = m
    BY <1>1, <2>1
  <2> QED
    BY <1>1, <1>5, <2>1, <2>2 DEF OutboxTrue
<1> QED
  BY <1>2, <1>3, <1>4, <1>5 DEF Shifts

\* A reply or a notice to the server is the request of no call.
LEMMA Posting ==
  ASSUME NEW m \in Callers \cup {None}, Post(m), m \in Callers => pc'[m] # "idle"
  PROVE  Shifts
BY DEF Post, Shifts

\* What a call that ends leaves: its result, and the stream to the others.
LEMMA Ending ==
  ASSUME SendTypeOK, OneReader, NEW c \in Callers, NEW how \in Results, End(c, how)
  PROVE  /\ pc' \in [Callers -> Stages] /\ pc'[c] = "ended"
         /\ \A d \in Callers : d # c => pc'[d] = pc[d]
         /\ result' \in [Callers -> Results] /\ result'[c] = how
         /\ \A d \in Callers : d # c => result'[d] = result[d]
         /\ holder' \in Callers \cup {None}
         /\ wpc' \in [Waiters -> {"idle", "looking", "turning", "asleep", "resolved"}]
         /\ OneReader'
<1>1. /\ pc' \in [Callers -> Stages] /\ pc'[c] = "ended"
      /\ \A d \in Callers : d # c => pc'[d] = pc[d]
  BY DEF SendTypeOK, End, Stages
<1>2. /\ result' \in [Callers -> Results] /\ result'[c] = how
      /\ \A d \in Callers : d # c => result'[d] = result[d]
  BY DEF SendTypeOK, End, Results
<1>3. holder' \in Callers \cup {None} /\ holder' # c
      /\ \A d \in Callers : d # c => (holder' = d <=> holder = d)
  BY DEF SendTypeOK, End
<1>4. wpc' \in [Waiters -> {"idle", "looking", "turning", "asleep", "resolved"}]
  BY DEF SendTypeOK, TokenTypeOK, End
<1>5. OneReader'
  BY <1>1, <1>3 DEF OneReader
<1> QED
  BY <1>1, <1>2, <1>3, <1>4, <1>5

\* A call that ends without a response, the stream left as it is.
LEMMA FailedStep ==
  ASSUME SInv, NEW c \in Callers, NEW how \in Failed, End(c, how), InFlight(c),
         UNCHANGED <<cancelled, cpc, given, inbox, sent, answered, lost, closed>>, Shifts,
         asked' \in [Pushes -> {"unasked", "queued", "taken", "replied"}],
         asking' \in [Callers -> Pushes \cup {None}]
  PROVE  SInv'
<1>1. how \in Results
  BY DEF Failed, Results
<1>2. /\ pc' \in [Callers -> Stages] /\ pc'[c] = "ended"
      /\ \A d \in Callers : d # c => pc'[d] = pc[d]
      /\ result' \in [Callers -> Results] /\ result'[c] = how
      /\ \A d \in Callers : d # c => result'[d] = result[d]
      /\ holder' \in Callers \cup {None}
      /\ wpc' \in [Waiters -> {"idle", "looking", "turning", "asleep", "resolved"}]
      /\ OneReader'
  BY <1>1, Ending DEF SInv
<1>3. outbox' \in Seq(Callers \cup {None}) /\ OutboxTrue'
  BY <1>2, OutboxStep
<1>4. SendTypeOK'
  BY <1>2, <1>3 DEF SInv, SendTypeOK, TokenTypeOK, given, Stages, Results
<1>5. OwnResponse' /\ NoneStolen' /\ MailTrue'
  BY <1>2, QuietStep
<1>6. CallsTrue'
  BY <1>2 DEF SInv, SendTypeOK, CallsTrue, InFlight, given, Failed
<1> QED
  BY <1>2, <1>3, <1>4, <1>5, <1>6 DEF SInv

\* A call that has begun is the only one, where calls are made in turn.
LEMMA BeginStep ==
  ASSUME SInv, NEW c \in Callers, Begin(c)
  PROVE  SInv'
<1> USE DEF Begin
<1>1. /\ pc' \in [Callers -> Stages] /\ pc'[c] \in {"cancelling", "writing"}
      /\ \A d \in Callers : d # c => pc'[d] = pc[d]
  BY DEF SInv, SendTypeOK, Stages
<1>2. SendTypeOK'
  BY <1>1 DEF SInv, SendTypeOK, TokenTypeOK, tokenVars, given, Stages
<1>3. OneReader'
  BY <1>1 DEF SInv, OneReader
<1>4. OwnResponse' /\ NoneStolen' /\ MailTrue'
  BY QuietStep
<1>5. CallsTrue'
  <2>1. lost' \subseteq answered' /\ answered' \subseteq sent'
    BY DEF SInv, CallsTrue
  <2>2. \A d \in sent' : pc'[d] # "idle"
    BY <1>1 DEF SInv, SendTypeOK, CallsTrue
  <2>3. \A d \in Callers : pc'[d] = "ended" => result'[d] # "none"
    BY <1>1 DEF SInv, CallsTrue
  <2>4. ~overlap' => \A d, e \in Callers : InFlight(d)' /\ InFlight(e)' => d = e
    BY <1>1 DEF InFlight, given
  <2> QED
    BY <2>1, <2>2, <2>3, <2>4 DEF CallsTrue
<1>6. OutboxTrue'
  BY <1>1, OutboxStep DEF Shifts
<1> QED
  BY <1>2, <1>3, <1>4, <1>5, <1>6 DEF SInv

\* A request is written, or cannot be.
LEMMA WriteStep ==
  ASSUME SInv, NEW c \in Callers, Write(c)
  PROVE  SInv'
<1>1. CASE closed
  <2>1. /\ End(c, "closed") /\ InFlight(c)
        /\ UNCHANGED <<cancelled, cpc, given, inbox, outbox, sent, answered, lost, asked,
                       asking, closed>>
    BY <1>1 DEF Write, Post, InFlight
  <2>2. "closed" \in Failed
    BY DEF Failed
  <2>3. /\ asked' \in [Pushes -> {"unasked", "queued", "taken", "replied"}]
        /\ asking' \in [Callers -> Pushes \cup {None}]
    BY <2>1 DEF SInv, SendTypeOK
  <2> QED
    BY <2>1, <2>2, <2>3, FailedStep DEF Shifts
<1>2. CASE ~closed
  <2>1. /\ pc[c] = "writing" /\ pc' = [pc EXCEPT ![c] = "locking"] /\ outbox' = Append(outbox, c)
        /\ UNCHANGED <<cancelled, cpc, wpc, given, result, holder, inbox, sent, answered, lost,
                       asked, asking, closed>>
    BY <1>2 DEF Write, Post
  <2>2. /\ pc' \in [Callers -> Stages] /\ pc'[c] = "locking"
        /\ \A d \in Callers : d # c => pc'[d] = pc[d]
    BY <2>1 DEF SInv, SendTypeOK, Stages
  <2>3. outbox' \in Seq(Callers \cup {None}) /\ OutboxTrue'
    <3>1. Shifts
      BY <2>1, <2>2 DEF Shifts
    <3> QED
      BY <2>2, <3>1, OutboxStep
  <2>4. SendTypeOK'
    BY <2>1, <2>2, <2>3 DEF SInv, SendTypeOK, TokenTypeOK, given, Stages
  <2>5. OneReader'
    BY <2>1, <2>2 DEF SInv, OneReader
  <2>6. OwnResponse' /\ NoneStolen' /\ MailTrue'
    BY <2>1, QuietStep
  <2>7. CallsTrue'
    BY <2>1, <2>2 DEF SInv, SendTypeOK, CallsTrue, InFlight, given
  <2> QED
    BY <2>3, <2>4, <2>5, <2>6, <2>7 DEF SInv
<1> QED
  BY <1>1, <1>2

\* The mutex is taken when nobody has it.
LEMMA LockStep ==
  ASSUME SInv, NEW c \in Callers, Lock(c)
  PROVE  SInv'
<1> USE DEF Lock, Select
<1>1. /\ pc' \in [Callers -> Stages] /\ pc'[c] = "selecting"
      /\ \A d \in Callers : d # c => pc'[d] = pc[d]
  BY DEF SInv, SendTypeOK, Stages
<1>2. wpc' \in [Waiters -> {"idle", "looking", "turning", "asleep", "resolved"}]
  BY DEF SInv, SendTypeOK, TokenTypeOK
<1>3. SendTypeOK'
  BY <1>1, <1>2 DEF SInv, SendTypeOK, TokenTypeOK, given, Stages
<1>4. OneReader'
  BY <1>1 DEF SInv, OneReader
<1>5. OwnResponse' /\ NoneStolen' /\ MailTrue'
  BY QuietStep
<1>6. CallsTrue'
  BY <1>1 DEF SInv, SendTypeOK, CallsTrue, InFlight, given
<1>7. OutboxTrue'
  BY <1>1, OutboxStep DEF Shifts
<1> QED
  BY <1>3, <1>4, <1>5, <1>6, <1>7 DEF SInv

\* The answer to a pushed request goes out, and the loop starts again.
LEMMA ReplyStep ==
  ASSUME SInv, NEW c \in Callers, Reply(c)
  PROVE  SInv'
<1> USE DEF Reply, Select
<1>1. /\ pc' \in [Callers -> Stages] /\ pc'[c] = "selecting"
      /\ \A d \in Callers : d # c => pc'[d] = pc[d]
  BY DEF SInv, SendTypeOK, Stages
<1>2. wpc' \in [Waiters -> {"idle", "looking", "turning", "asleep", "resolved"}]
  BY DEF SInv, SendTypeOK, TokenTypeOK
<1>3. /\ asked' \in [Pushes -> {"unasked", "queued", "taken", "replied"}]
      /\ asking' \in [Callers -> Pushes \cup {None}]
  BY DEF SInv, SendTypeOK
<1>4. outbox' \in Seq(Callers \cup {None}) /\ OutboxTrue'
  BY <1>1, Posting, OutboxStep
<1>5. SendTypeOK'
  BY <1>1, <1>2, <1>3, <1>4 DEF SInv, SendTypeOK, TokenTypeOK, given, Stages
<1>6. OneReader'
  BY <1>1 DEF SInv, OneReader
<1>7. OwnResponse' /\ NoneStolen' /\ MailTrue'
  BY QuietStep
<1>8. CallsTrue'
  BY <1>1 DEF SInv, SendTypeOK, CallsTrue, InFlight, given
<1> QED
  BY <1>4, <1>5, <1>6, <1>7, <1>8 DEF SInv

\* A call that saw the token cancelled keeps the stream while it reports.
LEMMA NoticeStep ==
  ASSUME SInv, NEW c \in Callers, NoticeCancelled(c)
  PROVE  SInv'
<1> USE DEF NoticeCancelled
<1>1. /\ pc' \in [Callers -> Stages] /\ pc'[c] = "cancelling"
      /\ \A d \in Callers : d # c => pc'[d] = pc[d]
  BY DEF SInv, SendTypeOK, Stages
<1>2. wpc' \in [Waiters -> {"idle", "looking", "turning", "asleep", "resolved"}]
  BY DEF SInv, SendTypeOK, TokenTypeOK
<1>3. SendTypeOK'
  BY <1>1, <1>2 DEF SInv, SendTypeOK, TokenTypeOK, given, Stages
<1>4. OneReader'
  BY <1>1 DEF SInv, OneReader
<1>5. OwnResponse' /\ NoneStolen' /\ MailTrue'
  BY QuietStep
<1>6. CallsTrue'
  BY <1>1 DEF SInv, SendTypeOK, CallsTrue, InFlight, given
<1>7. OutboxTrue'
  BY <1>1, OutboxStep DEF Shifts
<1> QED
  BY <1>3, <1>4, <1>5, <1>6, <1>7 DEF SInv

\* The token's steps touch no call.
LEMMA TokenStep ==
  ASSUME SInv, UNCHANGED callVars, TokenTypeOK'
  PROVE  SInv'
BY DEF callVars, given, SInv, SendTypeOK, OneReader, OwnResponse, NoneStolen,
       MailTrue, CallsTrue, OutboxTrue, InFlight, Response

\* Looking, sleeping, storing and waking keep to the stages of a wait.
LEMMA TokenTyped ==
  ASSUME TokenTypeOK,
         \/ \E w \in Waiters : Look(w) \/ Sleep(w)
         \/ \E k \in Cancellers : Store(k) \/ NotifyWaiters(k)
  PROVE  TokenTypeOK'
BY DEF TokenTypeOK, Look, Sleep, Store, NotifyWaiters

\* The ways a call fails.
LEMMA FailingSteps ==
  ASSUME SInv, NEW c \in Callers, StreamClosed(c) \/ Report(c) \/ TimeOut(c)
  PROVE  SInv'
<1>1. \E how \in Failed : End(c, how)
  BY DEF StreamClosed, Report, TimeOut, Failed
<1>2. /\ InFlight(c)
      /\ UNCHANGED <<cancelled, cpc, given, inbox, sent, answered, lost, asked, closed>>
      /\ asking' = asking \/ asking' = [asking EXCEPT ![c] = None]
  BY DEF StreamClosed, Report, TimeOut, InFlight
<1>3. /\ asked' \in [Pushes -> {"unasked", "queued", "taken", "replied"}]
      /\ asking' \in [Callers -> Pushes \cup {None}]
  BY <1>2 DEF SInv, SendTypeOK
<1>4. Shifts
  BY Posting DEF StreamClosed, Report, TimeOut, Shifts
<1> QED
  BY <1>1, <1>2, <1>3, <1>4, FailedStep

\* The head of the stream and what is left of it.
LEMMA Taking ==
  ASSUME SendTypeOK, inbox # <<>>
  PROVE  /\ Head(inbox) \in Message /\ Tail(inbox) \in Seq(Message)
         /\ Len(inbox) \in Nat /\ 1 \in 1 .. Len(inbox) /\ inbox[1] = Head(inbox)
         /\ Len(Tail(inbox)) = Len(inbox) - 1
         /\ \A i \in 1 .. Len(Tail(inbox)) :
              i + 1 \in 1 .. Len(inbox) /\ Tail(inbox)[i] = inbox[i + 1]
<1>1. inbox \in Seq(Message)
  BY DEF SendTypeOK
<1> QED
  BY <1>1

\* What is left when a message was taken is still owed, but for what the
\* message itself settles.
LEMMA TakenMail ==
  ASSUME SInv, inbox # <<>>, inbox' = Tail(inbox), answered' = answered,
         \A c \in Callers : Head(inbox) # Response(c) =>
           /\ result'[c] = "response" => result[c] = "response"
           /\ c \in lost' => c \in lost
  PROVE  MailTrue'
<1> SUFFICES ASSUME NEW i \in 1 .. Len(inbox'), NEW c \in Callers, inbox'[i] = Response(c)
             PROVE  /\ c \in answered' \ lost' /\ result'[c] # "response"
                    /\ \A j \in 1 .. Len(inbox') : inbox'[j] = Response(c) => j = i
  BY DEF MailTrue, Response
<1>1. /\ Len(inbox) \in Nat /\ 1 \in 1 .. Len(inbox) /\ inbox[1] = Head(inbox)
      /\ Len(inbox') = Len(inbox) - 1
      /\ \A j \in 1 .. Len(inbox') : j + 1 \in 1 .. Len(inbox) /\ inbox'[j] = inbox[j + 1]
  BY Taking DEF SInv
<1>2. i + 1 \in 1 .. Len(inbox) /\ inbox[i + 1] = Response(c)
  BY <1>1
<1>3. /\ c \in answered \ lost /\ result[c] # "response"
      /\ \A j \in 1 .. Len(inbox) : inbox[j] = Response(c) => j = i + 1
  BY <1>2 DEF SInv, MailTrue
<1>4. Head(inbox) # Response(c)
  BY <1>1, <1>3
<1>5. \A j \in 1 .. Len(inbox') : inbox'[j] = Response(c) => j = i
  BY <1>1, <1>3
<1> QED
  BY <1>3, <1>4, <1>5

\* A call takes its own response, or a request it has to answer, or what is
\* none of its business.
LEMMA ReceiveStep ==
  ASSUME SInv, NEW c \in Callers, Receive(c)
  PROVE  SInv'
<1> DEFINE m == Head(inbox)
<1>1. /\ pc[c] = "selecting" /\ inbox # <<>> /\ inbox' = Tail(inbox)
      /\ UNCHANGED <<cancelled, cpc, given, outbox, sent, answered, closed>>
  BY DEF Receive
<1>2. m \in Message /\ inbox' \in Seq(Message) /\ 1 \in 1 .. Len(inbox) /\ inbox[1] = m
  BY <1>1, Taking DEF SInv
<1> HIDE DEF m
<1>3. holder = c
  BY <1>1 DEF SInv, OneReader
<1>4. CASE /\ m = Response(c) /\ End(c, "response")
           /\ UNCHANGED <<lost, asked, asking>>
  <2>1. "response" \in Results
    BY DEF Results
  <2>2. /\ pc' \in [Callers -> Stages] /\ pc'[c] = "ended"
        /\ \A d \in Callers : d # c => pc'[d] = pc[d]
        /\ result' \in [Callers -> Results] /\ result'[c] = "response"
        /\ \A d \in Callers : d # c => result'[d] = result[d]
        /\ holder' \in Callers \cup {None}
        /\ wpc' \in [Waiters -> {"idle", "looking", "turning", "asleep", "resolved"}]
        /\ OneReader'
    BY <1>4, <2>1, Ending DEF SInv
  <2>3. c \in answered \ lost
    BY <1>2, <1>4 DEF SInv, MailTrue
  <2>4. SendTypeOK'
    BY <1>1, <1>2, <1>4, <2>2 DEF SInv, SendTypeOK, TokenTypeOK, given, Stages, Results
  <2>5. OwnResponse'
    BY <1>1, <1>4, <2>2, <2>3 DEF SInv, OwnResponse
  <2>6. NoneStolen'
    <3>1. lost \subseteq Callers /\ NoneStolen
      BY DEF SInv, SendTypeOK
    <3> QED
      BY <1>1, <1>4, <2>2, <2>3, <3>1 DEF NoneStolen, given
  <2>7. MailTrue'
    <3>1. \A d \in Callers : Response(d) = Response(c) => d = c
      BY DEF Response
    <3>2. \A d \in Callers : Head(inbox) # Response(d) => d # c
      BY <1>4 DEF m
    <3> QED
      BY <1>1, <1>4, <2>2, <3>2, TakenMail
  <2>8. OutboxTrue'
    BY <1>1, <2>2, OutboxStep DEF Shifts
  <2>9. CallsTrue'
    BY <1>1, <1>4, <2>2 DEF SInv, SendTypeOK, CallsTrue, InFlight, given
  <2> QED
    BY <2>2, <2>4, <2>5, <2>6, <2>7, <2>8, <2>9 DEF SInv
<1>5. CASE /\ m.kind = "push"
           /\ pc' = [pc EXCEPT ![c] = "answering"]
           /\ wpc' = [wpc EXCEPT ![c] = "idle"]
           /\ asking' = [asking EXCEPT ![c] = m.of]
           /\ asked' = [asked EXCEPT ![m.of] = "taken"]
           /\ UNCHANGED <<result, holder, lost>>
  <2>1. m.of \in Pushes
    BY <1>2, <1>5 DEF Message, Progress
  <2>2. /\ pc' \in [Callers -> Stages] /\ pc'[c] = "answering"
        /\ \A d \in Callers : d # c => pc'[d] = pc[d]
    BY <1>5 DEF SInv, SendTypeOK, Stages
  <2>3. wpc' \in [Waiters -> {"idle", "looking", "turning", "asleep", "resolved"}]
    BY <1>5 DEF SInv, SendTypeOK, TokenTypeOK
  <2>4. /\ asked' \in [Pushes -> {"unasked", "queued", "taken", "replied"}]
        /\ asking' \in [Callers -> Pushes \cup {None}]
    BY <1>5, <2>1 DEF SInv, SendTypeOK
  <2>5. SendTypeOK'
    BY <1>1, <1>2, <1>5, <2>2, <2>3, <2>4 DEF SInv, SendTypeOK, TokenTypeOK, given, Stages
  <2>6. OneReader'
    BY <1>1, <1>3, <1>5, <2>2 DEF SInv, OneReader
  <2>7. OwnResponse' /\ NoneStolen'
    BY <1>1, <1>5 DEF SInv, OwnResponse, NoneStolen, given
  <2>8. MailTrue'
    BY <1>1, <1>5, TakenMail
  <2>9. CallsTrue'
    BY <1>1, <1>5, <2>2 DEF SInv, SendTypeOK, CallsTrue, InFlight, given
  <2>10. OutboxTrue'
    BY <1>1, <2>2, OutboxStep DEF Shifts
  <2> QED
    BY <2>5, <2>6, <2>7, <2>8, <2>9, <2>10 DEF SInv
<1>6. CASE /\ m.kind # "push" /\ m # Response(c)
           /\ Select(c)
           /\ lost' = IF m.kind = "response" THEN lost \cup {m.of} ELSE lost
           /\ UNCHANGED <<result, holder, asked, asking>>
  <2>1. /\ pc' \in [Callers -> Stages] /\ pc'[c] = "selecting"
        /\ \A d \in Callers : d # c => pc'[d] = pc[d]
    BY <1>6 DEF SInv, SendTypeOK, Stages, Select
  <2>2. wpc' \in [Waiters -> {"idle", "looking", "turning", "asleep", "resolved"}]
    BY <1>6 DEF SInv, SendTypeOK, TokenTypeOK, Select
  <2>3. m.kind = "response" => m.of \in Callers /\ m = Response(m.of) /\ m.of # c
    BY <1>2, <1>6 DEF Message, Progress, Response
  <2>4. m.kind = "response" => m.of \in answered \ lost /\ result[m.of] # "response"
    BY <1>2, <2>3 DEF SInv, MailTrue
  <2>5. lost' \subseteq Callers /\ lost' \subseteq answered
    BY <1>6, <2>3, <2>4 DEF SInv, SendTypeOK, CallsTrue
  <2>6. SendTypeOK'
    BY <1>1, <1>2, <1>6, <2>1, <2>2, <2>5 DEF SInv, SendTypeOK, TokenTypeOK, given, Stages
  <2>7. OneReader'
    BY <1>1, <1>3, <1>6, <2>1 DEF SInv, OneReader
  <2>8. OwnResponse'
    BY <1>1, <1>6, <2>4 DEF SInv, OwnResponse
  <2>9. NoneStolen'
    <3>1. ASSUME ~overlap, m.kind = "response"
          PROVE  result[m.of] \in Failed
      <4>1. m.of \in sent /\ pc[m.of] # "idle"
        BY <2>4, <3>1 DEF SInv, CallsTrue
      <4>2. ~InFlight(m.of)
        BY <1>1, <2>3, <3>1 DEF SInv, CallsTrue, InFlight
      <4>3. result[m.of] # "none"
        BY <2>3, <3>1, <4>1, <4>2 DEF SInv, CallsTrue, InFlight
      <4>4. result[m.of] \in Results
        BY <2>3, <3>1 DEF SInv, SendTypeOK, Results
      <4> QED
        BY <2>4, <3>1, <4>3, <4>4 DEF Results, Failed
    <3> QED
      BY <1>1, <1>6, <3>1 DEF SInv, NoneStolen, given, Failed
  <2>10. MailTrue'
    <3>1. ASSUME NEW d \in Callers, Head(inbox) # Response(d), d \in lost'
          PROVE  d \in lost
      BY <1>6, <2>3, <3>1 DEF m
    <3> QED
      BY <1>1, <1>6, <3>1, TakenMail
  <2>11. CallsTrue'
    BY <1>1, <1>6, <2>1, <2>5 DEF SInv, SendTypeOK, CallsTrue, InFlight, given
  <2>12. OutboxTrue'
    BY <1>1, <2>1, OutboxStep DEF Shifts
  <2> QED
    BY <2>6, <2>7, <2>8, <2>9, <2>10, <2>11, <2>12 DEF SInv
<1> QED
  BY <1>4, <1>5, <1>6 DEF Receive, IsFor, m

\* What a step of the server keeps, where no response is added.
LEMMA ServerStep ==
  ASSUME SInv, NEW message \in Message, Arrives(message),
         UNCHANGED <<tokenVars, given, pc, result, holder, outbox, sent, lost, asking, closed>>,
         asked' \in [Pushes -> {"unasked", "queued", "taken", "replied"}],
         answered \subseteq answered', answered' \subseteq sent,
         \A c \in Callers : message = Response(c) => c \in answered' \ answered
  PROVE  SInv'
<1>1. /\ inbox \in Seq(Message) /\ inbox' = Append(inbox, message)
      /\ SendTypeOK /\ OneReader /\ OwnResponse /\ NoneStolen /\ MailTrue /\ CallsTrue
  BY DEF SInv, SendTypeOK, Arrives
<1>2. /\ inbox' \in Seq(Message) /\ Len(inbox) \in Nat /\ Len(inbox') = Len(inbox) + 1
      /\ inbox'[Len(inbox) + 1] = message
      /\ \A i \in 1 .. Len(inbox) : inbox'[i] = inbox[i]
  BY <1>1
<1>3. SendTypeOK'
  BY <1>1, <1>2 DEF SendTypeOK, TokenTypeOK, tokenVars, given
<1>4. OneReader' /\ OwnResponse' /\ NoneStolen'
  BY <1>1 DEF OneReader, OwnResponse, NoneStolen, given
<1>5. CallsTrue' /\ OutboxTrue'
  BY <1>1, OutboxStep DEF CallsTrue, Shifts, InFlight, given
<1>6. MailTrue'
  <2> SUFFICES ASSUME NEW i \in 1 .. Len(inbox'), NEW c \in Callers, inbox'[i] = Response(c)
               PROVE  /\ c \in answered' \ lost /\ result[c] # "response"
                      /\ \A j \in 1 .. Len(inbox') : inbox'[j] = Response(c) => j = i
    BY DEF MailTrue, Response
  <2>1. CASE message = Response(c)
    <3>1. c \notin answered /\ c \in answered'
      BY <2>1
    <3>2. \A j \in 1 .. Len(inbox) : inbox[j] # Response(c)
      BY <1>1, <3>1 DEF MailTrue
    <3>3. c \notin lost /\ result[c] # "response"
      BY <1>1, <3>1 DEF CallsTrue, OwnResponse
    <3>4. \A j \in 1 .. Len(inbox') : inbox'[j] = Response(c) => j = Len(inbox) + 1
      BY <1>2, <3>2
    <3> QED
      BY <3>1, <3>3, <3>4
  <2>2. CASE message # Response(c)
    <3>1. \A j \in 1 .. Len(inbox') : inbox'[j] = Response(c) =>
            j \in 1 .. Len(inbox) /\ inbox[j] = Response(c)
      BY <1>2, <2>2
    <3>2. /\ c \in answered \ lost /\ result[c] # "response"
          /\ \A j \in 1 .. Len(inbox) : inbox[j] = Response(c) => j = i
      BY <1>1, <3>1 DEF MailTrue
    <3> QED
      BY <3>1, <3>2
  <2> QED
    BY <2>1, <2>2
<1> QED
  BY <1>3, <1>4, <1>5, <1>6 DEF SInv

\* Whatever the server sends.
LEMMA ArrivingSteps ==
  ASSUME SInv,
         \/ \E c \in Callers : ServerResponds(c) \/ ServerProgresses(c)
         \/ \E q \in Pushes : ServerPushes(q)
  PROVE  SInv'
<1>1. /\ asked \in [Pushes -> {"unasked", "queued", "taken", "replied"}]
      /\ answered \subseteq sent /\ sent \subseteq Callers
  BY DEF SInv, SendTypeOK, CallsTrue
<1>2. ASSUME NEW c \in Callers, ServerResponds(c)
      PROVE  SInv'
  <2>1. Response(c) \in Message
    BY DEF Response, Message
  <2>2. \A d \in Callers : Response(c) = Response(d) => d = c
    BY DEF Response
  <2> QED
    BY <1>1, <1>2, <2>1, <2>2, ServerStep DEF ServerResponds
<1>3. ASSUME NEW c \in Callers, ServerProgresses(c)
      PROVE  SInv'
  <2>1. Progress \in Message /\ \A d \in Callers : Progress # Response(d)
    BY DEF Response, Progress, Message
  <2> QED
    BY <1>1, <1>3, <2>1, ServerStep DEF ServerProgresses
<1>4. ASSUME NEW q \in Pushes, ServerPushes(q)
      PROVE  SInv'
  <2>1. Push(q) \in Message /\ \A d \in Callers : Push(q) # Response(d)
    BY DEF Response, Push, Message
  <2> QED
    BY <1>1, <1>4, <2>1, ServerStep DEF ServerPushes
<1> QED
  BY <1>2, <1>3, <1>4

\* A request the transport takes is of a call that was made.
LEMMA DrainStep ==
  ASSUME SInv, Drain
  PROVE  SInv'
<1> USE DEF Drain
<1>1. OutboxTrue' /\ outbox' \in Seq(Callers \cup {None})
  BY OutboxStep DEF Shifts
<1>2. Head(outbox) \in Callers \cup {None} /\ (Head(outbox) # None => pc[Head(outbox)] # "idle")
  <2>1. outbox \in Seq(Callers \cup {None}) /\ OutboxTrue
    BY DEF SInv, SendTypeOK
  <2>2. Head(outbox) = outbox[1] /\ 1 \in 1 .. Len(outbox) /\ outbox[1] \in Callers \cup {None}
    BY <2>1
  <2> QED
    BY <2>1, <2>2 DEF OutboxTrue
<1>3. SendTypeOK' /\ OneReader'
  BY <1>1, <1>2 DEF SInv, SendTypeOK, TokenTypeOK, tokenVars, given, OneReader
<1>4. OwnResponse' /\ NoneStolen' /\ MailTrue'
  BY QuietStep
<1>5. CallsTrue'
  BY <1>2 DEF SInv, CallsTrue, InFlight, given
<1> QED
  BY <1>1, <1>3, <1>4, <1>5 DEF SInv

\* Nothing is put on or taken from the read stream by closing it.
LEMMA CloseStep ==
  ASSUME SInv, Close
  PROVE  SInv'
<1> USE DEF Close
<1>1. OutboxTrue' /\ outbox' \in Seq(Callers \cup {None})
  BY OutboxStep DEF Shifts
<1>2. SendTypeOK' /\ OneReader'
  BY <1>1 DEF SInv, SendTypeOK, TokenTypeOK, tokenVars, given, OneReader
<1>3. OwnResponse' /\ NoneStolen' /\ MailTrue'
  BY QuietStep
<1>4. CallsTrue'
  BY DEF SInv, CallsTrue, InFlight, given
<1> QED
  BY <1>1, <1>2, <1>3, <1>4 DEF SInv

\* Whoever calls, cancels, times out, answers or closes, in any order.
THEOREM SendConsistent == SendSpec => []SInv
<1>1. ASSUME SInv, SendNext
      PROVE  SInv'
  <2>1. ASSUME NEW c \in Callers, Begin(c) \/ CallStep(c) \/ TimeOut(c)
        PROVE  SInv'
    <3>1. CASE Begin(c) \/ Write(c) \/ Lock(c)
      BY <1>1, <3>1, BeginStep, WriteStep, LockStep
    <3>2. CASE Receive(c) \/ Reply(c) \/ NoticeCancelled(c)
      BY <1>1, <3>2, ReceiveStep, ReplyStep, NoticeStep
    <3>3. CASE StreamClosed(c) \/ Report(c) \/ TimeOut(c)
      BY <1>1, <3>3, FailingSteps
    <3>4. CASE PollToken(c)
      <4>1. c \in Waiters /\ (Look(c) \/ Sleep(c)) /\ UNCHANGED callVars /\ TokenTypeOK
        BY <1>1, <3>4 DEF PollToken, SInv, SendTypeOK
      <4> QED
        BY <1>1, <4>1, TokenTyped, TokenStep
    <3> QED
      BY <2>1, <3>1, <3>2, <3>3, <3>4 DEF CallStep
  <2>2. ASSUME NEW c \in Callers, ServerResponds(c) \/ ServerProgresses(c)
        PROVE  SInv'
    BY <1>1, <2>2, ArrivingSteps
  <2>3. ASSUME NEW q \in Pushes, ServerPushes(q)
        PROVE  SInv'
    BY <1>1, <2>3, ArrivingSteps
  <2>4. ASSUME NEW k \in Cancellers, Cancel(k)
        PROVE  SInv'
    <3>1. (Store(k) \/ NotifyWaiters(k)) /\ UNCHANGED callVars /\ TokenTypeOK
      BY <1>1, <2>4 DEF Cancel, SInv, SendTypeOK
    <3> QED
      BY <1>1, <3>1, TokenTyped, TokenStep
  <2>5. CASE Drain \/ Close
    BY <1>1, <2>5, DrainStep, CloseStep
  <2> QED
    BY <1>1, <2>1, <2>2, <2>3, <2>4, <2>5 DEF SendNext
<1>2. ASSUME SInv, UNCHANGED sendVars
      PROVE  SInv'
  BY <1>2, TokenStep DEF sendVars, tokenVars, TokenTypeOK, SInv, SendTypeOK
<1> QED
  BY <1>1, <1>2, InitSInv, PTL DEF SendSpec

\* No way for a call to end takes the stream with it
\* (send_message.rs:202, 162-178).
THEOREM OneReaderAtATime == SendSpec => []OneReader
<1>1. SInv => OneReader
  BY DEF SInv
<1> QED
  BY <1>1, SendConsistent, PTL

\* A response reaches its own call or none (send_message.rs:258-264).
THEOREM ResponsesAreOwn == SendSpec => []OwnResponse
<1>1. SInv => OwnResponse
  BY DEF SInv
<1> QED
  BY <1>1, SendConsistent, PTL

\* Calls made in turn lose nothing they wait for (send_message.rs:19-23).
THEOREM InTurnNoneStolen == SendSpec => []NoneStolen
<1>1. SInv => NoneStolen
  BY DEF SInv
<1> QED
  BY <1>1, SendConsistent, PTL

-----------------------------------------------------------------------------
(* Operations: Client. *)

USE ClientAssumption

AtStage   == {"idle", "waiting", "running", "handling", "closing", "ended"}
Behind    == {"running", "handling", "closing"}
Outcomes  == {"none", "value", "alive", "dead", "Retryable", "NonRetryable",
              "Validation", "cancelled", "timed_out", "closed"}

\* The requests of an operation are calls that may be made.
LEMMA RequestsAreCalls ==
  ASSUME ObjInv, NEW o \in Ops, kind[o] # "close"
  PROVE  /\ \A r \in 1 .. round[o] : <<o, r>> \in Callers
         /\ <<o, 1>> \in Callers /\ Call(o) \in Callers
         /\ stage[o] = "handling" => /\ round[o] + 1 \in 1 .. Rounds
                                     /\ <<o, round[o] + 1>> \in Callers
<1>1. /\ round[o] \in 1 .. Rounds /\ Rounds \in Nat /\ kind \in Mixes /\ RoundsTrue(o)
  BY DEF ObjInv, ClientTypeOK
<1>2. <<o, 1>> \in Callers /\ (kind[o] = "call" => \A r \in 1 .. Rounds : <<o, r>> \in Callers)
  BY <1>1
<1>3. CASE kind[o] = "call"
  BY <1>1, <1>2, <1>3 DEF Call, RoundsTrue
<1>4. CASE kind[o] # "call"
  BY <1>1, <1>2, <1>4 DEF Call, RoundsTrue
<1> QED
  BY <1>3, <1>4

\* An operation that ends leaves the mutex to the others.
LEMMA FinishObj ==
  ASSUME ObjInv, NEW o \in Ops, NEW how, Finish(o, how), stage[o] \in Behind
  PROVE  ObjInv'
<1>1. /\ stage' = [stage EXCEPT ![o] = "ended"] /\ UNCHANGED <<world, round, queue, gone>>
      /\ inner' = IF inner = o THEN None ELSE inner
  BY DEF Finish
<1>2. ClientTypeOK'
  BY <1>1 DEF ObjInv, ClientTypeOK, world
<1>3. /\ stage'[o] = "ended" /\ \A p \in Ops \ {o} : stage'[p] = stage[p]
  BY <1>1 DEF ObjInv, ClientTypeOK
<1>4. \A p \in Ops : RoundsTrue(p)'
  BY <1>1, <1>3 DEF ObjInv, RoundsTrue, world
<1>5. MutexHeld'
  BY <1>1, <1>3 DEF ObjInv, MutexHeld, Guarded, world
<1>6. QueueTrue'
  <2>1. \A i \in 1 .. Len(queue) : queue[i] \in Ops /\ queue[i] # o
    BY DEF ObjInv, ClientTypeOK, QueueTrue, Behind
  <2> QED
    BY <1>1, <1>3, <2>1 DEF ObjInv, QueueTrue
<1> QED
  BY <1>2, <1>4, <1>5, <1>6 DEF ObjInv

\* An operation whose server needs input keeps the mutex.
LEMMA HandleObj ==
  ASSUME ObjInv, NEW o \in Ops, Handle(o), stage[o] = "running", kind[o] = "call", round[o] < Rounds
  PROVE  ObjInv'
<1>1. stage' = [stage EXCEPT ![o] = "handling"] /\ UNCHANGED <<world, round, inner, queue, gone>>
  BY DEF Handle
<1>2. ClientTypeOK'
  BY <1>1 DEF ObjInv, ClientTypeOK, world
<1>3. /\ stage'[o] = "handling" /\ \A p \in Ops \ {o} : stage'[p] = stage[p]
  BY <1>1 DEF ObjInv, ClientTypeOK
<1>4. \A p \in Ops : RoundsTrue(p)'
  BY <1>1, <1>3 DEF ObjInv, RoundsTrue, world
<1>5. MutexHeld'
  BY <1>1, <1>3 DEF ObjInv, MutexHeld, Guarded, world
<1>6. QueueTrue'
  <2>1. \A i \in 1 .. Len(queue) : queue[i] \in Ops /\ queue[i] # o
    BY DEF ObjInv, ClientTypeOK, QueueTrue
  <2> QED
    BY <1>1, <1>3, <2>1 DEF ObjInv, QueueTrue
<1> QED
  BY <1>2, <1>4, <1>5, <1>6 DEF ObjInv

\* An operation that is asked for waits its turn, or has none to wait for.
LEMMA AskObj ==
  ASSUME ObjInv, NEW o \in Ops, NEW by, Ask(o, by)
  PROVE  ObjInv'
<1>1. stage[o] = "idle" /\ UNCHANGED <<world, round, inner, gone>>
  BY DEF Ask
<1>2. \A i \in 1 .. Len(queue) : queue[i] \in Ops /\ queue[i] # o
  BY <1>1 DEF ObjInv, ClientTypeOK, QueueTrue
<1>3. CASE Guarded(o)
  <2>1. stage' = [stage EXCEPT ![o] = "waiting"] /\ queue' = Append(queue, o)
    BY <1>3 DEF Ask
  <2>2. queue \in Seq(Ops)
    BY DEF ObjInv, ClientTypeOK
  <2>3. /\ queue' \in Seq(Ops) /\ Len(queue) \in Nat
        /\ \A i \in 1 .. Len(queue') : \/ i = Len(queue) + 1 /\ queue'[i] = o
                                       \/ i \in 1 .. Len(queue) /\ queue'[i] = queue[i]
    BY <2>1, <2>2
  <2>4. /\ stage'[o] = "waiting" /\ \A p \in Ops \ {o} : stage'[p] = stage[p]
    BY <2>1 DEF ObjInv, ClientTypeOK
  <2>5. ClientTypeOK'
    BY <1>1, <2>1, <2>3 DEF ObjInv, ClientTypeOK, world
  <2>6. (\A p \in Ops : RoundsTrue(p)') /\ MutexHeld'
    BY <1>1, <2>4 DEF ObjInv, RoundsTrue, MutexHeld, Guarded, world
  <2>7. QueueTrue'
    BY <1>2, <2>3, <2>4 DEF ObjInv, QueueTrue
  <2> QED
    BY <2>5, <2>6, <2>7 DEF ObjInv
<1>4. CASE ~Guarded(o)
  <2>1. stage' = [stage EXCEPT ![o] = "running"] /\ kind[o] # "close" /\ UNCHANGED queue
    BY <1>4 DEF Ask, Start
  <2>2. /\ stage'[o] = "running" /\ \A p \in Ops \ {o} : stage'[p] = stage[p]
    BY <2>1 DEF ObjInv, ClientTypeOK
  <2>3. ClientTypeOK'
    BY <1>1, <2>1 DEF ObjInv, ClientTypeOK, world
  <2>4. (\A p \in Ops : RoundsTrue(p)') /\ MutexHeld'
    BY <1>1, <1>4, <2>1, <2>2 DEF ObjInv, RoundsTrue, MutexHeld, Guarded, world
  <2>5. QueueTrue'
    BY <1>2, <2>1, <2>2 DEF ObjInv, QueueTrue
  <2> QED
    BY <2>3, <2>4, <2>5 DEF ObjInv
<1> QED
  BY <1>3, <1>4

\* The one who waits longest is let in, while nobody is.
LEMMA EnterObj ==
  ASSUME ObjInv, NEW o \in Ops, Enter(o)
  PROVE  ObjInv'
<1>1. /\ inner = None /\ queue # <<>> /\ Head(queue) = o /\ queue' = Tail(queue)
      /\ UNCHANGED <<world, round>>
  BY DEF Enter
<1>2. /\ queue \in Seq(Ops) /\ queue' \in Seq(Ops) /\ queue[1] = o /\ 1 \in 1 .. Len(queue)
      /\ Len(queue) \in Nat /\ Len(queue') = Len(queue) - 1
      /\ \A i \in 1 .. Len(queue') : i + 1 \in 1 .. Len(queue) /\ queue'[i] = queue[i + 1]
  <2>1. queue \in Seq(Ops)
    BY DEF ObjInv, ClientTypeOK
  <2> QED
    BY <1>1, <2>1
<1>3. /\ \A i \in 1 .. Len(queue) : stage[queue[i]] = "waiting"
      /\ \A i, j \in 1 .. Len(queue) : queue[i] = queue[j] => i = j
  BY DEF ObjInv, QueueTrue
<1>4. stage[o] = "waiting" /\ \A i \in 1 .. Len(queue') : queue'[i] \in Ops /\ queue'[i] # o
  <2>1. ASSUME NEW i \in 1 .. Len(queue')
        PROVE  queue'[i] \in Ops /\ queue'[i] # o
    <3>1. i + 1 \in 1 .. Len(queue) /\ queue'[i] = queue[i + 1] /\ i + 1 # 1
      BY <1>2
    <3> QED
      BY <1>2, <1>3, <3>1
  <2> QED
    BY <1>2, <1>3, <2>1
<1>5. \E s \in {"ended", "closing", "running"} :
        /\ stage' = [stage EXCEPT ![o] = s] /\ (s = "running" => kind[o] # "close")
        /\ s = "closing" => kind[o] = "close"
        /\ gone' \in BOOLEAN /\ (inner' = o \/ (s = "ended" /\ inner' = inner))
  BY DEF Enter, Start, ObjInv, ClientTypeOK
<1>6. PICK s \in {"ended", "closing", "running"} :
        /\ stage' = [stage EXCEPT ![o] = s] /\ (s = "running" => kind[o] # "close")
        /\ s = "closing" => kind[o] = "close"
        /\ gone' \in BOOLEAN /\ (inner' = o \/ (s = "ended" /\ inner' = inner))
  BY <1>5
<1>7. /\ stage'[o] = s /\ \A p \in Ops \ {o} : stage'[p] = stage[p]
  BY <1>6 DEF ObjInv, ClientTypeOK
<1>8. ClientTypeOK'
  BY <1>1, <1>2, <1>6 DEF ObjInv, ClientTypeOK, world
<1>9. \A p \in Ops : RoundsTrue(p)'
  BY <1>1, <1>4, <1>6, <1>7 DEF ObjInv, RoundsTrue, world
<1>10. MutexHeld'
  <2>1. \A p \in Ops : Guarded(p) => stage[p] \notin Behind
    BY <1>1 DEF ObjInv, MutexHeld, Behind
  <2> QED
    BY <1>1, <1>6, <1>7, <2>1 DEF MutexHeld, Guarded, Behind, world
<1>11. QueueTrue'
  <2>1. \A i \in 1 .. Len(queue') : stage'[queue'[i]] = "waiting"
    BY <1>2, <1>3, <1>4, <1>7
  <2>2. ASSUME NEW i \in 1 .. Len(queue'), NEW j \in 1 .. Len(queue'), queue'[i] = queue'[j]
        PROVE  i = j
    <3>1. i + 1 = j + 1
      BY <1>2, <1>3, <2>2
    <3> QED
      BY <1>2, <3>1
  <2> QED
    BY <2>1, <2>2 DEF QueueTrue
<1> QED
  BY <1>8, <1>9, <1>10, <1>11 DEF ObjInv

\* Every step keeps what is said of the operations.
LEMMA ObjStep == ObjInv /\ [ClientNext]_clientVars => ObjInv'
<1> SUFFICES ASSUME ObjInv, [ClientNext]_clientVars
             PROVE  ObjInv'
  OBVIOUS
<1>1. CASE UNCHANGED objVars
  BY <1>1 DEF objVars, world, ObjInv, ClientTypeOK, RoundsTrue, MutexHeld, Guarded, QueueTrue
<1>2. ASSUME NEW o \in Ops, NEW how, Finish(o, how), stage[o] \in Behind
      PROVE  ObjInv'
  BY <1>2, FinishObj
<1>3. ASSUME NEW o \in Ops, Invoke(o) \/ (\E p \in Ops : AskFromHandler(p, o)) \/ Enter(o)
      PROVE  ObjInv'
  BY <1>3, AskObj, EnterObj DEF Invoke, AskFromHandler
<1>4. ASSUME NEW o \in Ops, TakeAndClose(o)
      PROVE  ObjInv'
  <2>1. /\ stage[o] = "idle" /\ stage' = [stage EXCEPT ![o] = "closing"] /\ ~python
        /\ kind[o] = "close" /\ UNCHANGED <<world, round, inner, queue, gone>>
    BY <1>4 DEF TakeAndClose
  <2>2. /\ stage'[o] = "closing" /\ \A p \in Ops \ {o} : stage'[p] = stage[p]
    BY <2>1 DEF ObjInv, ClientTypeOK
  <2>3. ClientTypeOK' /\ (\A p \in Ops : RoundsTrue(p)') /\ MutexHeld'
    BY <2>1, <2>2 DEF ObjInv, ClientTypeOK, RoundsTrue, MutexHeld, Guarded, world
  <2>4. \A i \in 1 .. Len(queue) : queue[i] \in Ops /\ queue[i] # o
    BY <2>1 DEF ObjInv, ClientTypeOK, QueueTrue
  <2>5. QueueTrue'
    BY <2>1, <2>2, <2>4 DEF ObjInv, QueueTrue
  <2> QED
    BY <2>3, <2>5 DEF ObjInv
<1>5. ASSUME NEW o \in Ops, HandlerReturns(o)
      PROVE  ObjInv'
  <2>1. /\ stage[o] = "handling" /\ stage' = [stage EXCEPT ![o] = "running"]
        /\ round' = [round EXCEPT ![o] = @ + 1] /\ UNCHANGED <<world, inner, queue, gone>>
    BY <1>5 DEF HandlerReturns
  <2>2. kind[o] = "call" /\ round[o] \in 1 .. Rounds /\ round[o] < Rounds /\ Rounds \in Nat
    BY <2>1 DEF ObjInv, ClientTypeOK, RoundsTrue
  <2>3. /\ stage'[o] = "running" /\ \A p \in Ops \ {o} : stage'[p] = stage[p] /\ round'[p] = round[p]
        /\ round' \in [Ops -> 1 .. Rounds]
    BY <2>1, <2>2 DEF ObjInv, ClientTypeOK
  <2>4. ClientTypeOK'
    BY <2>1, <2>3 DEF ObjInv, ClientTypeOK, world
  <2>5. (\A p \in Ops : RoundsTrue(p)') /\ MutexHeld'
    BY <2>1, <2>2, <2>3 DEF ObjInv, RoundsTrue, MutexHeld, Guarded, world
  <2>6. \A i \in 1 .. Len(queue) : queue[i] \in Ops /\ queue[i] # o
    BY <2>1 DEF ObjInv, ClientTypeOK, QueueTrue
  <2>7. QueueTrue'
    BY <2>1, <2>3, <2>6 DEF ObjInv, QueueTrue
  <2> QED
    BY <2>4, <2>5, <2>7 DEF ObjInv
<1>6. ASSUME NEW o \in Ops, Receives(o)
      PROVE  ObjInv'
  <2>1. stage[o] = "running" /\ (Respond(o) \/ UNCHANGED objVars)
    BY <1>6 DEF Receives, Requesting
  <2>2. ASSUME Respond(o)
        PROVE  \/ \E how : Finish(o, how)
               \/ Handle(o) /\ kind[o] = "call" /\ round[o] < Rounds
    BY <2>2 DEF Respond
  <2> QED
    BY <1>1, <1>2, <2>1, <2>2, HandleObj DEF Behind
<1>7. ASSUME NEW o \in Ops, Writes(o) \/ Fails(o) \/ TimesOut(o) \/ CloseClient(o)
      PROVE  ObjInv'
  <2>1. stage[o] \in Behind /\ (UNCHANGED objVars \/ \E how : Finish(o, how))
    BY <1>7 DEF Writes, Fails, TimesOut, CloseClient, Requesting, Behind
  <2> QED
    BY <1>1, <1>2, <2>1
<1>8. ASSUME NEW o \in Ops, Locks(o) \/ Polls(o) \/ Replies(o)
      PROVE  ObjInv'
  BY <1>1, <1>8 DEF Locks, Polls, Replies
<1>9. CASE Elsewhere
  BY <1>1, <1>9 DEF Elsewhere
<1>10. CASE UNCHANGED clientVars
  BY <1>1, <1>10 DEF clientVars
<1> QED
  BY <1>3, <1>4, <1>5, <1>6, <1>7, <1>8, <1>9, <1>10 DEF ClientNext, Progresses

\* Before the first operation.
LEMMA ObjInit == ClientInit => ObjInv
<1> SUFFICES ASSUME ClientInit
             PROVE  ObjInv
  OBVIOUS
<1>1. /\ stage = [o \in Ops |-> "idle"] /\ round = [o \in Ops |-> 1] /\ inner = None
      /\ queue = <<>> /\ gone = FALSE /\ kind \in Mixes /\ {python, modern, handler} \subseteq BOOLEAN
  BY DEF ClientInit
<1>2. 1 \in 1 .. Rounds /\ <<>> \in Seq(Ops)
  OBVIOUS
<1>3. ClientTypeOK
  BY <1>1, <1>2 DEF ClientTypeOK
<1>4. (\A o \in Ops : RoundsTrue(o)) /\ MutexHeld /\ QueueTrue
  BY <1>1 DEF RoundsTrue, MutexHeld, QueueTrue
<1> QED
  BY <1>3, <1>4 DEF ObjInv

-----------------------------------------------------------------------------
(* Requests. *)

\* Whatever the operations do, what reaches the streams are calls of SendMessage.
LEMMA StepsSend == ObjInv /\ [ClientNext]_clientVars => [SendNext]_sendVars
<1> SUFFICES ASSUME ObjInv, [ClientNext]_clientVars
             PROVE  [SendNext]_sendVars
  OBVIOUS
<1>1. ASSUME NEW c \in Callers, Begin(c) \/ CallStep(c) \/ TimeOut(c)
      PROVE  SendNext
  BY <1>1 DEF SendNext
<1>2. ASSUME NEW o \in Ops, NEW by, Ask(o, by)
      PROVE  [SendNext]_sendVars
  <2>1. UNCHANGED sendVars \/ (kind[o] # "close" /\ Begin(<<o, 1>>))
    BY <1>2 DEF Ask, Start
  <2> QED
    BY <1>1, <2>1, RequestsAreCalls
<1>3. ASSUME NEW o \in Ops, Enter(o)
      PROVE  [SendNext]_sendVars
  <2>1. UNCHANGED sendVars \/ (kind[o] # "close" /\ Begin(<<o, 1>>))
    BY <1>3 DEF Enter, Start
  <2> QED
    BY <1>1, <2>1, RequestsAreCalls
<1>4. ASSUME NEW o \in Ops, HandlerReturns(o)
      PROVE  [SendNext]_sendVars
  <2>1. stage[o] = "handling" /\ kind[o] # "close" /\ Begin(<<o, round[o] + 1>>)
    BY <1>4 DEF HandlerReturns, ObjInv, RoundsTrue
  <2> QED
    BY <1>1, <2>1, RequestsAreCalls
<1>5. ASSUME NEW o \in Ops,
             \/ Writes(o) \/ Locks(o) \/ Receives(o) \/ Polls(o) \/ Fails(o) \/ Replies(o)
             \/ TimesOut(o)
      PROVE  [SendNext]_sendVars
  <2>1. stage[o] = "running" /\ (CallStep(Call(o)) \/ TimeOut(Call(o)))
    BY <1>5 DEF Writes, Locks, Receives, Polls, Fails, Replies, TimesOut, Requesting, CallStep
  <2>2. Call(o) \in Callers
    BY <2>1, RequestsAreCalls DEF ObjInv, RoundsTrue
  <2> QED
    BY <1>1, <2>1, <2>2
<1>6. ASSUME NEW o \in Ops, TakeAndClose(o) \/ CloseClient(o)
      PROVE  [SendNext]_sendVars
  BY <1>6 DEF TakeAndClose, CloseClient, SendNext
<1>7. CASE Elsewhere
  BY <1>7 DEF Elsewhere, SendNext
<1>8. CASE UNCHANGED clientVars
  BY <1>8 DEF clientVars
<1> QED
  BY <1>2, <1>3, <1>4, <1>5, <1>6, <1>7, <1>8 DEF ClientNext, Progresses, Invoke, AskFromHandler

\* A request goes on.
LEMMA RunsOn ==
  ASSUME RequestsTrue, NEW o \in Ops, stage[o] = "running", InFlight(Call(o)),
         UNCHANGED <<objVars, result>>,
         \A d \in Callers : d # Call(o) => pc'[d] = pc[d]
  PROVE  RequestsTrue'
<1>1. UNCHANGED <<stage, round, kind, outcome>>
  BY DEF objVars, world
<1>2. \A p \in Ops : Call(p)' = Call(p) /\ Valued(p)' = Valued(p)
  BY <1>1 DEF Call, Valued
<1>3. ASSUME NEW c \in Callers
      PROVE  /\ InFlight(c)' => \E p \in Ops : c = Call(p)' /\ stage'[p] = "running"
             /\ result'[c] = "response" => pc'[c] = "ended"
  BY <1>1, <1>2 DEF RequestsTrue, InFlight
<1> QED
  BY <1>1, <1>2, <1>3 DEF RequestsTrue

\* What is asked of an operation's requests is asked of calls.
LEMMA AskedOfCalls ==
  ASSUME ObjInv, RequestsTrue, NEW o \in Ops, NEW r \in 1 .. round[o],
         r < round[o] \/ stage[o] = "handling" \/ Valued(o)
  PROVE  <<o, r>> \in Callers
<1>1. RoundsTrue(o) /\ round[o] \in Nat
  BY DEF ObjInv, ClientTypeOK
<1>2. kind[o] # "close"
  BY <1>1 DEF RoundsTrue, Valued
<1> QED
  BY <1>2, RequestsAreCalls

\* A request ends, and its operation with it, or the input handler is asked.
LEMMA RequestEnds ==
  ASSUME ObjInv, RequestsTrue, NEW o \in Ops, stage[o] = "running",
         pc'[Call(o)] = "ended",
         \A d \in Callers : d # Call(o) => pc'[d] = pc[d] /\ result'[d] = result[d],
         NEW s \in {"ended", "handling"}, stage' = [stage EXCEPT ![o] = s],
         NEW w \in Outcomes, outcome' = [outcome EXCEPT ![o] = w],
         w # "none" => s = "ended",
         s = "handling" \/ w \in {"value", "alive"} => result'[Call(o)] = "response",
         UNCHANGED <<round, kind>>
  PROVE  RequestsTrue'
<1>1. /\ stage'[o] = s /\ \A p \in Ops \ {o} : stage'[p] = stage[p]
      /\ outcome'[o] = w /\ \A p \in Ops \ {o} : outcome'[p] = outcome[p]
      /\ outcome' \in [Ops -> Outcomes]
  BY DEF ObjInv, ClientTypeOK, RequestsTrue, Outcomes
<1>2. \A p \in Ops : Call(p)' = Call(p)
  BY DEF Call
<1>3. ASSUME NEW c \in Callers
      PROVE  /\ InFlight(c)' => \E p \in Ops : c = Call(p)' /\ stage'[p] = "running"
             /\ result'[c] = "response" => pc'[c] = "ended"
  BY <1>1, <1>2 DEF RequestsTrue, InFlight
<1>4. ASSUME NEW p \in Ops, NEW r \in 1 .. round[p],
             r < round[p] \/ stage'[p] = "handling" \/ Valued(p)'
      PROVE  result'[<<p, r>>] = "response"
  <2>1. CASE p # o
    <3>1. r < round[p] \/ stage[p] = "handling" \/ Valued(p)
      BY <1>1, <1>4, <2>1 DEF Valued
    <3>2. <<p, r>> \in Callers /\ <<p, r>> # Call(o) /\ result[<<p, r>>] = "response"
      BY <2>1, <3>1, AskedOfCalls DEF Call, RequestsTrue
    <3> QED
      BY <3>2
  <2>2. CASE p = o /\ r = round[o]
    <3>1. round[o] \in Nat
      BY DEF ObjInv, ClientTypeOK
    <3>2. s = "handling" \/ w \in {"value", "alive"}
      BY <1>1, <1>4, <2>2, <3>1 DEF Valued
    <3> QED
      BY <2>2, <3>2 DEF Call
  <2>3. CASE p = o /\ r # round[o]
    <3>1. r < round[o]
      <4>1. round[o] \in Nat
        BY DEF ObjInv, ClientTypeOK
      <4> QED
        BY <2>3, <4>1
    <3>2. <<o, r>> \in Callers /\ <<o, r>> # Call(o) /\ result[<<o, r>>] = "response"
      BY <2>3, <3>1, AskedOfCalls DEF Call, RequestsTrue
    <3> QED
      BY <2>3, <3>2
  <2> QED
    BY <2>1, <2>2, <2>3
<1>5. \A p \in Ops : outcome'[p] # "none" => stage'[p] = "ended"
  BY <1>1 DEF RequestsTrue
<1> QED
  BY <1>1, <1>3, <1>4, <1>5 DEF RequestsTrue, Outcomes

\* An operation makes a request, when the one before was given its response.
LEMMA RequestBegins ==
  ASSUME SInv, ObjInv, RequestsTrue, NEW o \in Ops, stage[o] \in {"idle", "waiting", "handling"},
         kind[o] # "close", NEW n \in Nat, Begin(<<o, n>>), <<o, n>> \in Callers,
         n = (IF stage[o] = "handling" THEN round[o] + 1 ELSE round[o]),
         round' = [round EXCEPT ![o] = n],
         stage' = [stage EXCEPT ![o] = "running"], UNCHANGED <<kind, outcome>>
  PROVE  RequestsTrue'
<1>1. /\ stage'[o] = "running" /\ \A p \in Ops \ {o} : stage'[p] = stage[p]
      /\ round'[o] = n /\ \A p \in Ops \ {o} : round'[p] = round[p]
      /\ round[o] \in Nat
  BY DEF ObjInv, ClientTypeOK
<1>2. /\ Call(o)' = <<o, n>> /\ \A p \in Ops \ {o} : Call(p)' = Call(p)
  BY <1>1 DEF Call
<1>3. /\ UNCHANGED result /\ pc[<<o, n>>] = "idle"
      /\ \A d \in Callers : d # <<o, n>> => pc'[d] = pc[d]
  BY DEF Begin, SInv, SendTypeOK
<1>4. ASSUME NEW c \in Callers
      PROVE  /\ InFlight(c)' => \E p \in Ops : c = Call(p)' /\ stage'[p] = "running"
             /\ result'[c] = "response" => pc'[c] = "ended"
  BY <1>1, <1>2, <1>3 DEF RequestsTrue, InFlight
<1>5. ~Valued(o) /\ ~Valued(o)'
  BY DEF RequestsTrue, Valued
<1>6. ASSUME NEW p \in Ops, NEW r \in 1 .. round'[p],
             r < round'[p] \/ stage'[p] = "handling" \/ Valued(p)'
      PROVE  result'[<<p, r>>] = "response"
  <2>1. CASE p # o
    BY <1>1, <1>3, <1>6, <2>1 DEF RequestsTrue, Valued
  <2>2. CASE p = o
    <3>1. r \in 1 .. round[o] /\ (r < round[o] \/ stage[o] = "handling")
      BY <1>1, <1>5, <1>6, <2>2
    <3> QED
      BY <1>3, <2>2, <3>1 DEF RequestsTrue
  <2> QED
    BY <2>1, <2>2
<1>7. \A p \in Ops : outcome'[p] # "none" => stage'[p] = "ended"
  BY <1>1 DEF RequestsTrue
<1> QED
  BY <1>4, <1>6, <1>7 DEF RequestsTrue

\* What an operation does without a request.
LEMMA Requestless ==
  ASSUME ObjInv, RequestsTrue, NEW o \in Ops, stage[o] \notin {"running", "handling"},
         NEW s \in {"waiting", "closing", "ended"}, stage' = [stage EXCEPT ![o] = s],
         NEW w \in Outcomes, outcome' = [outcome EXCEPT ![o] = w], w # "none" => s = "ended",
         w \in {"value", "alive"} => kind[o] = "close",
         UNCHANGED <<pc, result, round, kind>>
  PROVE  RequestsTrue'
<1>1. /\ stage'[o] = s /\ \A p \in Ops \ {o} : stage'[p] = stage[p]
      /\ outcome'[o] = w /\ \A p \in Ops \ {o} : outcome'[p] = outcome[p]
      /\ outcome' \in [Ops -> Outcomes]
  BY DEF ObjInv, ClientTypeOK, RequestsTrue, Outcomes
<1>2. \A p \in Ops : Call(p)' = Call(p)
  BY DEF Call
<1>3. ASSUME NEW c \in Callers
      PROVE  /\ InFlight(c)' => \E p \in Ops : c = Call(p)' /\ stage'[p] = "running"
             /\ result'[c] = "response" => pc'[c] = "ended"
  BY <1>1, <1>2 DEF RequestsTrue, InFlight
<1>4. \A p \in Ops : stage'[p] = "handling" \/ Valued(p)' => stage[p] = "handling" \/ Valued(p)
  BY <1>1 DEF Valued
<1>5. \A p \in Ops : \A r \in 1 .. round'[p] :
        r < round'[p] \/ stage'[p] = "handling" \/ Valued(p)' => result'[<<p, r>>] = "response"
  BY <1>4 DEF RequestsTrue
<1>6. \A p \in Ops : outcome'[p] # "none" => stage'[p] = "ended"
  BY <1>1 DEF RequestsTrue
<1> QED
  BY <1>1, <1>3, <1>5, <1>6 DEF RequestsTrue, Outcomes

\* A step of a call that is in flight.
LEMMA CallSteps ==
  ASSUME SInv, NEW c \in Callers, CallStep(c) \/ TimeOut(c)
  PROVE  /\ InFlight(c)
         /\ \A d \in Callers : d # c => pc'[d] = pc[d] /\ result'[d] = result[d]
<1>1. pc \in [Callers -> Stages] /\ result \in [Callers -> Results]
  BY DEF SInv, SendTypeOK, Stages, Results
<1>2. CASE Write(c) \/ StreamClosed(c) \/ Report(c) \/ TimeOut(c)
  BY <1>1, <1>2 DEF Write, StreamClosed, Report, TimeOut, End, InFlight
<1>3. CASE Lock(c) \/ Reply(c) \/ NoticeCancelled(c) \/ PollToken(c)
  BY <1>1, <1>3 DEF Lock, Reply, NoticeCancelled, PollToken, Select, InFlight, callVars
<1>4. CASE Receive(c)
  BY <1>1, <1>4 DEF Receive, End, Select, InFlight
<1> QED
  BY <1>2, <1>3, <1>4 DEF CallStep

\* A call that receives ends with its response, or goes on.
LEMMA Receiving ==
  ASSUME SInv, NEW c \in Callers, Receive(c)
  PROVE  IF pc'[c] = "ended" THEN result'[c] = "response" ELSE UNCHANGED result
<1>1. pc \in [Callers -> Stages] /\ result \in [Callers -> Results]
  BY DEF SInv, SendTypeOK, Stages, Results
<1> QED
  BY <1>1 DEF Receive, End, Select

\* A call that fails ends with the error.
LEMMA Failing ==
  ASSUME SInv, NEW c \in Callers,
         (Write(c) /\ closed) \/ StreamClosed(c) \/ Report(c) \/ TimeOut(c)
  PROVE  pc'[c] = "ended" /\ result'[c] \in {"closed", "cancelled", "timed_out"}
<1>1. pc \in [Callers -> Stages] /\ result \in [Callers -> Results]
  BY DEF SInv, SendTypeOK, Stages, Results
<1> QED
  BY <1>1 DEF Write, StreamClosed, Report, TimeOut, End

\* An operation whose request has ended comes to what it says.
LEMMA Ends ==
  ASSUME SInv, ObjInv, RequestsTrue, NEW o \in Ops, stage[o] = "running",
         CallStep(Call(o)) \/ TimeOut(Call(o)), pc'[Call(o)] = "ended",
         NEW how \in Outcomes \ {"none", "alive", "dead"}, Finish(o, how),
         how = "value" => result'[Call(o)] = "response"
  PROVE  RequestsTrue'
<1>1. Call(o) \in Callers
  BY RequestsAreCalls DEF ObjInv, RoundsTrue
<1>2. Outcome(o, how) \in Outcomes \ {"none"}
      /\ (Outcome(o, how) \in {"value", "alive"} => how = "value")
  BY DEF Outcome, Outcomes
<1>3. /\ stage' = [stage EXCEPT ![o] = "ended"] /\ UNCHANGED <<round, kind>>
      /\ outcome' = [outcome EXCEPT ![o] = Outcome(o, how)]
  BY DEF Finish, world
<1>4. \A d \in Callers : d # Call(o) => pc'[d] = pc[d] /\ result'[d] = result[d]
  BY <1>1, CallSteps
<1> HIDE DEF Outcomes
<1> QED
  BY <1>2, <1>3, <1>4, RequestEnds

\* A response ends its operation, unless it says that the server needs input.
LEMMA ReceivesStep ==
  ASSUME SInv, ObjInv, RequestsTrue, NEW o \in Ops, Receives(o)
  PROVE  RequestsTrue'
<1>1. stage[o] = "running" /\ Receive(Call(o))
  BY DEF Receives, Requesting
<1>2. Call(o) \in Callers
  BY <1>1, RequestsAreCalls DEF ObjInv, RoundsTrue
<1>3. /\ InFlight(Call(o))
      /\ \A d \in Callers : d # Call(o) => pc'[d] = pc[d] /\ result'[d] = result[d]
  BY <1>1, <1>2, CallSteps DEF CallStep
<1>4. CASE pc'[Call(o)] # "ended"
  <2>1. UNCHANGED <<objVars, result>>
    BY <1>1, <1>2, <1>4, Receiving DEF Receives
  <2> QED
    BY <1>1, <1>3, <2>1, RunsOn
<1>5. CASE pc'[Call(o)] = "ended"
  <2>1. result'[Call(o)] = "response" /\ Respond(o)
    BY <1>1, <1>2, <1>5, Receiving DEF Receives
  <2>2. CASE \E how \in {"value", "Retryable", "NonRetryable", "Validation"} : Finish(o, how)
    BY <1>1, <1>5, <2>1, <2>2, Ends DEF CallStep, Outcomes
  <2>3. CASE Handle(o)
    <3>1. outcome[o] = "none" /\ outcome \in [Ops -> Outcomes]
      BY <1>1 DEF RequestsTrue, Outcomes
    <3>2. /\ stage' = [stage EXCEPT ![o] = "handling"] /\ UNCHANGED <<round, kind>>
          /\ outcome' = [outcome EXCEPT ![o] = "none"]
      BY <2>3, <3>1 DEF Handle, world
    <3>3. "none" \in Outcomes
      BY DEF Outcomes
    <3> QED
      BY <1>1, <1>3, <1>5, <2>1, <3>2, <3>3, RequestEnds
  <2>4. Respond(o) => Handle(o) \/ \E how \in {"value", "Retryable", "NonRetryable", "Validation"} :
                                     Finish(o, how)
    BY DEF Respond, ErrorOf
  <2> QED
    BY <2>1, <2>2, <2>3, <2>4
<1> QED
  BY <1>4, <1>5

\* Every step keeps what is said of the requests.
LEMMA RequestsStep == SInv /\ ObjInv /\ RequestsTrue /\ [ClientNext]_clientVars => RequestsTrue'
<1> SUFFICES ASSUME SInv, ObjInv, RequestsTrue, [ClientNext]_clientVars
             PROVE  RequestsTrue'
  OBVIOUS
<1>0. outcome \in [Ops -> Outcomes] /\ \A o \in Ops : stage[o] # "ended" => outcome[o] = "none"
  BY DEF RequestsTrue, Outcomes
<1>1. {"none", "value", "dead", "closed"} \subseteq Outcomes
  BY DEF Outcomes
<1>2. ASSUME UNCHANGED <<pc, result, objVars>>
      PROVE  RequestsTrue'
  BY <1>2 DEF objVars, world, RequestsTrue, InFlight, Call, Valued
<1>3. \A o \in Ops : outcome = [outcome EXCEPT ![o] = outcome[o]] /\ round = [round EXCEPT ![o] = round[o]]
  BY <1>0 DEF ObjInv, ClientTypeOK
<1>4. ASSUME NEW o \in Ops, stage[o] \in {"idle", "waiting"}, Start(o), kind[o] # "close",
             UNCHANGED <<world, round, outcome>>
      PROVE  RequestsTrue'
  <2>1. round[o] = 1 /\ <<o, 1>> \in Callers
    BY <1>4, RequestsAreCalls DEF ObjInv, RoundsTrue
  <2>2. round' = [round EXCEPT ![o] = 1] /\ UNCHANGED kind
    BY <1>3, <1>4, <2>1 DEF world
  <2> QED
    BY <1>4, <2>1, <2>2, RequestBegins DEF Start
<1>5. ASSUME NEW o \in Ops, NEW by, Ask(o, by)
      PROVE  RequestsTrue'
  <2>1. stage[o] = "idle" /\ UNCHANGED <<world, round, outcome>>
    BY <1>5 DEF Ask
  <2>2. CASE Guarded(o)
    <3>1. /\ stage' = [stage EXCEPT ![o] = "waiting"] /\ UNCHANGED <<pc, result, kind>>
          /\ outcome' = [outcome EXCEPT ![o] = "none"]
      BY <1>0, <1>3, <1>5, <2>1, <2>2 DEF Ask, sendVars, callVars, world
    <3> QED
      BY <1>1, <2>1, <3>1, Requestless
  <2>3. CASE ~Guarded(o)
    BY <1>4, <1>5, <2>1, <2>3 DEF Ask
  <2> QED
    BY <2>2, <2>3
<1>6. ASSUME NEW o \in Ops, Enter(o)
      PROVE  RequestsTrue'
  <2>1. stage[o] = "waiting" /\ UNCHANGED <<world, round, kind>>
    <3>1. queue \in Seq(Ops) /\ queue # <<>> /\ Head(queue) = o
      BY <1>6 DEF Enter, ObjInv, ClientTypeOK
    <3>2. 1 \in 1 .. Len(queue) /\ queue[1] = o
      BY <3>1
    <3> QED
      BY <1>6, <3>2 DEF Enter, ObjInv, QueueTrue, world
  <2>2. CASE gone
    <3> DEFINE w == Outcome(o, IF kind[o] = "close" THEN "value" ELSE "closed")
    <3>1. /\ stage' = [stage EXCEPT ![o] = "ended"] /\ outcome' = [outcome EXCEPT ![o] = w]
          /\ UNCHANGED <<pc, result>>
      BY <1>6, <2>2 DEF Enter, sendVars, callVars
    <3>2. w \in Outcomes /\ (w \in {"value", "alive"} => kind[o] = "close")
      BY DEF Outcome, Outcomes
    <3> HIDE DEF w
    <3> QED
      BY <2>1, <3>1, <3>2, Requestless
  <2>3. CASE ~gone /\ kind[o] = "close"
    <3>1. /\ stage' = [stage EXCEPT ![o] = "closing"] /\ outcome' = [outcome EXCEPT ![o] = "none"]
          /\ UNCHANGED <<pc, result>>
      BY <1>0, <1>3, <1>6, <2>1, <2>3 DEF Enter, sendVars, callVars
    <3> QED
      BY <1>1, <2>1, <3>1, Requestless
  <2>4. CASE ~gone /\ kind[o] # "close"
    BY <1>4, <1>6, <2>1, <2>4 DEF Enter
  <2> QED
    BY <2>2, <2>3, <2>4
<1>7. ASSUME NEW o \in Ops, HandlerReturns(o)
      PROVE  RequestsTrue'
  <2>1. /\ stage[o] = "handling" /\ kind[o] # "close" /\ Begin(<<o, round[o] + 1>>)
        /\ round[o] + 1 \in Nat /\ round' = [round EXCEPT ![o] = round[o] + 1]
        /\ stage' = [stage EXCEPT ![o] = "running"] /\ UNCHANGED <<kind, outcome>>
    BY <1>7 DEF HandlerReturns, ObjInv, ClientTypeOK, RoundsTrue, world
  <2>2. <<o, round[o] + 1>> \in Callers
    BY <2>1, RequestsAreCalls
  <2> QED
    BY <2>1, <2>2, RequestBegins
<1>8. ASSUME NEW o \in Ops, TakeAndClose(o)
      PROVE  RequestsTrue'
  <2>1. /\ stage[o] = "idle" /\ stage' = [stage EXCEPT ![o] = "closing"]
        /\ outcome' = [outcome EXCEPT ![o] = "none"] /\ UNCHANGED <<pc, result, round, kind>>
    BY <1>0, <1>3, <1>8 DEF TakeAndClose, sendVars, callVars, world
  <2> QED
    BY <1>1, <2>1, Requestless
<1>9. ASSUME NEW o \in Ops, CloseClient(o)
      PROVE  RequestsTrue'
  <2>1. /\ stage[o] = "closing" /\ kind[o] = "close" /\ stage' = [stage EXCEPT ![o] = "ended"]
        /\ outcome' = [outcome EXCEPT ![o] = "value"] /\ UNCHANGED <<pc, result, round, kind>>
    BY <1>9 DEF CloseClient, Finish, Outcome, Close, sendVars, callVars, world, ObjInv, RoundsTrue
  <2> QED
    BY <1>1, <2>1, Requestless
<1>10. ASSUME NEW o \in Ops,
              Locks(o) \/ Polls(o) \/ Replies(o) \/ (Writes(o) /\ ~closed)
       PROVE  RequestsTrue'
  <2>1. /\ stage[o] = "running" /\ CallStep(Call(o)) /\ UNCHANGED <<objVars, result>>
    BY <1>10 DEF Locks, Polls, Replies, Writes, Requesting, CallStep, Lock, PollToken,
       NoticeCancelled, Reply, Write, callVars
  <2>2. Call(o) \in Callers
    BY <2>1, RequestsAreCalls DEF ObjInv, RoundsTrue
  <2> QED
    BY <2>1, <2>2, CallSteps, RunsOn
<1>11. ASSUME NEW o \in Ops, Fails(o) \/ TimesOut(o) \/ (Writes(o) /\ closed)
       PROVE  RequestsTrue'
  <2>1. /\ stage[o] = "running"
        /\ \/ Write(Call(o)) /\ closed /\ Finish(o, "closed")
           \/ /\ StreamClosed(Call(o)) \/ Report(Call(o)) \/ TimeOut(Call(o))
              /\ Finish(o, result'[Call(o)])
    BY <1>11 DEF Fails, TimesOut, Writes, Requesting
  <2>2. Call(o) \in Callers
    BY <2>1, RequestsAreCalls DEF ObjInv, RoundsTrue
  <2>3. pc'[Call(o)] = "ended" /\ result'[Call(o)] \in {"closed", "cancelled", "timed_out"}
    BY <2>1, <2>2, Failing
  <2>4. \E how \in {"closed", "cancelled", "timed_out"} : Finish(o, how)
    BY <2>1, <2>3
  <2>5. CallStep(Call(o)) \/ TimeOut(Call(o))
    BY <2>1 DEF CallStep
  <2>6. \A how \in {"closed", "cancelled", "timed_out"} :
          how \in Outcomes \ {"none", "alive", "dead"} /\ how # "value"
    BY DEF Outcomes
  <2> QED
    BY <2>1, <2>3, <2>4, <2>5, <2>6, Ends
<1>12. CASE Elsewhere
  BY <1>2, <1>12 DEF Elsewhere, ServerResponds, ServerProgresses, ServerPushes, Cancel, Drain, Close, callVars
<1>13. CASE UNCHANGED clientVars
  BY <1>2, <1>13 DEF clientVars, sendVars, callVars
<1> QED
  BY <1>5, <1>6, <1>7, <1>8, <1>9, <1>10, <1>11, <1>12, <1>13, ReceivesStep
     DEF ClientNext, Progresses, Invoke, AskFromHandler

\* Before the first request.
LEMMA RequestsInit == ClientInit => SendInit /\ RequestsTrue
<1> SUFFICES ASSUME ClientInit
             PROVE  SendInit /\ RequestsTrue
  OBVIOUS
<1>1. /\ SendInit /\ pc = [c \in Callers |-> "idle"] /\ result = [c \in Callers |-> "none"]
      /\ outcome = [o \in Ops |-> "none"] /\ stage = [o \in Ops |-> "idle"]
      /\ round = [o \in Ops |-> 1]
  BY DEF ClientInit, SendInit
<1> QED
  BY <1>1 DEF RequestsTrue, InFlight, Valued

-----------------------------------------------------------------------------
(* Requests that are made in turn. *)

\* What the calls are given does not change under way.
LEMMA SameGiven ==
  ASSUME UNCHANGED <<world, tokened>>
  PROVE  UNCHANGED InTurn!given
  BY DEF world, InTurn!given

\* A step of a call is the same step where calls are made in turn.
LEMMA SameCallSteps ==
  ASSUME UNCHANGED <<world, tokened>>, NEW c, CallStep(c) \/ TimeOut(c)
  PROVE  InTurn!CallStep(c) \/ InTurn!TimeOut(c)
<1> USE SameGiven
<1>1. CASE Write(c)
  BY <1>1 DEF Write, Post, Room, End, InTurn!CallStep, InTurn!Write, InTurn!Post, InTurn!Room, InTurn!End
<1>2. CASE Lock(c)
  BY <1>2 DEF Lock, Select, InTurn!CallStep, InTurn!Lock, InTurn!Select
<1>3. CASE Receive(c)
  BY <1>3 DEF Receive, End, Select, IsFor, Response,
     InTurn!CallStep, InTurn!Receive, InTurn!End, InTurn!Select, InTurn!IsFor, InTurn!Response
<1>4. CASE StreamClosed(c)
  BY <1>4 DEF StreamClosed, End, InTurn!CallStep, InTurn!StreamClosed, InTurn!End
<1>5. CASE Reply(c)
  BY <1>5 DEF Reply, Post, Room, Select,
     InTurn!CallStep, InTurn!Reply, InTurn!Post, InTurn!Room, InTurn!Select
<1>6. CASE PollToken(c)
  BY <1>6 DEF PollToken, callVars, Look, Sleep,
     InTurn!CallStep, InTurn!PollToken, InTurn!callVars, InTurn!Look, InTurn!Sleep
<1>7. CASE NoticeCancelled(c)
  BY <1>7 DEF NoticeCancelled, InTurn!CallStep, InTurn!NoticeCancelled
<1>8. CASE Report(c)
  BY <1>8 DEF Report, Post, Room, End,
     InTurn!CallStep, InTurn!Report, InTurn!Post, InTurn!Room, InTurn!End
<1>9. CASE TimeOut(c)
  BY <1>9 DEF TimeOut, End, InTurn!TimeOut, InTurn!End
<1> QED
  BY <1>1, <1>2, <1>3, <1>4, <1>5, <1>6, <1>7, <1>8, <1>9 DEF CallStep

\* So is a step of the server, of the token or of the transport.
LEMMA SameOtherSteps ==
  ASSUME UNCHANGED <<world, tokened>>
  PROVE  /\ \A c : ServerResponds(c) => InTurn!ServerResponds(c)
         /\ \A c : ServerProgresses(c) => InTurn!ServerProgresses(c)
         /\ \A q : ServerPushes(q) => InTurn!ServerPushes(q)
         /\ \A k : Cancel(k) => InTurn!Cancel(k)
         /\ Drain => InTurn!Drain
         /\ Close => InTurn!Close
<1> USE SameGiven
<1>1. \A c : ServerResponds(c) => InTurn!ServerResponds(c)
  BY DEF ServerResponds, Arrives, Response, tokenVars,
     InTurn!ServerResponds, InTurn!Arrives, InTurn!Response, InTurn!tokenVars
<1>2. \A c : ServerProgresses(c) => InTurn!ServerProgresses(c)
  BY DEF ServerProgresses, Arrives, Progress, tokenVars,
     InTurn!ServerProgresses, InTurn!Arrives, InTurn!Progress, InTurn!tokenVars
<1>3. \A q : ServerPushes(q) => InTurn!ServerPushes(q)
  BY DEF ServerPushes, Arrives, Push, tokenVars,
     InTurn!ServerPushes, InTurn!Arrives, InTurn!Push, InTurn!tokenVars
<1>4. \A k : Cancel(k) => InTurn!Cancel(k)
  BY DEF Cancel, Store, NotifyWaiters, callVars,
     InTurn!Cancel, InTurn!Store, InTurn!NotifyWaiters, InTurn!callVars
<1>5. Drain => InTurn!Drain
  BY DEF Drain, tokenVars, InTurn!Drain, InTurn!tokenVars
<1>6. Close => InTurn!Close
  BY DEF Close, tokenVars, InTurn!Close, InTurn!tokenVars
<1> QED
  BY <1>1, <1>2, <1>3, <1>4, <1>5, <1>6

\* A request is begun where none is in flight, if operations are made behind the
\* mutex only.
LEMMA BegunInTurn ==
  ASSUME UNCHANGED <<world, tokened>>, NEW c, Begin(c),
         (python /\ \A o \in Ops : kind[o] # "send") => \A d \in Callers : ~InFlight(d)
  PROVE  InTurn!Begin(c)
<1>1. (~python \/ \E o \in Ops : kind[o] = "send") \/ \A d \in Callers : ~InTurn!InFlight(d)
  BY DEF InFlight, InTurn!InFlight
<1> QED
  BY <1>1, SameGiven DEF Begin, tokenVars, InTurn!Begin, InTurn!tokenVars

\* The operation that begins a request behind the mutex is the one that holds it.
LEMMA NoneInFlight ==
  ASSUME ObjInv, RequestsTrue, python, \A p \in Ops : kind[p] # "send",
         inner = None \/ \E o \in Ops : inner = o /\ stage[o] # "running"
  PROVE  \A d \in Callers : ~InFlight(d)
<1>1. \A p \in Ops : stage[p] = "running" => inner = p
  BY DEF ObjInv, MutexHeld, Guarded
<1> QED
  BY <1>1 DEF RequestsTrue

\* Every step is one of calls that are made in turn.
LEMMA StepsInTurn ==
  SInv /\ ObjInv /\ RequestsTrue /\ [ClientNext]_clientVars => [InTurn!SendNext]_(InTurn!sendVars)
<1> SUFFICES ASSUME SInv, ObjInv, RequestsTrue, [ClientNext]_clientVars
             PROVE  [InTurn!SendNext]_(InTurn!sendVars)
  OBVIOUS
<1>1. UNCHANGED world
  BY DEF ClientNext, Progresses, Invoke, AskFromHandler, Ask, TakeAndClose, Enter, CloseClient, Finish,
     HandlerReturns, Writes, Locks, Receives, Respond, Handle, Polls, Fails, Replies, TimesOut,
     Elsewhere, clientVars, objVars
<1>2. UNCHANGED tokened
  <2>1. [SendNext]_sendVars
    BY StepsSend
  <2> QED
    BY <2>1 DEF SendNext, Begin, CallStep, Write, Lock, Receive, StreamClosed, Reply, PollToken,
       NoticeCancelled, Report, TimeOut, ServerResponds, ServerProgresses, ServerPushes, Cancel, Drain, Close,
       sendVars, callVars, given
<1>3. ASSUME UNCHANGED sendVars
      PROVE  UNCHANGED InTurn!sendVars
  BY <1>1, <1>2, <1>3, SameGiven DEF sendVars, callVars, tokenVars,
     InTurn!sendVars, InTurn!callVars, InTurn!tokenVars
<1>4. ASSUME NEW o \in Ops, NEW by, Ask(o, by)
      PROVE  [InTurn!SendNext]_(InTurn!sendVars)
  <2>1. CASE Guarded(o)
    BY <1>3, <1>4, <2>1 DEF Ask
  <2>2. CASE ~Guarded(o)
    <3>1. kind[o] # "close" /\ Begin(<<o, 1>>) /\ ~(python /\ \A p \in Ops : kind[p] # "send")
      BY <1>4, <2>2 DEF Ask, Start, Guarded
    <3>2. <<o, 1>> \in Callers
      BY <3>1, RequestsAreCalls
    <3> QED
      BY <1>1, <1>2, <3>1, <3>2, BegunInTurn DEF InTurn!SendNext
  <2> QED
    BY <2>1, <2>2
<1>5. ASSUME NEW o \in Ops, Enter(o)
      PROVE  [InTurn!SendNext]_(InTurn!sendVars)
  <2>1. inner = None /\ (UNCHANGED sendVars \/ (kind[o] # "close" /\ Begin(<<o, 1>>)))
    BY <1>5 DEF Enter, Start
  <2>2. kind[o] # "close" => <<o, 1>> \in Callers
    BY RequestsAreCalls
  <2> QED
    BY <1>1, <1>2, <1>3, <2>1, <2>2, NoneInFlight, BegunInTurn DEF InTurn!SendNext
<1>6. ASSUME NEW o \in Ops, HandlerReturns(o)
      PROVE  [InTurn!SendNext]_(InTurn!sendVars)
  <2>1. stage[o] = "handling" /\ kind[o] # "close" /\ Begin(<<o, round[o] + 1>>)
    BY <1>6 DEF HandlerReturns, ObjInv, RoundsTrue
  <2>2. <<o, round[o] + 1>> \in Callers
    BY <2>1, RequestsAreCalls
  <2>3. python /\ (\A p \in Ops : kind[p] # "send") => inner = o
    BY <2>1 DEF ObjInv, MutexHeld, Guarded
  <2> QED
    BY <1>1, <1>2, <2>1, <2>2, <2>3, NoneInFlight, BegunInTurn DEF InTurn!SendNext
<1>7. ASSUME NEW o \in Ops,
             \/ Writes(o) \/ Locks(o) \/ Receives(o) \/ Polls(o) \/ Fails(o) \/ Replies(o)
             \/ TimesOut(o)
      PROVE  InTurn!SendNext
  <2>1. stage[o] = "running" /\ (CallStep(Call(o)) \/ TimeOut(Call(o)))
    BY <1>7 DEF Writes, Locks, Receives, Polls, Fails, Replies, TimesOut, Requesting, CallStep
  <2>2. Call(o) \in Callers
    BY <2>1, RequestsAreCalls DEF ObjInv, RoundsTrue
  <2> QED
    BY <1>1, <1>2, <2>1, <2>2, SameCallSteps DEF InTurn!SendNext
<1>8. ASSUME NEW o \in Ops, TakeAndClose(o) \/ CloseClient(o)
      PROVE  [InTurn!SendNext]_(InTurn!sendVars)
  <2>1. Close \/ UNCHANGED sendVars
    BY <1>8 DEF TakeAndClose, CloseClient
  <2> QED
    BY <1>1, <1>2, <1>3, <2>1, SameOtherSteps DEF InTurn!SendNext
<1>9. ASSUME Elsewhere
      PROVE  InTurn!SendNext
  BY <1>1, <1>2, <1>9, SameOtherSteps DEF Elsewhere, InTurn!SendNext
<1>10. CASE UNCHANGED clientVars
  BY <1>3, <1>10 DEF clientVars
<1> QED
  BY <1>4, <1>5, <1>6, <1>7, <1>8, <1>9, <1>10 DEF ClientNext, Progresses, Invoke, AskFromHandler

-----------------------------------------------------------------------------
(* Theorems. *)

\* What an operation is at, and who holds the mutex (lib.rs:169).
THEOREM OperationsConsistent == ClientSpec => []ObjInv
  BY ObjInit, ObjStep, PTL DEF ClientSpec

\* The requests of operations are calls of SendMessage: what holds of those holds
\* of a client's, close(), input handlers and the mutex of the Python class included.
THEOREM ClientSends == ClientSpec => SendSpec
  BY RequestsInit, StepsSend, OperationsConsistent, PTL DEF ClientSpec, SendSpec

\* One request of a client reads the stream (send_message.rs:202, 162-178).
THEOREM OneRequestReads == ClientSpec => []OneReader
  BY ClientSends, OneReaderAtATime, PTL

\* A request is in flight only for the operation that is at it.
THEOREM RequestsConsistent == ClientSpec => []RequestsTrue
  BY RequestsInit, RequestsStep, OperationsConsistent, ClientSends, SendConsistent, PTL DEF ClientSpec

\* A value is the answer to the last request of its own operation, and those
\* before it were answered (client/input/driver.rs:46-62).
THEOREM ValuesAreOwn == ClientSpec => []OwnValue
<1>1. SInv /\ ObjInv /\ RequestsTrue => OwnValue
  <2> SUFFICES ASSUME SInv, ObjInv, RequestsTrue, NEW o \in Ops,
                      outcome[o] \in {"value", "alive"}, kind[o] # "close", NEW r \in 1 .. round[o]
               PROVE  <<o, r>> \in answered \ lost
    BY DEF OwnValue
  <2>1. result[<<o, r>>] = "response" /\ <<o, r>> \in Callers
    BY AskedOfCalls DEF RequestsTrue, Valued
  <2> QED
    BY <2>1 DEF SInv, OwnResponse
<1> QED
  BY <1>1, OperationsConsistent, RequestsConsistent, ClientSends, SendConsistent, PTL

\* Behind the mutex of the Python class requests are made one after the other, as
\* the streams are meant to be shared (send_message.rs:19-23, lib.rs:169).
THEOREM PythonMakesInTurn == ClientSpec => MadeInTurn
<1>1. ClientInit => InTurn!SendInit
  BY DEF ClientInit, SendInit, TokenInit, InTurn!SendInit, InTurn!TokenInit
<1> QED
  BY <1>1, StepsInTurn, OperationsConsistent, RequestsConsistent, ClientSends, SendConsistent, PTL
     DEF ClientSpec, MadeInTurn, InTurn!SendSpec

=============================================================================
