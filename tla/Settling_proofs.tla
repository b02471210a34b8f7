---------------------------- MODULE Settling_proofs ----------------------------
(***************************************************************************)
(* Proofs about EraRouting, for any number of messages of each kind, any   *)
(* modes, peers and gateways, and any number of re-issues; and about       *)
(* Settling, where connect() writes the cache as well.                     *)
(***************************************************************************)
EXTENDS Settling, SequenceTheorems, TLAPS

-----------------------------------------------------------------------------
(* Routing: the invariant of tasks and messages, and of the cache they write. *)

USE KindsAssumption, EraAssumption

\* Before the first message nothing is known, told or spent.
LEMMA InitEraInv == EraInit => EraInv
<1> SUFFICES ASSUME EraInit PROVE EraInv
  OBVIOUS
<1> USE DEF EraInit
<1>1. EraTypeOK
  <2>1. answers \in [Messages -> Seq(Words)]
    OBVIOUS
  <2> QED
    BY <2>1 DEF EraTypeOK, Eras
<1>2. EraIsTrue /\ VerdictsTrue /\ SeenTrue /\ OneStreamBeforeLegacy
  BY DEF EraIsTrue, VerdictsTrue, SeenTrue, OneStreamBeforeLegacy
<1>3. CountsTrue /\ OncePerIssue /\ FallsBackOnlyWhenUnknown
  BY DEF CountsTrue, OncePerIssue, FallsBackOnlyWhenUnknown
<1>4. OneExchangeTells
  BY DEF OneExchangeTells, Messages
<1> QED
  BY <1>1, <1>2, <1>3, <1>4 DEF EraInv, RoutingInv

\* Telling one caller adds to what that caller heard, and to nothing else.
LEMMA Telling ==
  ASSUME EraTypeOK, NEW m \in Messages, NEW words \in Seq(Words), Tell(m, words)
  PROVE  /\ answers' \in [Messages -> Seq(Words)]
         /\ \A n \in Messages : n # m => answers'[n] = answers[n]
         /\ m \in Requests => answers'[m] = answers[m] \o words
<1>1. answers \in [Messages -> Seq(Words)]
  BY DEF EraTypeOK
<1>2. answers[m] \o words \in Seq(Words)
  BY <1>1
<1> QED
  BY <1>1, <1>2 DEF Tell

\* What may be told is a sequence of words, the peer's responses first.
LEMMA TellableAccepted ==
  ASSUME NEW told \in Accepted
  PROVE  told \in Seq(Words) /\ FinalsFirst(told)
<1>1. \A s \in Carried : s \in Seq(Finals)
  <2>1. ASSUME NEW s \in Carried PROVE s \in Seq(Finals)
    <3>1. PICK n \in 1 .. MaxFinals : s \in [1 .. n -> Finals]
      BY <2>1 DEF Carried
    <3>2. n \in Nat
      BY EraAssumption
    <3> QED
      BY <3>1, <3>2, SeqDef
  <2> QED
    BY <2>1
<1>2. Finals \subseteq Words /\ "blank" \in Words /\ "local" \in Words
  BY DEF Finals, Words
<1>3. CASE told \in Carried
  <2>1. told \in Seq(Finals) /\ Len(told) \in Nat /\ \A i \in 1 .. Len(told) : told[i] \in Finals
    BY <1>1, <1>3
  <2>2. told \in Seq(Words)
    BY <1>2, <2>1, SeqMonotonic
  <2>3. \A i \in 1 .. Len(told) - 1 : told[i] \in Finals
    BY <2>1
  <2> QED
    BY <2>2, <2>3, Zenon DEF FinalsFirst
<1>4. ASSUME told = <<"blank">> \/ told = <<>>
      PROVE  told \in Seq(Words) /\ FinalsFirst(told)
  <2>1. CASE told = <<"blank">>
    <3>1. <<"blank">> \in Seq(Words) /\ FinalsFirst(<<"blank">>)
      BY <1>2 DEF FinalsFirst
    <3> QED
      BY <2>1, <3>1
  <2>2. CASE told = <<>>
    <3>1. <<>> \in Seq(Words) /\ FinalsFirst(<<>>)
      BY DEF FinalsFirst
    <3> QED
      BY <2>2, <3>1
  <2> QED
    BY <1>4, <2>1, <2>2
<1>5. CASE \E s \in Carried \cup {<<>>} : told = s \o <<"local">>
  <2>1. PICK s \in Seq(Finals) : told = s \o <<"local">>
    <3>1. <<>> \in Seq(Finals)
      OBVIOUS
    <3> QED
      BY <1>1, <1>5, <3>1
  <2>2. <<"local">> \in Seq(Words) /\ s \in Seq(Words)
    BY <1>2
  <2>3. /\ told \in Seq(Words) /\ Len(told) = Len(s) + 1 /\ Len(s) \in Nat
        /\ \A i \in 1 .. Len(s) : told[i] = s[i]
    BY <2>1, <2>2
  <2> QED
    BY <2>1, <2>3 DEF FinalsFirst
<1> QED
  BY <1>3, <1>4, <1>5 DEF Accepted, LegacyOk

\* What a caller hears first is the whole of what it hears.
LEMMA FirstTold ==
  ASSUME EraTypeOK, OneExchangeTells, NEW m \in Messages, NEW told \in Seq(Words),
         pc[m] \notin {"proved", "done"}, Tell(m, told)
  PROVE  /\ answers' \in [Messages -> Seq(Words)]
         /\ \A n \in Messages : n # m => answers'[n] = answers[n]
         /\ m \in Requests => answers'[m] = told
<1>1. m \in Requests => answers[m] = <<>>
  BY DEF OneExchangeTells
<1>2. /\ answers' \in [Messages -> Seq(Words)]
      /\ \A n \in Messages : n # m => answers'[n] = answers[n]
      /\ m \in Requests => answers'[m] = answers[m] \o told
  BY Telling
<1>3. <<>> \o told = told
  OBVIOUS
<1> QED
  BY <1>1, <1>2, <1>3

\* A word of the transport's own, or of an error of the peer's.
LEMMA FirstWord ==
  ASSUME EraTypeOK, OneExchangeTells, NEW m \in Messages, NEW word \in Words,
         pc[m] \notin {"proved", "done"}, Tell(m, <<word>>)
  PROVE  /\ answers' \in [Messages -> Seq(Words)]
         /\ \A n \in Messages : n # m => answers'[n] = answers[n]
         /\ m \in Requests => answers'[m] = <<word>>
         /\ m \in Requests => FinalsFirst(answers'[m]) /\ answers'[m] # <<>>
<1>1. <<word>> \in Seq(Words) /\ FinalsFirst(<<word>>) /\ <<word>> # <<>>
  BY DEF FinalsFirst
<1> QED
  BY <1>1, FirstTold

\* Acting on a message, or not, counts for that message only.
LEMMA Counting ==
  ASSUME EraTypeOK, NEW m \in Messages, Executed(m) \/ UNCHANGED executed
  PROVE  /\ executed' \in [Messages -> Nat]
         /\ \A n \in Messages : n # m => executed'[n] = executed[n]
         /\ executed'[m] \in {executed[m], executed[m] + 1}
<1>1. executed \in [Messages -> Nat]
  BY DEF EraTypeOK
<1>2. executed[m] \in Nat
  BY <1>1
<1>3. CASE Executed(m)
  BY <1>1, <1>2, <1>3 DEF Executed
<1>4. CASE UNCHANGED executed
  BY <1>1, <1>4
<1> QED
  BY <1>3, <1>4

\* What one task does changes what its own caller was told, and no other.
LEMMA TellsOwn ==
  ASSUME OneExchangeTells, NEW m \in Messages,
         \A n \in Messages : n # m => /\ answers'[n] = answers[n] /\ pc'[n] = pc[n]
                                       /\ executed'[n] = executed[n]
                                       /\ attempt'[n] = attempt[n],
         m \in Requests => IF pc'[m] \in {"proved", "done"}
                             THEN /\ FinalsFirst(answers'[m])
                                  /\ answers'[m] = <<>> => executed'[m] = attempt'[m] + 1
                             ELSE answers'[m] = <<>>
  PROVE  OneExchangeTells'
BY DEF OneExchangeTells, Messages

\* A message handed to the transport is queued.
LEMMA SubmitStep ==
  ASSUME RoutingInv, NEW m \in Messages, Submit(m)
  PROVE  RoutingInv'
<1> USE DEF RoutingInv, Submit, To, Resolved, Ensure, fixed
<1>1. EraTypeOK'
  BY DEF EraTypeOK, Eras, Words
<1>2. VerdictsTrue'
  BY DEF EraTypeOK, VerdictsTrue, SeenTrue
<1>3. OneStreamBeforeLegacy' /\ FallsBackOnlyWhenUnknown' /\ SeenTrue'
  BY DEF EraTypeOK, Eras, OneStreamBeforeLegacy, FallsBackOnlyWhenUnknown, SeenTrue
<1>4. CountsTrue' /\ OncePerIssue'
  BY DEF EraTypeOK, CountsTrue, OncePerIssue
<1>5. OneExchangeTells'
  BY DEF EraTypeOK, OneExchangeTells, Messages
<1> QED
  BY <1>1, <1>2, <1>3, <1>4, <1>5

\* A known legacy era: the GET stream is there before the message is sent.
LEMMA RouteLegacyStep ==
  ASSUME RoutingInv, NEW m \in Messages, RouteLegacy(m)
  PROVE  RoutingInv'
<1> USE DEF RoutingInv, RouteLegacy, SendLegacy, To, Resolved, Ensure, fixed
<1>1. EraTypeOK'
  BY DEF EraTypeOK, Eras, Words
<1>2. VerdictsTrue'
  BY DEF EraTypeOK, VerdictsTrue, SeenTrue
<1>3. OneStreamBeforeLegacy' /\ FallsBackOnlyWhenUnknown' /\ SeenTrue'
  BY DEF EraTypeOK, Eras, OneStreamBeforeLegacy, FallsBackOnlyWhenUnknown, SeenTrue
<1>4. CountsTrue' /\ OncePerIssue'
  BY DEF EraTypeOK, CountsTrue, OncePerIssue
<1>5. OneExchangeTells'
  BY DEF EraTypeOK, OneExchangeTells, Messages
<1> QED
  BY <1>1, <1>2, <1>3, <1>4, <1>5

\* The era a task saw is the mode's, or an unpinned cache's.
LEMMA RouteModernStep ==
  ASSUME RoutingInv, NEW m \in Messages, RouteModern(m)
  PROVE  RoutingInv'
<1> USE DEF RoutingInv, RouteModern, To, Resolved, Ensure, fixed
<1>1. EraTypeOK'
  BY DEF EraTypeOK, Eras, Words
<1>2. VerdictsTrue'
  BY DEF EraTypeOK, VerdictsTrue, SeenTrue
<1>3. OneStreamBeforeLegacy' /\ FallsBackOnlyWhenUnknown' /\ SeenTrue'
  BY DEF EraTypeOK, Eras, OneStreamBeforeLegacy, FallsBackOnlyWhenUnknown, SeenTrue
<1>4. CountsTrue' /\ OncePerIssue'
  BY DEF EraTypeOK, CountsTrue, OncePerIssue
<1>5. OneExchangeTells'
  BY DEF EraTypeOK, OneExchangeTells, Messages
<1> QED
  BY <1>1, <1>2, <1>3, <1>4, <1>5

\* A message without a method is answered and costs nothing.
LEMMA RejectReplyStep ==
  ASSUME RoutingInv, NEW m \in Messages, RejectReply(m)
  PROVE  RoutingInv'
<1> USE DEF RoutingInv, RejectReply, To, Resolved, Ensure, fixed
<1>t. /\ answers' \in [Messages -> Seq(Words)]
      /\ \A n \in Messages : n # m => answers'[n] = answers[n]
      /\ m \in Requests => FinalsFirst(answers'[m]) /\ answers'[m] # <<>>
  BY FirstWord DEF Words
<1>1. EraTypeOK'
  BY <1>t DEF EraTypeOK, Eras
<1>2. VerdictsTrue'
  BY DEF EraTypeOK, VerdictsTrue, SeenTrue
<1>3. OneStreamBeforeLegacy' /\ FallsBackOnlyWhenUnknown' /\ SeenTrue'
  BY DEF EraTypeOK, Eras, OneStreamBeforeLegacy, FallsBackOnlyWhenUnknown, SeenTrue
<1>4. CountsTrue' /\ OncePerIssue'
  BY DEF EraTypeOK, CountsTrue, OncePerIssue
<1>5. OneExchangeTells'
  BY <1>t DEF EraTypeOK, OneExchangeTells, Messages
<1> QED
  BY <1>1, <1>2, <1>3, <1>4, <1>5

\* A 2xx comes from no peer that refuses modern requests.
LEMMA AcceptStep ==
  ASSUME RoutingInv, NEW m \in Messages,
         NEW told \in Accepted, Accept(m, told)
  PROVE  RoutingInv'
<1> USE DEF RoutingInv, Accept, To, Resolved, Ensure, fixed
<1>t. /\ answers' \in [Messages -> Seq(Words)]
      /\ \A n \in Messages : n # m => answers'[n] = answers[n]
      /\ m \in Requests => FinalsFirst(answers'[m])
  BY TellableAccepted, FirstTold
<1>e. /\ executed' \in [Messages -> Nat]
      /\ \A n \in Messages : n # m => executed'[n] = executed[n]
      /\ executed'[m] = executed[m] + 1
  BY Counting DEF EraTypeOK, Executed
<1>x. executed'[m] = attempt'[m] + 1
  BY <1>e DEF EraTypeOK, CountsTrue
<1>1. EraTypeOK'
  BY <1>t, <1>e DEF EraTypeOK, Eras
<1>2. VerdictsTrue'
  BY DEF EraTypeOK, VerdictsTrue, SeenTrue
<1>3. OneStreamBeforeLegacy' /\ FallsBackOnlyWhenUnknown' /\ SeenTrue'
  BY DEF EraTypeOK, Eras, OneStreamBeforeLegacy, FallsBackOnlyWhenUnknown, SeenTrue
<1>4. CountsTrue' /\ OncePerIssue'
  <2>1. \A n \in Messages : executed[n] \in Nat /\ executed'[n] \in Nat
    BY <1>e DEF EraTypeOK
  <2>2. \A n \in Messages : attempt[n] \in Nat
    BY DEF EraTypeOK
  <2>3. \A n \in Messages : n # m => pc'[n] = pc[n] /\ attempt'[n] = attempt[n]
    BY DEF EraTypeOK
  <2>4. executed'[m] = attempt[m] + 1
    BY <1>e, <2>1, <2>2 DEF CountsTrue
  <2>5. OncePerIssue'
    <3>1. \A n \in Messages : executed'[n] <= attempt'[n] + 1
      <4>1. ASSUME NEW n \in Messages, n # m PROVE executed'[n] <= attempt'[n] + 1
        BY <1>e, <2>3, <4>1 DEF OncePerIssue
      <4>2. executed'[m] <= attempt'[m] + 1
        BY <1>x, <2>1
      <4> QED
        BY <4>1, <4>2
    <3> QED
      BY <3>1 DEF OncePerIssue
  <2>6. CountsTrue'
    BY <1>e, <2>1, <2>2, <2>3, <2>4 DEF EraTypeOK, CountsTrue
  <2> QED
    BY <2>5, <2>6
<1>5. OneExchangeTells'
  <2>1. OneExchangeTells /\ pc'[m] = "proved"
    BY DEF EraTypeOK
  <2>2. \A n \in Messages : n # m => pc'[n] = pc[n] /\ attempt'[n] = attempt[n]
    BY DEF EraTypeOK
  <2> QED
    BY <1>t, <1>e, <1>x, <2>1, <2>2, TellsOwn
<1> QED
  BY <1>1, <1>2, <1>3, <1>4, <1>5

\* A re-issue raises the count of issues with that of executions.
LEMMA StreamBreaksStep ==
  ASSUME RoutingInv, NEW m \in Messages, StreamBreaks(m)
  PROVE  RoutingInv'
<1> USE DEF RoutingInv, StreamBreaks, To, Resolved, Ensure, fixed
<1>e. /\ executed' \in [Messages -> Nat]
      /\ \A n \in Messages : n # m => executed'[n] = executed[n]
      /\ executed'[m] = executed[m] + 1
  BY Counting DEF EraTypeOK, Executed
<1>o. OneExchangeTells
  OBVIOUS
<1>r. CASE m \in Requests /\ attempt[m] < MaxRetries
  <2>1. /\ attempt'[m] = attempt[m] + 1 /\ attempt' \in [Messages -> 0 .. MaxRetries]
        /\ \A n \in Messages : n # m => attempt'[n] = attempt[n]
    <3>1. attempt \in [Messages -> 0 .. MaxRetries] /\ MaxRetries \in Nat
      BY EraAssumption DEF EraTypeOK
    <3>2. attempt' = [attempt EXCEPT ![m] = @ + 1]
      BY <1>r
    <3>3. attempt[m] + 1 \in 0 .. MaxRetries
      BY <1>r, <3>1
    <3> HIDE DEF RoutingInv, StreamBreaks, To, Resolved, Ensure, fixed
    <3> QED
      BY <3>1, <3>2, <3>3
  <2>2. pc' = pc /\ answers' = answers
    BY <1>r
  <2>3. EraTypeOK'
    BY <1>e, <2>1, <2>2 DEF EraTypeOK
  <2>4. \A n \in Messages : /\ executed[n] \in Nat /\ executed'[n] \in Nat
                             /\ attempt[n] \in Nat /\ attempt'[n] \in Nat
    BY <2>3 DEF EraTypeOK
  <2>5. executed'[m] = attempt'[m]
    BY <1>e, <2>1, <2>4 DEF CountsTrue
  <2>6. CountsTrue' /\ OncePerIssue'
    BY <1>e, <2>1, <2>2, <2>4, <2>5 DEF CountsTrue, OncePerIssue
  <2>7. VerdictsTrue'
    BY <2>2 DEF VerdictsTrue
  <2>8. OneStreamBeforeLegacy' /\ FallsBackOnlyWhenUnknown' /\ SeenTrue'
    BY <2>2 DEF OneStreamBeforeLegacy, FallsBackOnlyWhenUnknown, SeenTrue
  <2>9. m \in Requests => pc'[m] = "modern" /\ answers'[m] = <<>>
    BY <1>o, <2>2 DEF OneExchangeTells
  <2>10. OneExchangeTells'
    BY <1>e, <1>o, <2>1, <2>2, <2>9, TellsOwn
  <2> QED
    BY <2>3, <2>6, <2>7, <2>8, <2>10
<1>l. CASE ~(m \in Requests /\ attempt[m] < MaxRetries)
  <2>1. /\ answers' \in [Messages -> Seq(Words)]
        /\ \A n \in Messages : n # m => answers'[n] = answers[n]
        /\ m \in Requests => FinalsFirst(answers'[m]) /\ answers'[m] # <<>>
    BY <1>l, FirstWord DEF Words
  <2>2. /\ attempt' = attempt /\ pc' = [pc EXCEPT ![m] = "proved"]
    BY <1>l
  <2>3. EraTypeOK'
    BY <1>e, <2>1, <2>2 DEF EraTypeOK
  <2>4. /\ pc'[m] = "proved"
        /\ \A n \in Messages : n # m => pc'[n] = pc[n]
    BY <2>2 DEF EraTypeOK
  <2>5. \A n \in Messages : /\ executed[n] \in Nat /\ executed'[n] \in Nat
                             /\ attempt[n] \in Nat
    BY <2>3 DEF EraTypeOK
  <2>6. executed'[m] <= attempt[m] + 1
    BY <1>e, <2>5 DEF CountsTrue
  <2>7. CountsTrue' /\ OncePerIssue'
    BY <1>e, <2>2, <2>4, <2>5, <2>6 DEF CountsTrue, OncePerIssue
  <2>8. VerdictsTrue'
    BY <2>4 DEF VerdictsTrue
  <2>9. OneStreamBeforeLegacy' /\ FallsBackOnlyWhenUnknown' /\ SeenTrue'
    BY <2>4 DEF OneStreamBeforeLegacy, FallsBackOnlyWhenUnknown, SeenTrue
  <2>10. OneExchangeTells'
    BY <1>e, <1>o, <2>1, <2>2, <2>4, TellsOwn
  <2> QED
    BY <2>3, <2>7, <2>8, <2>9, <2>10
<1> QED
  BY <1>r, <1>l

\* A modern error comes from a modern peer.
LEMMA RejectStep ==
  ASSUME RoutingInv, NEW m \in Messages,
         NEW reply \in {"rejection", "outdated"}, Reject(m, reply)
  PROVE  RoutingInv'
<1> USE DEF RoutingInv, Reject, To, Resolved, Ensure, fixed
<1>t. /\ answers' \in [Messages -> Seq(Words)]
      /\ \A n \in Messages : n # m => answers'[n] = answers[n]
      /\ m \in Requests => FinalsFirst(answers'[m]) /\ answers'[m] # <<>>
  BY FirstWord DEF Words
<1>1. EraTypeOK'
  BY <1>t DEF EraTypeOK, Eras
<1>2. VerdictsTrue'
  BY DEF EraTypeOK, VerdictsTrue, SeenTrue
<1>3. OneStreamBeforeLegacy' /\ FallsBackOnlyWhenUnknown' /\ SeenTrue'
  BY DEF EraTypeOK, Eras, OneStreamBeforeLegacy, FallsBackOnlyWhenUnknown, SeenTrue
<1>4. CountsTrue' /\ OncePerIssue'
  BY DEF EraTypeOK, CountsTrue, OncePerIssue
<1>5. OneExchangeTells'
  BY <1>t DEF EraTypeOK, OneExchangeTells, Messages
<1> QED
  BY <1>1, <1>2, <1>3, <1>4, <1>5

\* With no gateway, a bare refusal comes from a legacy peer.
LEMMA RefuseBareStep ==
  ASSUME RoutingInv, NEW m \in Messages, RefuseBare(m)
  PROVE  RoutingInv'
<1> USE DEF RoutingInv, RefuseBare, To, Resolved, Ensure, fixed
<1>t. /\ answers' \in [Messages -> Seq(Words)]
      /\ \A n \in Messages : n # m => answers'[n] = answers[n]
      /\ m \in Requests => answers'[m] = IF seen[m] = "none" THEN answers[m] ELSE <<"local">>
  BY FirstWord DEF Words, EraTypeOK
<1>1. EraTypeOK'
  BY <1>t DEF EraTypeOK, Eras
<1>2. VerdictsTrue'
  BY DEF EraTypeOK, VerdictsTrue, SeenTrue
<1>3. OneStreamBeforeLegacy' /\ FallsBackOnlyWhenUnknown' /\ SeenTrue'
  BY DEF EraTypeOK, Eras, OneStreamBeforeLegacy, FallsBackOnlyWhenUnknown, SeenTrue
<1>4. CountsTrue' /\ OncePerIssue'
  BY DEF EraTypeOK, CountsTrue, OncePerIssue
<1>5. OneExchangeTells'
  <2>1. OneExchangeTells /\ FinalsFirst(<<"local">>)
    BY DEF FinalsFirst
  <2>2. /\ executed' = executed /\ attempt' = attempt
        /\ \A n \in Messages : n # m => pc'[n] = pc[n]
    BY DEF EraTypeOK
  <2>3. m \in Requests => IF seen[m] = "none" THEN pc'[m] = "fallback" /\ answers'[m] = <<>>
                          ELSE pc'[m] = "proved" /\ answers'[m] = <<"local">>
    BY <1>t DEF EraTypeOK, OneExchangeTells
  <2>4. <<"local">> # <<>>
    OBVIOUS
  <2>5. m \in Requests => IF pc'[m] \in {"proved", "done"}
                            THEN FinalsFirst(answers'[m]) /\ answers'[m] # <<>>
                            ELSE answers'[m] = <<>>
    BY <2>1, <2>3, <2>4
  <2> HIDE DEF RoutingInv, RefuseBare, To, Resolved, Ensure, fixed
  <2> QED
    BY <1>t, <2>1, <2>2, <2>5, TellsOwn
<1> QED
  BY <1>1, <1>2, <1>3, <1>4, <1>5

\* A failure is told and nothing is concluded from it.
LEMMA FailStep ==
  ASSUME RoutingInv, NEW m \in Messages, Fail(m)
  PROVE  RoutingInv'
<1> USE DEF RoutingInv, Fail, To, Resolved, Ensure, fixed
<1>t. /\ answers' \in [Messages -> Seq(Words)]
      /\ \A n \in Messages : n # m => answers'[n] = answers[n]
      /\ m \in Requests => FinalsFirst(answers'[m]) /\ answers'[m] # <<>>
  BY FirstWord DEF Words
<1>e. /\ executed' \in [Messages -> Nat]
      /\ \A n \in Messages : n # m => executed'[n] = executed[n]
      /\ executed'[m] \in {executed[m], executed[m] + 1}
  BY Counting
<1>1. EraTypeOK'
  BY <1>t, <1>e DEF EraTypeOK, Eras
<1>2. VerdictsTrue'
  BY DEF EraTypeOK, VerdictsTrue, SeenTrue
<1>3. OneStreamBeforeLegacy' /\ FallsBackOnlyWhenUnknown' /\ SeenTrue'
  BY DEF EraTypeOK, Eras, OneStreamBeforeLegacy, FallsBackOnlyWhenUnknown, SeenTrue
<1>4. CountsTrue' /\ OncePerIssue'
  <2>1. \A n \in Messages : executed[n] \in Nat /\ executed'[n] \in Nat
    BY <1>e DEF EraTypeOK
  <2>2. \A n \in Messages : attempt[n] \in Nat
    BY DEF EraTypeOK
  <2>3. \A n \in Messages : n # m => pc'[n] = pc[n] /\ attempt'[n] = attempt[n]
    BY DEF EraTypeOK
  <2>4. executed'[m] <= attempt[m] + 1
    BY <1>e, <2>1, <2>2 DEF CountsTrue
  <2>5. OncePerIssue'
    BY <1>e, <2>1, <2>2, <2>3, <2>4 DEF EraTypeOK, OncePerIssue
  <2>6. CountsTrue'
    BY <1>e, <2>1, <2>2, <2>3, <2>4 DEF EraTypeOK, CountsTrue
  <2> QED
    BY <2>5, <2>6
<1>5. OneExchangeTells'
  <2>1. OneExchangeTells /\ pc'[m] = "done"
    BY DEF EraTypeOK
  <2>2. \A n \in Messages : n # m => pc'[n] = pc[n] /\ attempt'[n] = attempt[n]
    BY DEF EraTypeOK
  <2> QED
    BY <1>t, <1>e, <2>1, <2>2, TellsOwn
<1> QED
  BY <1>1, <1>2, <1>3, <1>4, <1>5

\* What is recorded was proved.
LEMMA RecordStep ==
  ASSUME RoutingInv, NEW m \in Messages, Record(m)
  PROVE  RoutingInv'
<1> USE DEF RoutingInv, Record, To, Resolved, Ensure, fixed
<1>1. EraTypeOK'
  BY DEF EraTypeOK, Eras, Words
<1>2. VerdictsTrue'
  BY DEF EraTypeOK, VerdictsTrue, SeenTrue
<1>3. OneStreamBeforeLegacy' /\ FallsBackOnlyWhenUnknown' /\ SeenTrue'
  BY DEF EraTypeOK, Eras, OneStreamBeforeLegacy, FallsBackOnlyWhenUnknown, SeenTrue
<1>4. CountsTrue' /\ OncePerIssue'
  BY DEF EraTypeOK, CountsTrue, OncePerIssue
<1>5. OneExchangeTells'
  BY DEF EraTypeOK, OneExchangeTells, Messages
<1> QED
  BY <1>1, <1>2, <1>3, <1>4, <1>5

\* What is recorded was proved, and the GET stream opens first.
LEMMA FallBackStep ==
  ASSUME RoutingInv, NEW m \in Messages, FallBack(m)
  PROVE  RoutingInv'
<1> USE DEF RoutingInv, FallBack, SendLegacy, To, Resolved, Ensure, fixed
<1>1. EraTypeOK'
  BY DEF EraTypeOK, Eras, Words
<1>2. VerdictsTrue'
  BY DEF EraTypeOK, VerdictsTrue, SeenTrue
<1>3. OneStreamBeforeLegacy' /\ FallsBackOnlyWhenUnknown' /\ SeenTrue'
  BY DEF EraTypeOK, Eras, OneStreamBeforeLegacy, FallsBackOnlyWhenUnknown, SeenTrue
<1>4. CountsTrue' /\ OncePerIssue'
  BY DEF EraTypeOK, CountsTrue, OncePerIssue
<1>5. OneExchangeTells'
  BY DEF EraTypeOK, OneExchangeTells, Messages
<1> QED
  BY <1>1, <1>2, <1>3, <1>4, <1>5

\* A legacy answer is one execution of a message that had none to spare.
LEMMA LegacyAnswerStep ==
  ASSUME RoutingInv, NEW m \in Messages,
         NEW told \in LegacyOk, LegacyAnswer(m, told)
  PROVE  RoutingInv'
<1> USE DEF RoutingInv, LegacyAnswer, To, Resolved, Ensure, fixed
<1>t. /\ answers' \in [Messages -> Seq(Words)]
      /\ \A n \in Messages : n # m => answers'[n] = answers[n]
      /\ m \in Requests => FinalsFirst(answers'[m])
  BY TellableAccepted, FirstTold DEF Accepted
<1>e. /\ executed' \in [Messages -> Nat]
      /\ \A n \in Messages : n # m => executed'[n] = executed[n]
      /\ executed'[m] = executed[m] + 1
  BY Counting DEF EraTypeOK, Executed
<1>x. executed'[m] = attempt'[m] + 1
  BY <1>e DEF EraTypeOK, CountsTrue
<1>1. EraTypeOK'
  BY <1>t, <1>e DEF EraTypeOK, Eras
<1>2. VerdictsTrue'
  BY DEF EraTypeOK, VerdictsTrue, SeenTrue
<1>3. OneStreamBeforeLegacy' /\ FallsBackOnlyWhenUnknown' /\ SeenTrue'
  BY DEF EraTypeOK, Eras, OneStreamBeforeLegacy, FallsBackOnlyWhenUnknown, SeenTrue
<1>4. CountsTrue' /\ OncePerIssue'
  <2>1. \A n \in Messages : executed[n] \in Nat /\ executed'[n] \in Nat
    BY <1>e DEF EraTypeOK
  <2>2. \A n \in Messages : attempt[n] \in Nat
    BY DEF EraTypeOK
  <2>3. \A n \in Messages : n # m => pc'[n] = pc[n] /\ attempt'[n] = attempt[n]
    BY DEF EraTypeOK
  <2>4. executed'[m] = attempt[m] + 1
    BY <1>e, <2>1, <2>2 DEF CountsTrue
  <2>5. OncePerIssue'
    <3>1. \A n \in Messages : executed'[n] <= attempt'[n] + 1
      <4>1. ASSUME NEW n \in Messages, n # m PROVE executed'[n] <= attempt'[n] + 1
        BY <1>e, <2>3, <4>1 DEF OncePerIssue
      <4>2. executed'[m] <= attempt'[m] + 1
        BY <1>x, <2>1
      <4> QED
        BY <4>1, <4>2
    <3> QED
      BY <3>1 DEF OncePerIssue
  <2>6. CountsTrue'
    BY <1>e, <2>1, <2>2, <2>3, <2>4 DEF EraTypeOK, CountsTrue
  <2> QED
    BY <2>5, <2>6
<1>5. OneExchangeTells'
  <2>1. OneExchangeTells /\ pc'[m] = "done"
    BY DEF EraTypeOK
  <2>2. \A n \in Messages : n # m => pc'[n] = pc[n] /\ attempt'[n] = attempt[n]
    BY DEF EraTypeOK
  <2> QED
    BY <1>t, <1>e, <1>x, <2>1, <2>2, TellsOwn
<1> QED
  BY <1>1, <1>2, <1>3, <1>4, <1>5

\* As LegacyAnswer, whether or not the peer acted.
LEMMA LegacyFailStep ==
  ASSUME RoutingInv, NEW m \in Messages, LegacyFail(m)
  PROVE  RoutingInv'
<1> USE DEF RoutingInv, LegacyFail, To, Resolved, Ensure, fixed
<1>t. /\ answers' \in [Messages -> Seq(Words)]
      /\ \A n \in Messages : n # m => answers'[n] = answers[n]
      /\ m \in Requests => FinalsFirst(answers'[m]) /\ answers'[m] # <<>>
  BY FirstWord DEF Words
<1>e. /\ executed' \in [Messages -> Nat]
      /\ \A n \in Messages : n # m => executed'[n] = executed[n]
      /\ executed'[m] \in {executed[m], executed[m] + 1}
  BY Counting
<1>1. EraTypeOK'
  BY <1>t, <1>e DEF EraTypeOK, Eras
<1>2. VerdictsTrue'
  BY DEF EraTypeOK, VerdictsTrue, SeenTrue
<1>3. OneStreamBeforeLegacy' /\ FallsBackOnlyWhenUnknown' /\ SeenTrue'
  BY DEF EraTypeOK, Eras, OneStreamBeforeLegacy, FallsBackOnlyWhenUnknown, SeenTrue
<1>4. CountsTrue' /\ OncePerIssue'
  <2>1. \A n \in Messages : executed[n] \in Nat /\ executed'[n] \in Nat
    BY <1>e DEF EraTypeOK
  <2>2. \A n \in Messages : attempt[n] \in Nat
    BY DEF EraTypeOK
  <2>3. \A n \in Messages : n # m => pc'[n] = pc[n] /\ attempt'[n] = attempt[n]
    BY DEF EraTypeOK
  <2>4. executed'[m] <= attempt[m] + 1
    BY <1>e, <2>1, <2>2 DEF CountsTrue
  <2>5. OncePerIssue'
    BY <1>e, <2>1, <2>2, <2>3, <2>4 DEF EraTypeOK, OncePerIssue
  <2>6. CountsTrue'
    BY <1>e, <2>1, <2>2, <2>3, <2>4 DEF EraTypeOK, CountsTrue
  <2> QED
    BY <2>5, <2>6
<1>5. OneExchangeTells'
  <2>1. OneExchangeTells /\ pc'[m] = "done"
    BY DEF EraTypeOK
  <2>2. \A n \in Messages : n # m => pc'[n] = pc[n] /\ attempt'[n] = attempt[n]
    BY DEF EraTypeOK
  <2> QED
    BY <1>t, <1>e, <2>1, <2>2, TellsOwn
<1> QED
  BY <1>1, <1>2, <1>3, <1>4, <1>5

\* As LegacyAnswer, with nothing told yet.
LEMMA LegacyStreamEndsStep ==
  ASSUME RoutingInv, NEW m \in Messages, LegacyStreamEnds(m)
  PROVE  RoutingInv'
<1> USE DEF RoutingInv, LegacyStreamEnds, To, Resolved, Ensure, fixed
<1>e. /\ executed' \in [Messages -> Nat]
      /\ \A n \in Messages : n # m => executed'[n] = executed[n]
      /\ executed'[m] \in {executed[m], executed[m] + 1}
  BY Counting
<1>1. EraTypeOK'
  BY <1>e DEF EraTypeOK, Eras, Words
<1>2. VerdictsTrue'
  BY DEF EraTypeOK, VerdictsTrue, SeenTrue
<1>3. OneStreamBeforeLegacy' /\ FallsBackOnlyWhenUnknown' /\ SeenTrue'
  BY DEF EraTypeOK, Eras, OneStreamBeforeLegacy, FallsBackOnlyWhenUnknown, SeenTrue
<1>4. CountsTrue' /\ OncePerIssue'
  <2>1. \A n \in Messages : executed[n] \in Nat /\ executed'[n] \in Nat
    BY <1>e DEF EraTypeOK
  <2>2. \A n \in Messages : attempt[n] \in Nat
    BY DEF EraTypeOK
  <2>3. \A n \in Messages : n # m => pc'[n] = pc[n] /\ attempt'[n] = attempt[n]
    BY DEF EraTypeOK
  <2>4. executed'[m] <= attempt[m] + 1
    BY <1>e, <2>1, <2>2 DEF CountsTrue
  <2>5. OncePerIssue'
    BY <1>e, <2>1, <2>2, <2>3, <2>4 DEF EraTypeOK, OncePerIssue
  <2>6. CountsTrue'
    BY <1>e, <2>1, <2>2, <2>3, <2>4 DEF EraTypeOK, CountsTrue
  <2> QED
    BY <2>5, <2>6
<1>5. OneExchangeTells'
  <2>1. OneExchangeTells
    OBVIOUS
  <2>2. /\ answers' = answers /\ attempt' = attempt
        /\ \A n \in Messages : n # m => pc'[n] = pc[n]
    BY DEF EraTypeOK
  <2>3. m \in Requests => pc'[m] = "suspended" /\ answers'[m] = <<>>
    BY <2>2 DEF EraTypeOK, OneExchangeTells
  <2> QED
    BY <1>e, <2>1, <2>2, <2>3, TellsOwn
<1> QED
  BY <1>1, <1>2, <1>3, <1>4, <1>5

\* The answer the resumed stream brings is the first.
LEMMA ResumeStep ==
  ASSUME RoutingInv, NEW m \in Messages, Resume(m)
  PROVE  RoutingInv'
<1> USE DEF RoutingInv, Resume, To, Resolved, Ensure, fixed
<1>t. /\ answers' \in [Messages -> Seq(Words)]
      /\ \A n \in Messages : n # m => answers'[n] = answers[n]
      /\ m \in Requests => FinalsFirst(answers'[m]) /\ answers'[m] # <<>>
  <2>1. PICK told \in Carried : Tell(m, told)
    OBVIOUS
  <2>2. told \in Accepted
    BY DEF Accepted, LegacyOk
  <2>3. told # <<>>
    BY EraAssumption DEF Carried
  <2> QED
    BY <2>1, <2>2, <2>3, TellableAccepted, FirstTold
<1>1. EraTypeOK'
  BY <1>t DEF EraTypeOK, Eras
<1>2. VerdictsTrue'
  BY DEF EraTypeOK, VerdictsTrue, SeenTrue
<1>3. OneStreamBeforeLegacy' /\ FallsBackOnlyWhenUnknown' /\ SeenTrue'
  BY DEF EraTypeOK, Eras, OneStreamBeforeLegacy, FallsBackOnlyWhenUnknown, SeenTrue
<1>4. CountsTrue' /\ OncePerIssue'
  BY DEF EraTypeOK, CountsTrue, OncePerIssue
<1>5. OneExchangeTells'
  BY <1>t DEF EraTypeOK, OneExchangeTells, Messages
<1> QED
  BY <1>1, <1>2, <1>3, <1>4, <1>5

\* Who writes the cache, and with what: an expiry, or a task with the evidence.
LEMMA CacheStep ==
  ASSUME RoutingInv, NEW m \in Messages, Submit(m) \/ Step(m) \/ Resume(m)
  PROVE  /\ UNCHANGED fixed
         /\ \/ UNCHANGED cache
            \/ cache' = "modern" /\ (gateway \/ peer # "legacy")
            \/ cache' = "legacy" /\ (gateway \/ peer = "legacy")
<1>1. CASE Record(m)
  BY <1>1 DEF Record, RoutingInv, VerdictsTrue
<1>2. CASE FallBack(m)
  BY <1>2 DEF FallBack, RoutingInv, VerdictsTrue
<1>3. CASE Exchange(m)
  BY <1>3 DEF Exchange, Accept, StreamBreaks, Reject, RefuseBare, Fail, LegacyAnswer,
       LegacyFail, LegacyStreamEnds
<1>4. CASE \/ Submit(m) \/ Resume(m)
           \/ RouteLegacy(m) \/ RouteModern(m) \/ RejectReply(m)
  BY <1>4 DEF Submit, Resume, RouteLegacy, RouteModern, RejectReply
<1> QED
  BY <1>1, <1>2, <1>3, <1>4 DEF Step

\* Every step of a message, under whatever the cache may hold.
LEMMA MessageStep ==
  ASSUME RoutingInv, NEW m \in Messages, Submit(m) \/ Step(m) \/ Resume(m)
  PROVE  RoutingInv'
<1>1. CASE Submit(m) \/ Resume(m)
  BY <1>1, SubmitStep, ResumeStep
<1>2. CASE RouteLegacy(m) \/ RouteModern(m) \/ RejectReply(m)
  BY <1>2, RouteLegacyStep, RouteModernStep, RejectReplyStep
<1>3. CASE Record(m) \/ FallBack(m)
  BY <1>3, RecordStep, FallBackStep
<1>4. CASE Exchange(m)
  <2>1. CASE \E told \in Accepted : Accept(m, told)
    BY <2>1, AcceptStep
  <2>2. CASE \E reply \in {"rejection", "outdated"} : Reject(m, reply)
    BY <2>2, RejectStep
  <2>3. CASE \E told \in LegacyOk : LegacyAnswer(m, told)
    BY <2>3, LegacyAnswerStep
  <2>4. CASE StreamBreaks(m) \/ RefuseBare(m) \/ Fail(m)
    BY <2>4, StreamBreaksStep, RefuseBareStep, FailStep
  <2>5. CASE LegacyFail(m) \/ LegacyStreamEnds(m)
    BY <2>5, LegacyFailStep, LegacyStreamEndsStep
  <2> QED
    BY <1>4, <2>1, <2>2, <2>3, <2>4, <2>5 DEF Exchange
<1> QED
  BY <1>1, <1>2, <1>3, <1>4 DEF Step

\* Nothing of the invariant is about what happens to be cached.
LEMMA RoutingStutters ==
  ASSUME RoutingInv, UNCHANGED <<fixed, opened, pc, seen, attempt, answers, executed>>,
         cache' \in Eras
  PROVE  RoutingInv'
BY DEF RoutingInv, fixed, EraTypeOK, VerdictsTrue, SeenTrue, OneStreamBeforeLegacy,
     CountsTrue, OncePerIssue, FallsBackOnlyWhenUnknown, OneExchangeTells

\* Whatever is routed, answered, lost, re-issued or forgotten, in any order.
THEOREM EraConsistent == EraSpec => []EraInv
<1>1. ASSUME EraInv, EraNext
      PROVE  EraInv'
  <2>1. CASE Expire
    <3>1. RoutingInv'
      BY <1>1, <2>1, RoutingStutters DEF Expire, EraInv, Eras
    <3> QED
      BY <2>1, <3>1 DEF Expire, EraInv, EraIsTrue
  <2>2. ASSUME NEW m \in Messages, Submit(m) \/ Step(m) \/ Resume(m)
        PROVE  EraInv'
    BY <1>1, <2>2, MessageStep, CacheStep DEF EraInv, EraIsTrue, fixed
  <2> QED
    BY <1>1, <2>1, <2>2 DEF EraNext
<1>2. ASSUME EraInv, UNCHANGED eraVars
      PROVE  EraInv'
  <2>1. cache \in Eras
    BY <1>2 DEF EraInv, RoutingInv, EraTypeOK
  <2> QED
    BY <1>2, <2>1, RoutingStutters DEF eraVars, fixed, EraInv, EraIsTrue
<1> QED
  BY <1>1, <1>2, InitEraInv, PTL DEF EraSpec

\* The cache never holds an era the peer did not show, with nothing in between
\* (http_dual.rs:17-23, detect.rs:112-115).
THEOREM EraTrue == EraSpec => []EraIsTrue
<1>1. EraInv => EraIsTrue
  BY DEF EraInv, RoutingInv
<1> QED
  BY <1>1, EraConsistent, PTL

\* One GET stream is opened, before anything is sent to a legacy peer
\* (http_dual.rs:386-417).
THEOREM OneStream == EraSpec => []OneStreamBeforeLegacy
<1>1. EraInv => OneStreamBeforeLegacy
  BY DEF EraInv, RoutingInv
<1> QED
  BY <1>1, EraConsistent, PTL

\* A caller hears of one exchange, the last, and is told of every refusal, failure
\* and lost stream: without a word it is left only by a peer that took the last
\* issue of its request (http_modern.rs:334-387, 560-566, 606-637).
THEOREM OneExchange == EraSpec => []OneExchangeTells
<1>1. EraInv => OneExchangeTells
  BY DEF EraInv, RoutingInv
<1> QED
  BY <1>1, EraConsistent, PTL

\* A peer acts at most once per issue of a request (http_modern.rs:334-387).
THEOREM OneExecution == EraSpec => []OncePerIssue
<1>1. EraInv => OncePerIssue
  BY DEF EraInv, RoutingInv
<1> QED
  BY <1>1, EraConsistent, PTL

\* Only a message whose peer was unknown is sent under both eras
\* (http_dual.rs:341-343).
THEOREM FallbackIsForUnknown == EraSpec => []FallsBackOnlyWhenUnknown
<1>1. EraInv => FallsBackOnlyWhenUnknown
  BY DEF EraInv, RoutingInv
<1> QED
  BY <1>1, EraConsistent, PTL

\* With no gateway, what is sent again had not been acted on
\* (http_dual.rs:25-27).
THEOREM FallbackIsSafe == EraSpec => []FallbackNeverRepeats
<1>1. EraInv => FallbackNeverRepeats
  BY DEF EraInv, RoutingInv, VerdictsTrue, CountsTrue, FallbackNeverRepeats
<1> QED
  BY <1>1, EraConsistent, PTL

-----------------------------------------------------------------------------
(* Connecting. *)

\* What a step of a message adds to what was told, it adds to its own caller, who
\* had not been told before.
LEMMA WhoIsTold ==
  ASSUME RoutingInv, NEW m \in Messages, Submit(m) \/ Step(m) \/ Resume(m)
  PROVE  \/ UNCHANGED answers
         \/ pc[m] \notin {"proved", "done"} /\ \E words : Tell(m, words)
<1>1. CASE Exchange(m)
  BY <1>1 DEF Exchange, Accept, StreamBreaks, Reject, RefuseBare, Fail, LegacyAnswer,
       LegacyFail, LegacyStreamEnds
<1>2. CASE \/ Submit(m) \/ Resume(m) \/ Record(m) \/ FallBack(m)
           \/ RouteLegacy(m) \/ RouteModern(m) \/ RejectReply(m)
  BY <1>2 DEF Submit, Resume, Record, FallBack, RouteLegacy, RouteModern, RejectReply
<1> QED
  BY <1>1, <1>2 DEF Step

\* So nothing that was told is told otherwise later.
LEMMA ToldStays ==
  ASSUME RoutingInv, NEW m \in Messages, Submit(m) \/ Step(m) \/ Resume(m),
         NEW n \in Requests, answers[n] # <<>>
  PROVE  answers'[n] = answers[n]
<1>1. pc[n] \in {"proved", "done"}
  BY DEF RoutingInv, OneExchangeTells
<1>2. CASE UNCHANGED answers
  BY <1>2
<1>3. CASE pc[m] \notin {"proved", "done"} /\ \E words : Tell(m, words)
  BY <1>1, <1>3 DEF Tell, RoutingInv, EraTypeOK
<1> QED
  BY <1>2, <1>3, WhoIsTold

\* With nothing in between, a legacy peer welcomes on the legacy path, the only one
\* that reads the session id (http_dual.rs:216).
LEMMA WelcomedOnLegacyPath ==
  ASSUME RoutingInv, NEW m \in Messages, Step(m) \/ Resume(m),
         peer = "legacy", ~Welcomed, Welcomed'
  PROVE  pc[Initialize] \in {"legacy", "suspended"}
<1>1. Initialize \in Requests /\ Initialize \in Messages
  BY HandshakeAssumption DEF Messages
<1>2. EraTypeOK /\ OneExchangeTells
  BY DEF RoutingInv
<1>3. m = Initialize
  <2>1. SUFFICES ASSUME m # Initialize PROVE answers'[Initialize] = answers[Initialize]
    BY DEF Welcomed, Heard
  <2>2. CASE UNCHANGED answers
    BY <2>2
  <2>3. CASE \E words : Tell(m, words)
    BY <1>1, <1>2, <2>1, <2>3 DEF Tell, EraTypeOK
  <2> QED
    BY <2>2, <2>3, WhoIsTold
<1>4. ~UNCHANGED answers
  BY DEF Welcomed, Heard
<1>5. ASSUME Tell(m, <<"local">>), pc[m] \notin {"proved", "done"}
      PROVE  FALSE
  <2>1. answers'[m] = <<"local">>
    BY <1>1, <1>2, <1>3, <1>5, FirstWord DEF Words
  <2> QED
    BY <1>3, <2>1 DEF Welcomed, Heard
<1>6. CASE Exchange(m)
  <2>1. \/ RefuseBare(m) \/ Fail(m) \/ LegacyFail(m) \/ LegacyStreamEnds(m)
        \/ \E told \in LegacyOk : LegacyAnswer(m, told)
    BY <1>6 DEF Exchange, Accept, StreamBreaks, Reject
  <2> QED
    BY <1>3, <1>4, <1>5, <2>1 DEF RefuseBare, Fail, LegacyFail, LegacyStreamEnds, LegacyAnswer
<1>7. CASE Resume(m)
  BY <1>3, <1>7 DEF Resume
<1>8. CASE RouteLegacy(m) \/ RouteModern(m) \/ RejectReply(m) \/ Record(m) \/ FallBack(m)
  BY <1>4, <1>5, <1>8 DEF RouteLegacy, RouteModern, RejectReply, Record, FallBack
<1> QED
  BY <1>6, <1>7, <1>8 DEF Step

\* A step of the transport, alone or with a message written to it, leaves the stage
\* or takes it to one that claims nothing of the cache.
LEMMA UnderConnect ==
  ASSUME SettleInv, NEW m \in Messages, Submit(m) \/ Step(m) \/ Resume(m),
         stage = "legacy" => stage' = "legacy"
  PROVE  RoutingInv' /\ CacheTrue' /\ UNCHANGED fixed
<1>1. RoutingInv' /\ UNCHANGED fixed
  BY MessageStep, CacheStep DEF SettleInv
<1>2. CacheTrue'
  BY <1>1, CacheStep DEF SettleInv, CacheTrue, fixed
<1> QED
  BY <1>1, <1>2

\* Before connect() nothing is settled.
LEMMA InitSettleInv == SettleInit => SettleInv
<1> SUFFICES ASSUME SettleInit PROVE SettleInv
  OBVIOUS
<1>1. EraInv /\ EraTypeOK
  BY InitEraInv DEF SettleInit, EraInv, RoutingInv
<1>2. SettleTypeOK /\ CacheTrue
  BY <1>1 DEF SettleInit, EraInit, SettleTypeOK, CacheTrue
<1>3. answers[Discover] = <<>>
  BY HandshakeAssumption DEF SettleInit, EraInit, Messages
<1>4. StageTrue
  BY <1>3 DEF SettleInit, EraInit, StageTrue, Honest, Heard
<1> QED
  BY <1>1, <1>2, <1>4 DEF SettleInv, EraInv

\* A message written to the transport, by the handshake or after it.
LEMMA SubmitKeeps ==
  ASSUME SettleInv, NEW m \in Messages, Submit(m), UNCHANGED <<session, minted>>,
         stage' \in {stage, "discovering", "initializing", "confirmed"},
         stage' = stage \/ stage \notin {"modern", "legacy"}
  PROVE  SettleInv'
<1>1. RoutingInv' /\ CacheTrue' /\ UNCHANGED fixed
  BY UnderConnect
<1>2. UNCHANGED <<opened, answers>>
  BY DEF Submit
<1>3. SettleTypeOK'
  BY <1>1 DEF SettleInv, SettleTypeOK, RoutingInv
<1>4. StageTrue'
  BY <1>1, <1>2 DEF SettleInv, StageTrue, Honest, Heard, fixed
<1> QED
  BY <1>1, <1>3, <1>4 DEF SettleInv

\* connect() goes on, or gives up, on what it heard.
LEMMA StageKeeps ==
  ASSUME SettleInv, Discovered \/ GiveUp
  PROVE  SettleInv'
<1>1. UNCHANGED eraVars /\ UNCHANGED <<session, minted>>
  BY DEF Discovered, GiveUp
<1>2. /\ stage' \in {"discovered", "failed"} /\ stage # "legacy"
      /\ stage' = "discovered" => Heard(Discover, {"result"})
  BY DEF Discovered, GiveUp, At
<1>3. RoutingInv'
  <2>1. cache' \in Eras
    BY <1>1 DEF eraVars, SettleInv, RoutingInv, EraTypeOK
  <2> QED
    BY <1>1, <2>1, RoutingStutters DEF eraVars, SettleInv
<1>4. SettleTypeOK'
  BY <1>1, <1>2, <1>3 DEF SettleInv, SettleTypeOK, RoutingInv
<1>5. CacheTrue' /\ StageTrue'
  BY <1>1, <1>2 DEF eraVars, fixed, SettleInv, CacheTrue, StageTrue, Honest, Heard
<1> QED
  BY <1>3, <1>4, <1>5 DEF SettleInv

\* set_era: the third to open the GET stream, and the second to write the cache.
LEMMA AdoptKeeps ==
  ASSUME SettleInv, Adopt("modern", "discovered") \/ Adopt("legacy", "confirmed")
  PROVE  SettleInv'
<1>1. /\ UNCHANGED <<fixed, pc, seen, attempt, answers, executed, session, minted>>
      /\ \/ stage = "discovered" /\ stage' = "modern" /\ cache' = "modern" /\ opened' = opened
         \/ stage = "confirmed" /\ stage' = "legacy" /\ cache' = "legacy" /\ Ensure
  BY DEF Adopt, At
<1>2. opened' \in Nat /\ opened' <= 1 /\ (opened = 1 => opened' = 1)
      /\ (stage' = "legacy" => opened' = 1)
  BY <1>1 DEF SettleInv, RoutingInv, EraTypeOK, OneStreamBeforeLegacy, Ensure
<1>3. RoutingInv'
  <2>1. EraTypeOK' /\ OneStreamBeforeLegacy'
    BY <1>1, <1>2 DEF SettleInv, RoutingInv, EraTypeOK, OneStreamBeforeLegacy, Eras, fixed
  <2>2. VerdictsTrue' /\ SeenTrue' /\ CountsTrue'
    BY <1>1 DEF SettleInv, RoutingInv, VerdictsTrue, SeenTrue, CountsTrue, fixed
  <2>3. OncePerIssue' /\ FallsBackOnlyWhenUnknown' /\ OneExchangeTells'
    BY <1>1 DEF SettleInv, RoutingInv, OncePerIssue, FallsBackOnlyWhenUnknown, OneExchangeTells, fixed
  <2> QED
    BY <2>1, <2>2, <2>3 DEF RoutingInv
<1>4. SettleTypeOK'
  BY <1>1, <1>3 DEF SettleInv, SettleTypeOK, RoutingInv
<1>5. CacheTrue'
  BY <1>1 DEF SettleInv, CacheTrue, StageTrue, Honest, fixed
<1>6. StageTrue'
  BY <1>1, <1>2 DEF SettleInv, StageTrue, Honest, Heard, fixed
<1> QED
  BY <1>3, <1>4, <1>5, <1>6 DEF SettleInv

\* The tasks under connect() may record late, fail, or forget by expiry.
LEMMA TransportKeeps ==
  ASSUME SettleInv, Transport
  PROVE  SettleInv'
<1>1. Honest' /\ Minting /\ UNCHANGED stage
  BY DEF Transport
<1>2. /\ RoutingInv' /\ CacheTrue' /\ UNCHANGED fixed
      /\ opened = 1 => opened' = 1
      /\ answers[Discover] # <<>> => answers'[Discover] = answers[Discover]
      /\ peer = "legacy" /\ ~Welcomed /\ Welcomed' => pc[Initialize] \in {"legacy", "suspended"}
  <2>1. CASE Expire
    <3>1. UNCHANGED <<fixed, opened, pc, seen, attempt, answers, executed>> /\ cache' = "none"
      BY <2>1 DEF Expire
    <3>2. RoutingInv'
      BY <3>1, RoutingStutters DEF SettleInv, Eras
    <3> QED
      BY <1>1, <3>1, <3>2 DEF CacheTrue, fixed, Welcomed, Heard
  <2>2. ASSUME NEW m \in Messages, Step(m) \/ Resume(m)
        PROVE  /\ RoutingInv' /\ CacheTrue' /\ UNCHANGED fixed
               /\ opened = 1 => opened' = 1
               /\ answers[Discover] # <<>> => answers'[Discover] = answers[Discover]
               /\ peer = "legacy" /\ ~Welcomed /\ Welcomed' => pc[Initialize] \in {"legacy", "suspended"}
    <3>1. RoutingInv' /\ CacheTrue' /\ UNCHANGED fixed
      BY <1>1, <2>2, UnderConnect
    <3>2. opened = 1 => opened' = 1
      BY <2>2 DEF Step, Resume, Exchange, Accept, StreamBreaks, Reject, RefuseBare, Fail,
           LegacyAnswer, LegacyFail, LegacyStreamEnds, RouteLegacy, RouteModern, RejectReply,
           Record, FallBack, SendLegacy, Ensure
    <3>3. answers[Discover] # <<>> => answers'[Discover] = answers[Discover]
      BY <2>2, ToldStays, HandshakeAssumption DEF SettleInv
    <3>4. peer = "legacy" /\ ~Welcomed /\ Welcomed' => pc[Initialize] \in {"legacy", "suspended"}
      BY <2>2, WelcomedOnLegacyPath DEF SettleInv
    <3> QED
      BY <3>1, <3>2, <3>3, <3>4
  <2> QED
    BY <2>1, <2>2 DEF Transport
<1>3. SettleTypeOK'
  BY <1>1, <1>2 DEF Minting, SettleInv, SettleTypeOK, RoutingInv
<1>4. ~gateway' /\ peer' = "legacy" /\ minted' => session'
  <2>1. CASE ~Welcomed /\ Welcomed' /\ peer # "modern"
    BY <1>1, <1>2, <2>1 DEF Minting, fixed
  <2>2. CASE ~(~Welcomed /\ Welcomed' /\ peer # "modern")
    BY <1>1, <1>2, <2>2 DEF Minting, SettleInv, StageTrue, fixed
  <2> QED
    BY <2>1, <2>2
<1>5. StageTrue'
  BY <1>1, <1>2, <1>4 DEF SettleInv, StageTrue, Heard
<1> QED
  BY <1>2, <1>3, <1>5 DEF SettleInv

\* What connect() settled and what the transport under it holds, in every order of
\* late records, expiries and set_era.
THEOREM SettlingConsistent == SettleSpec => []SettleInv
<1>1. ASSUME SettleInv, SettleNext
      PROVE  SettleInv'
  <2>1. Discover \in Messages /\ Initialize \in Messages /\ Initialized \in Messages
    BY HandshakeAssumption DEF Messages
  <2>2. CASE Probe \/ HandshakeLegacy \/ Confirm
    BY <1>1, <2>1, <2>2, SubmitKeeps DEF Probe, HandshakeLegacy, Confirm, At
  <2>3. CASE Traffic
    BY <1>1, <2>3, SubmitKeeps DEF Traffic
  <2>4. CASE Discovered \/ GiveUp
    BY <1>1, <2>4, StageKeeps
  <2>5. CASE Adopt("modern", "discovered") \/ Adopt("legacy", "confirmed")
    BY <1>1, <2>5, AdoptKeeps
  <2>6. CASE Transport
    BY <1>1, <2>6, TransportKeeps
  <2> QED
    BY <1>1, <2>2, <2>3, <2>4, <2>5, <2>6 DEF SettleNext
<1>2. ASSUME SettleInv, UNCHANGED settleVars
      PROVE  SettleInv'
  <2>1. UNCHANGED <<eraVars, stage, session, minted>>
    BY <1>2 DEF settleVars
  <2>2. cache' \in Eras
    BY <1>2, <2>1 DEF eraVars, SettleInv, RoutingInv, EraTypeOK
  <2>3. RoutingInv'
    BY <1>2, <2>1, <2>2, RoutingStutters DEF eraVars, SettleInv
  <2>4. SettleTypeOK' /\ CacheTrue' /\ StageTrue'
    BY <1>2, <2>1, <2>3 DEF eraVars, fixed, SettleInv, SettleTypeOK, RoutingInv, CacheTrue,
         StageTrue, Honest, Heard
  <2> QED
    BY <2>3, <2>4 DEF SettleInv
<1> QED
  BY <1>1, <1>2, InitSettleInv, PTL DEF SettleSpec

\* Client and transport agree about a peer of one era, whatever is recorded after
\* the handshake (http_dual.rs:285-306, builder.rs:270-280).
THEOREM EraIsAgreed == SettleSpec => []SettledAgrees
<1>1. SettleInv => SettledAgrees
  BY DEF SettleInv, CacheTrue, StageTrue, Honest, SettledAgrees
<1> QED
  BY <1>1, SettlingConsistent, PTL

\* With set_era a third to ask for the GET stream, it is still one, and there before
\* anything is sent to a legacy peer (http_dual.rs:299-307, 386-417).
THEOREM OneStreamForAll == SettleSpec => []OneStreamBeforeLegacy
<1>1. SettleInv => OneStreamBeforeLegacy
  BY DEF SettleInv, RoutingInv
<1> QED
  BY <1>1, SettlingConsistent, PTL

=============================================================================
