---------------------------- MODULE Listeners_proofs ----------------------------
(***************************************************************************)
(* Proofs about Listeners, for any number of subscriptions, any topics and *)
(* any number of changes.                                                  *)
(***************************************************************************)
EXTENDS Listeners, TLAPS

USE TopicsAssumption

Said == Topics \cup {"ack", "result"}

\* What putting a message on some streams does to each of them.
Grown(S, message) ==
  \A s \in Subs :
    /\ s \notin S \ gone => stream'[s] = stream[s]
    /\ s \in S \ gone =>
         /\ Len(stream'[s]) = Len(stream[s]) + 1
         /\ stream'[s][Len(stream[s]) + 1] = message
         /\ \A i \in 1 .. Len(stream[s]) : stream'[s][i] = stream[s][i]

\* Those still read grow by the message, the others stay.
LEMMA Sending ==
  ASSUME LTypeOK, NEW S \in SUBSET Subs, NEW message \in Said, stream' = Sent(S, message)
  PROVE  stream' \in [Subs -> Seq(Said)] /\ Grown(S, message)
<1>1. \A s \in Subs : stream[s] \in Seq(Said)
  BY DEF LTypeOK, Said
<1>2. \A s \in Subs : stream'[s] =
        IF s \in S \ gone THEN Append(stream[s], message) ELSE stream[s]
  BY DEF Sent
<1>3. ASSUME NEW s \in Subs
      PROVE  Append(stream[s], message) \in Seq(Said)
  <2>1. stream[s] \in Seq(Said)
    BY <1>1
  <2> QED
    BY <2>1
<1>4. stream' \in [Subs -> Seq(Said)]
  BY <1>1, <1>3 DEF Sent
<1>5. ASSUME NEW s \in Subs, s \in S \ gone
      PROVE  /\ Len(stream'[s]) = Len(stream[s]) + 1
             /\ stream'[s][Len(stream[s]) + 1] = message
             /\ \A i \in 1 .. Len(stream[s]) : stream'[s][i] = stream[s][i]
  <2>1. stream[s] \in Seq(Said) /\ stream'[s] = Append(stream[s], message)
    BY <1>1, <1>2, <1>5
  <2> QED
    BY <2>1
<1> QED
  BY <1>2, <1>4, <1>5 DEF Grown

\* Only the ends of the streams that are not over can say anything.
LEMMA InitFrameInv == LInit => FrameInv
<1> SUFFICES ASSUME LInit PROVE FrameInv
  OBVIOUS
<1> USE DEF LInit
<1>1. LTypeOK
  BY DEF LTypeOK
<1>2. \A s \in Subs : stream[s] = <<>> /\ stage[s] = "new" /\ s \notin open
  OBVIOUS
<1>3. StagesTrue /\ AcknowledgedFirstClosedLast /\ EndsWithAResult
  BY <1>2 DEF StagesTrue, AcknowledgedFirstClosedLast, EndsWithAResult, Over
<1> QED
  BY <1>1, <1>3 DEF FrameInv

\* An acknowledgement goes on a stream that said nothing yet.
LEMMA AcknowledgeStep ==
  ASSUME FrameInv, NEW s \in Subs, Acknowledge(s)
  PROVE  FrameInv'
<1>1. /\ stage[s] = "new" /\ LTypeOK /\ StagesTrue /\ AcknowledgedFirstClosedLast
      /\ EndsWithAResult /\ stream' = Sent({s}, "ack")
      /\ UNCHANGED <<filter, open, gone, changes, since, until>>
  BY DEF FrameInv, Acknowledge
<1>2. /\ stage'[s] = IF s \in gone THEN "returned" ELSE "acknowledged"
      /\ \A r \in Subs : r # s => stage'[r] = stage[r]
  BY <1>1 DEF LTypeOK, Acknowledge
<1>3. stream[s] = <<>> /\ Len(stream[s]) = 0 /\ s \notin open
  BY <1>1 DEF StagesTrue
<1>4. {s} \in SUBSET Subs /\ "ack" \in Said
  BY DEF Said
<1>5. /\ stream' \in [Subs -> Seq(Said)]
      /\ s \notin gone => /\ Len(stream'[s]) = Len(stream[s]) + 1
                          /\ stream'[s][Len(stream[s]) + 1] = "ack"
      /\ \A r \in Subs : r # s \/ s \in gone => stream'[r] = stream[r]
  <2>1. stream' \in [Subs -> Seq(Said)] /\ Grown({s}, "ack")
    BY <1>1, <1>4, Sending
  <2> QED
    BY <2>1 DEF Grown
<1>6. s \notin gone => Len(stream'[s]) = 1 /\ stream'[s][1] = "ack" /\ stream'[s] # <<>>
  <2>1. ASSUME s \notin gone
        PROVE  Len(stream'[s]) = 0 + 1 /\ stream'[s][0 + 1] = "ack"
    BY <1>3, <1>5, <2>1
  <2> QED
    BY <1>3, <2>1
<1>7. LTypeOK'
  <2>1. Len(changes) \in Int
    BY <1>1 DEF LTypeOK
  <2>2. stage' \in [Subs -> {"new", "acknowledged", "returned"}]
    BY <1>1, <2>1 DEF LTypeOK, Acknowledge
  <2> QED
    BY <1>1, <1>5, <2>2 DEF LTypeOK, Said
<1>8. ASSUME NEW r \in Subs
      PROVE  /\ stage'[r] = "new" => stream'[r] = <<>> /\ r \notin open
             /\ stage'[r] = "acknowledged" =>
                  r \notin open /\ Len(stream'[r]) = 1 /\ stream'[r][1] = "ack"
             /\ r \in open => /\ stage'[r] = "returned"
                              /\ Len(stream'[r]) > 0
                              /\ \A i \in 1 .. Len(stream'[r]) : stream'[r][i] # "result"
  <2>1. CASE r = s
    BY <1>2, <1>3, <1>6, <2>1
  <2>2. CASE r # s
    <3>1. stage'[r] = stage[r] /\ stream'[r] = stream[r]
      BY <1>2, <1>5, <2>2
    <3> QED
      BY <1>1, <3>1 DEF StagesTrue
  <2> QED
    BY <2>1, <2>2
<1>9. ASSUME NEW r \in Subs, NEW i \in 1 .. Len(stream'[r])
      PROVE  /\ stream'[r][i] = "ack" <=> i = 1
             /\ stream'[r][i] = "result" => i = Len(stream'[r])
  <2>1. CASE r = s /\ s \notin gone
    BY <1>6, <1>9, <2>1
  <2>2. CASE r # s \/ s \in gone
    <3>1. stream'[r] = stream[r]
      BY <1>5, <2>2
    <3> QED
      BY <1>1, <1>9, <3>1 DEF AcknowledgedFirstClosedLast
  <2> QED
    BY <2>1, <2>2
<1>10. EndsWithAResult'
  <2> SUFFICES ASSUME NEW r \in Subs, stage'[r] = "returned", r \notin open, r \notin gone
               PROVE  stream'[r] # <<>> /\ stream'[r][Len(stream'[r])] = "result"
    BY <1>1 DEF EndsWithAResult, Over
  <2>1. r # s
    BY <1>2
  <2> QED
    BY <1>1, <1>2, <1>5, <2>1 DEF EndsWithAResult, Over
<1> QED
  BY <1>1, <1>7, <1>8, <1>9, <1>10 DEF FrameInv, StagesTrue, AcknowledgedFirstClosedLast

\* A listener enters the registry with its acknowledgement said.
LEMMA EnterStep ==
  ASSUME FrameInv, NEW s \in Subs, Enter(s)
  PROVE  FrameInv'
<1> USE DEF FrameInv, Enter
<1>1. /\ stage'[s] = "returned"
      /\ \A r \in Subs : r # s => stage'[r] = stage[r]
      /\ s \in open' /\ \A r \in Subs : r # s => (r \in open' <=> r \in open)
  BY DEF LTypeOK
<1>2. LTypeOK'
  <2>1. Len(changes) \in Int
    BY DEF LTypeOK
  <2> QED
    BY <2>1 DEF LTypeOK
<1>3. Len(stream[s]) = 1 /\ stream[s][1] = "ack"
  BY DEF StagesTrue
<1>4. StagesTrue'
  BY <1>1, <1>3 DEF StagesTrue
<1>5. AcknowledgedFirstClosedLast' /\ EndsWithAResult'
  BY <1>1 DEF AcknowledgedFirstClosedLast, EndsWithAResult, Over
<1> QED
  BY <1>2, <1>4, <1>5

\* A change is put on open streams only, and takes from the registry only
\* listeners whose client is gone.
LEMMA ChangeStep ==
  ASSUME FrameInv, NEW t \in Topics, Change(t)
  PROVE  FrameInv'
<1> USE DEF FrameInv
<1> DEFINE S == {s \in open : Wants(s, t)}
<1>1. S \in SUBSET Subs /\ S \subseteq open
  BY DEF LTypeOK
<1>2. /\ stream' = Sent(S, t) /\ open' = open \ (S \cap gone)
      /\ changes' = Append(changes, t)
      /\ UNCHANGED <<stage, filter, gone, since, until>>
  BY DEF Change
<1> HIDE DEF S
<1>3. /\ stream' \in [Subs -> Seq(Said)]
      /\ \A s \in Subs : s \in S \ gone =>
           /\ Len(stream'[s]) = Len(stream[s]) + 1
           /\ stream'[s][Len(stream[s]) + 1] = t
           /\ \A i \in 1 .. Len(stream[s]) : stream'[s][i] = stream[s][i]
      /\ \A s \in Subs : s \notin S \ gone => stream'[s] = stream[s]
  <2>1. t \in Said
    BY DEF Said
  <2> QED
    <3>1. stream' \in [Subs -> Seq(Said)] /\ Grown(S, t)
      BY <1>1, <1>2, <2>1, Sending
    <3> QED
      BY <3>1 DEF Grown
<1>4. LTypeOK'
  BY <1>2, <1>3 DEF LTypeOK, Said
<1>5. t # "ack" /\ t # "result"
  OBVIOUS
<1>6. \A s \in Subs : Len(stream[s]) \in Nat
  BY DEF LTypeOK
<1>7. ASSUME NEW s \in Subs
      PROVE  /\ stage'[s] = "new" => stream'[s] = <<>> /\ s \notin open'
             /\ stage'[s] = "acknowledged" =>
                  s \notin open' /\ Len(stream'[s]) = 1 /\ stream'[s][1] = "ack"
             /\ s \in open' => /\ stage'[s] = "returned"
                               /\ Len(stream'[s]) > 0
                               /\ \A i \in 1 .. Len(stream'[s]) : stream'[s][i] # "result"
  <2>1. CASE s \in S \ gone
    <3>1. /\ s \in open /\ stage'[s] = "returned" /\ Len(stream[s]) > 0
          /\ \A i \in 1 .. Len(stream[s]) : stream[s][i] # "result"
      BY <1>1, <1>2, <2>1 DEF StagesTrue
    <3>2. \A i \in 1 .. Len(stream'[s]) : i \in 1 .. Len(stream[s]) \/ i = Len(stream[s]) + 1
      BY <1>3, <1>6, <2>1
    <3> QED
      BY <1>3, <1>5, <1>6, <2>1, <3>1, <3>2
  <2>2. CASE s \notin S \ gone
    BY <1>1, <1>2, <1>3, <2>2 DEF StagesTrue
  <2> QED
    BY <2>1, <2>2
<1>8. ASSUME NEW s \in Subs, NEW i \in 1 .. Len(stream'[s])
      PROVE  /\ stream'[s][i] = "ack" <=> i = 1
             /\ stream'[s][i] = "result" => i = Len(stream'[s])
  <2>1. CASE s \in S \ gone
    <3>1. Len(stream[s]) > 0 /\ \A j \in 1 .. Len(stream[s]) : stream[s][j] # "result"
      BY <1>1, <2>1 DEF StagesTrue
    <3> QED
      BY <1>3, <1>5, <1>6, <1>8, <2>1, <3>1 DEF AcknowledgedFirstClosedLast
  <2>2. CASE s \notin S \ gone
    BY <1>3, <1>8, <2>2 DEF AcknowledgedFirstClosedLast
  <2> QED
    BY <2>1, <2>2
<1>9. EndsWithAResult'
  BY <1>1, <1>2, <1>3 DEF EndsWithAResult, Over
<1> QED
  BY <1>4, <1>7, <1>8, <1>9 DEF StagesTrue, AcknowledgedFirstClosedLast

\* Closing says the last word on every open stream and leaves none open.
LEMMA CloseStep ==
  ASSUME FrameInv, CloseAll
  PROVE  FrameInv'
<1> USE DEF FrameInv, CloseAll
<1>1. open \in SUBSET Subs
  BY DEF LTypeOK
<1>2. /\ stream' \in [Subs -> Seq(Said)]
      /\ \A s \in Subs : s \in open \ gone =>
           /\ Len(stream'[s]) = Len(stream[s]) + 1
           /\ stream'[s][Len(stream[s]) + 1] = "result"
           /\ \A i \in 1 .. Len(stream[s]) : stream'[s][i] = stream[s][i]
      /\ \A s \in Subs : s \notin open \ gone => stream'[s] = stream[s]
  <2>1. "result" \in Said
    BY DEF Said
  <2> QED
    <3>1. stream' \in [Subs -> Seq(Said)] /\ Grown(open, "result")
      BY <1>1, <2>1, Sending
    <3> QED
      BY <3>1 DEF Grown
<1>3. LTypeOK'
  <2>1. until' \in [Subs -> Int]
    BY DEF LTypeOK, Ended
  <2> QED
    BY <1>2, <2>1 DEF LTypeOK, Said
<1>4. \A s \in Subs : Len(stream[s]) \in Nat
  BY DEF LTypeOK
<1>5. StagesTrue'
  BY <1>2 DEF StagesTrue
<1>6. ASSUME NEW s \in Subs, NEW i \in 1 .. Len(stream'[s])
      PROVE  /\ stream'[s][i] = "ack" <=> i = 1
             /\ stream'[s][i] = "result" => i = Len(stream'[s])
  <2>1. CASE s \in open \ gone
    <3>1. Len(stream[s]) > 0 /\ \A j \in 1 .. Len(stream[s]) : stream[s][j] # "result"
      BY <2>1 DEF StagesTrue
    <3> QED
      BY <1>2, <1>4, <1>6, <2>1, <3>1 DEF AcknowledgedFirstClosedLast
  <2>2. CASE s \notin open \ gone
    BY <1>2, <1>6, <2>2 DEF AcknowledgedFirstClosedLast
  <2> QED
    BY <2>1, <2>2
<1>7. ASSUME NEW s \in Subs, stage[s] = "returned", s \notin gone
      PROVE  stream'[s] # <<>> /\ stream'[s][Len(stream'[s])] = "result"
  <2>1. CASE s \in open
    BY <1>2, <1>4, <1>7, <2>1
  <2>2. CASE s \notin open
    BY <1>2, <1>7, <2>2 DEF EndsWithAResult, Over
  <2> QED
    BY <2>1, <2>2
<1>8. EndsWithAResult'
  BY <1>7 DEF EndsWithAResult, Over
<1> QED
  BY <1>3, <1>5, <1>6, <1>8 DEF AcknowledgedFirstClosedLast

\* Nothing is promised to a client that stopped reading.
LEMMA LeaveStep ==
  ASSUME FrameInv, NEW s \in Subs, Leave(s)
  PROVE  FrameInv'
<1> USE DEF FrameInv, Leave
<1>1. LTypeOK'
  BY DEF LTypeOK, Ended
<1>2. StagesTrue' /\ AcknowledgedFirstClosedLast' /\ EndsWithAResult'
  BY DEF StagesTrue, AcknowledgedFirstClosedLast, EndsWithAResult, Over
<1> QED
  BY <1>1, <1>2

-----------------------------------------------------------------------------
(* What each subscription is told. *)

\* An account of the notifications is still one when neither they nor what is
\* owed have changed.
LEMMA SameAccount ==
  ASSUME NEW s \in Subs, NEW at \in [Told(s) -> Owed(s)], Accounts(at, s),
         Told(s)' = Told(s), Owed(s)' = Owed(s),
         \A j \in Told(s) : stream'[s][j] = stream[s][j],
         \A i \in Owed(s) : changes'[i] = changes[i]
  PROVE  (\E f \in [Told(s) -> Owed(s)] : Accounts(f, s))'
<1>1. Accounts(at, s)'
  BY DEF Accounts
<1> QED
  BY <1>1

\* One that is told the change it is owed next has it accounted for behind the
\* others.
LEMMA LongerAccount ==
  ASSUME NEW s \in Subs, NEW at \in [Told(s) -> Owed(s)], Accounts(at, s),
         NEW n \in Int, NEW m \in Int,
         Told(s)' = Told(s) \cup {n}, Owed(s)' = Owed(s) \cup {m},
         Told(s) \subseteq Int, Owed(s) \subseteq Int,
         \A j \in Told(s) : j < n, \A i \in Owed(s) : i < m,
         \A j \in Told(s) : stream'[s][j] = stream[s][j],
         \A i \in Owed(s) : changes'[i] = changes[i],
         stream'[s][n] = changes'[m]
  PROVE  (\E f \in [Told(s) -> Owed(s)] : Accounts(f, s))'
<1>1. \E f \in [Told(s)' -> Owed(s)'] :
        f[n] = m /\ \A j \in Told(s) : f[j] = at[j] /\ at[j] \in Owed(s)
  <2> DEFINE g == [j \in Told(s) \cup {n} |-> IF j = n THEN m ELSE at[j]]
  <2>1. g \in [Told(s)' -> Owed(s)'] /\ n \notin Told(s)
    OBVIOUS
  <2>2. g[n] = m /\ \A j \in Told(s) : g[j] = at[j] /\ at[j] \in Owed(s)
    BY <2>1
  <2> QED
    BY <2>1, <2>2
<1>2. PICK f \in [Told(s)' -> Owed(s)'] :
        f[n] = m /\ \A j \in Told(s) : f[j] = at[j] /\ at[j] \in Owed(s)
  BY <1>1
<1>3. \A j \in Told(s)' : stream'[s][j] = changes'[f[j]]
  BY <1>2 DEF Accounts
<1>4. \A j, k \in Told(s)' : j < k => f[j] < f[k]
  BY <1>2 DEF Accounts
<1>5. \A i \in Owed(s)' : \E j \in Told(s)' : f[j] = i
  BY <1>2 DEF Accounts
<1>6. Accounts(f, s)'
  BY <1>3, <1>4, <1>5 DEF Accounts
<1> QED
  BY <1>2, <1>6

\* Places on streams and among the changes are numbers.
LEMMA Places ==
  ASSUME LTypeOK, RegistryTrue, NEW s \in Subs
  PROVE  /\ stream[s] \in Seq(Said) /\ Len(stream[s]) \in Nat
         /\ changes \in Seq(Topics) /\ Len(changes) \in Nat
         /\ Last(s) \in -1 .. Len(changes)
         /\ Told(s) \subseteq 1 .. Len(stream[s]) /\ Owed(s) \subseteq 1 .. Len(changes)
<1>1. /\ stream[s] \in Seq(Said) /\ Len(stream[s]) \in Nat
      /\ changes \in Seq(Topics) /\ Len(changes) \in Nat
  BY DEF LTypeOK, Said
<1>2. Last(s) \in -1 .. Len(changes)
  BY <1>1 DEF Last, RegistryTrue
<1> QED
  BY <1>1, <1>2 DEF Told, Owed, RegistryTrue

\* A step that announces nothing, and puts at most a word of the protocol on a
\* stream, leaves what everyone was told and is owed.
LEMMA NoNews ==
  ASSUME LInv, LTypeOK', UNCHANGED <<filter, changes, since>>,
         \A s \in Subs :
           /\ until'[s] = until[s] \/ (until[s] = -1 /\ until'[s] = Len(changes))
           /\ \/ stream'[s] = stream[s]
              \/ /\ Len(stream'[s]) = Len(stream[s]) + 1
                 /\ stream'[s][Len(stream[s]) + 1] \in {"ack", "result"}
                 /\ \A i \in 1 .. Len(stream[s]) : stream'[s][i] = stream[s][i]
  PROVE  HearsExactlyWhatItAskedFor'
<1> SUFFICES ASSUME NEW s \in Subs
             PROVE  (\E f \in [Told(s) -> Owed(s)] : Accounts(f, s))'
  BY DEF HearsExactlyWhatItAskedFor
<1>1. PICK at \in [Told(s) -> Owed(s)] : Accounts(at, s)
  BY DEF LInv, HearsExactlyWhatItAskedFor
<1>2. /\ stream[s] \in Seq(Said) /\ Len(stream[s]) \in Nat
      /\ Told(s) \subseteq 1 .. Len(stream[s])
  BY Places DEF LInv, FrameInv
<1>3. Told(s)' = Told(s) /\ \A j \in Told(s) : stream'[s][j] = stream[s][j]
  <2>1. CASE stream'[s] = stream[s]
    BY <2>1 DEF Told
  <2>2. CASE stream'[s] # stream[s]
    <3>1. \A j : j \in 1 .. Len(stream'[s]) <=> j \in 1 .. Len(stream[s]) \/ j = Len(stream[s]) + 1
      BY <1>2, <2>2
    <3> QED
      BY <1>2, <2>2, <3>1 DEF Told
  <2> QED
    BY <2>1, <2>2
<1>4. Owed(s)' = Owed(s)
  BY DEF Owed, Last, Wants
<1> QED
  BY <1>1, <1>3, <1>4, SameAccount

\* What Sent and Ended do to each stream and each end.
LEMMA SaidToEach ==
  ASSUME LTypeOK, NEW S \in SUBSET Subs, NEW message \in Said, stream' = Sent(S, message)
  PROVE  \A s \in Subs :
           IF s \in S \ gone
           THEN /\ Len(stream'[s]) = Len(stream[s]) + 1
                /\ stream'[s][Len(stream[s]) + 1] = message
                /\ \A i \in 1 .. Len(stream[s]) : stream'[s][i] = stream[s][i]
           ELSE stream'[s] = stream[s]
BY Sending DEF Grown

\* The steps without a change.
LEMMA QuietStep ==
  ASSUME LInv, FrameInv',
         \/ \E s \in Subs : Acknowledge(s) \/ Leave(s)
         \/ CloseAll
  PROVE  LInv'
<1>1. LTypeOK /\ LTypeOK' /\ Len(changes) \in Nat /\ "ack" \in Said /\ "result" \in Said
  BY DEF LInv, FrameInv, LTypeOK, Said
<1>2. ASSUME NEW s \in Subs, Acknowledge(s)
      PROVE  LInv'
  <2>1. /\ stage[s] = "new" /\ stream' = Sent({s}, "ack")
        /\ stage' = [stage EXCEPT ![s] = IF s \in gone THEN "returned" ELSE "acknowledged"]
        /\ UNCHANGED <<filter, open, gone, changes, since, until>>
    BY <1>2 DEF Acknowledge
  <2>2. \A r \in Subs : r # s => stage'[r] = stage[r]
    BY <2>1 DEF LInv, FrameInv, LTypeOK
  <2>3. stage'[s] = IF s \in gone THEN "returned" ELSE "acknowledged"
    BY <1>1, <2>1 DEF LTypeOK
  <2>4. RegistryTrue'
    BY <2>1, <2>2, <2>3 DEF LInv, RegistryTrue
  <2>5. HearsExactlyWhatItAskedFor'
    BY <1>1, <2>1, SaidToEach, NoNews
  <2> QED
    BY <2>4, <2>5 DEF LInv
<1>3. ASSUME NEW s \in Subs, Leave(s)
      PROVE  LInv'
  <2>1. /\ UNCHANGED <<stage, filter, open, stream, changes, since>>
        /\ gone' = gone \cup {s}
        /\ \A r \in Subs : until'[r] = IF r = s /\ until[r] = -1 THEN Len(changes) ELSE until[r]
    BY <1>3 DEF Leave, Ended
  <2>2. RegistryTrue'
    BY <1>1, <2>1 DEF LInv, RegistryTrue
  <2>3. HearsExactlyWhatItAskedFor'
    BY <1>1, <2>1, NoNews
  <2> QED
    BY <2>2, <2>3 DEF LInv
<1>4. CASE CloseAll
  <2>1. /\ UNCHANGED <<stage, filter, gone, changes, since>>
        /\ stream' = Sent(open, "result") /\ open' = {} /\ open \in SUBSET Subs
        /\ \A r \in Subs : until'[r] = IF r \in open /\ until[r] = -1 THEN Len(changes) ELSE until[r]
    BY <1>1, <1>4 DEF CloseAll, Ended, LTypeOK
  <2>2. RegistryTrue'
    <3>1. \A r \in open : stage[r] = "returned"
      BY <2>1 DEF LInv, FrameInv, StagesTrue
    <3> QED
      BY <1>1, <2>1, <3>1 DEF LInv, RegistryTrue
  <2>3. HearsExactlyWhatItAskedFor'
    BY <1>1, <2>1, SaidToEach, NoNews
  <2> QED
    BY <2>2, <2>3 DEF LInv
<1> QED
  BY <1>2, <1>3, <1>4

\* Who is registered is owed what comes after.
LEMMA RegisterStep ==
  ASSUME LInv, FrameInv', NEW s \in Subs, Enter(s)
  PROVE  LInv'
<1>1. /\ stage[s] = "acknowledged" /\ stage' = [stage EXCEPT ![s] = "returned"]
      /\ open' = open \cup {s} /\ since' = [since EXCEPT ![s] = Len(changes)]
      /\ UNCHANGED <<filter, gone, stream, changes, until>>
  BY DEF Enter
<1>2. LTypeOK /\ Len(changes) \in Nat
  BY DEF LInv, FrameInv, LTypeOK
<1>3. /\ stage'[s] = "returned" /\ since'[s] = Len(changes)
      /\ \A r \in Subs : r # s => stage'[r] = stage[r] /\ since'[r] = since[r]
  BY <1>1, <1>2 DEF LTypeOK
<1>4. RegistryTrue'
  BY <1>1, <1>2, <1>3 DEF LInv, RegistryTrue
<1>5. ASSUME NEW r \in Subs
      PROVE  (\E f \in [Told(r) -> Owed(r)] : Accounts(f, r))'
  <2>1. PICK at \in [Told(r) -> Owed(r)] : Accounts(at, r)
    BY DEF LInv, HearsExactlyWhatItAskedFor
  <2>2. CASE r = s
    <3>1. since[s] = -1 /\ Owed(s) = {}
      BY <1>1 DEF LInv, RegistryTrue, Owed
    <3>2. Owed(s)' = {}
      BY <1>1, <1>2, <1>3 DEF Owed, Last, LInv, RegistryTrue
    <3>3. Told(s)' = Told(s)
      BY <1>1 DEF Told
    <3> QED
      BY <1>1, <2>1, <2>2, <3>1, <3>2, <3>3, SameAccount
  <2>3. CASE r # s
    <3>1. Owed(r)' = Owed(r) /\ Told(r)' = Told(r)
      BY <1>1, <1>3, <2>3 DEF Owed, Last, Wants, Told
    <3> QED
      BY <1>1, <2>1, <3>1, SameAccount
  <2> QED
    BY <2>2, <2>3
<1> QED
  BY <1>4, <1>5 DEF LInv, HearsExactlyWhatItAskedFor

\* A change is owed to, and told, every listener that is registered, still reads
\* and asked for it.
LEMMA AnnounceStep ==
  ASSUME LInv, FrameInv', NEW t \in Topics, Change(t)
  PROVE  LInv'
<1> DEFINE S == {s \in open : Wants(s, t)}
           n == Len(changes) + 1
<1>1. /\ stream' = Sent(S, t) /\ open' = open \ (S \cap gone)
      /\ changes' = Append(changes, t)
      /\ UNCHANGED <<stage, filter, gone, since, until>>
  BY DEF Change
<1>2. LTypeOK /\ LTypeOK' /\ RegistryTrue /\ S \in SUBSET Subs /\ t \in Said
  BY DEF LInv, FrameInv, LTypeOK, Said
<1>3. /\ changes \in Seq(Topics) /\ Len(changes) \in Nat /\ Len(changes') = n
      /\ changes'[n] = t /\ \A i \in 1 .. Len(changes) : changes'[i] = changes[i]
  BY <1>1, <1>2 DEF LTypeOK
<1>4. RegistryTrue'
  BY <1>1, <1>2, <1>3 DEF RegistryTrue
<1>5. ASSUME NEW s \in Subs
      PROVE  (\E f \in [Told(s) -> Owed(s)] : Accounts(f, s))'
  <2>1. PICK at \in [Told(s) -> Owed(s)] : Accounts(at, s)
    BY DEF LInv, HearsExactlyWhatItAskedFor
  <2>2. /\ stream[s] \in Seq(Said) /\ Len(stream[s]) \in Nat
        /\ Last(s) \in -1 .. Len(changes)
        /\ Told(s) \subseteq 1 .. Len(stream[s]) /\ Owed(s) \subseteq 1 .. Len(changes)
    BY <1>2, Places
  <2>3. \A i \in Owed(s) : changes'[i] = changes[i]
    BY <1>3, <2>2
  <2>4. CASE s \in S \ gone
    <3>1. /\ Len(stream'[s]) = Len(stream[s]) + 1
          /\ stream'[s][Len(stream[s]) + 1] = t
          /\ \A i \in 1 .. Len(stream[s]) : stream'[s][i] = stream[s][i]
      BY <1>1, <1>2, <2>4, SaidToEach
    <3>2. Told(s)' = Told(s) \cup {Len(stream[s]) + 1}
      <4>1. \A j : j \in 1 .. Len(stream'[s]) <=> j \in 1 .. Len(stream[s]) \/ j = Len(stream[s]) + 1
        BY <2>2, <3>1
      <4> QED
        BY <3>1, <4>1 DEF Told
    <3>3. /\ since[s] # -1 /\ until[s] = -1 /\ since[s] \in -1 .. Len(changes)
          /\ since'[s] = since[s] /\ until'[s] = -1 /\ Wants(s, t)
      BY <1>1, <1>2, <2>4 DEF RegistryTrue
    <3>4. Owed(s)' = Owed(s) \cup {n}
      <4>1. \A i : i \in since[s] + 1 .. n <=> i \in since[s] + 1 .. Len(changes) \/ i = n
        BY <1>3, <3>3
      <4>2. \A i \in since[s] + 1 .. Len(changes) : changes'[i] = changes[i]
        BY <1>3, <3>3
      <4>3. Last(s) = Len(changes) /\ Last(s)' = n
        BY <1>3, <3>3 DEF Last
      <4>4. \A u : Wants(s, u)' <=> Wants(s, u)
        BY <1>1 DEF Wants
      <4> HIDE DEF n
      <4> QED
        BY <1>3, <3>3, <4>1, <4>2, <4>3, <4>4 DEF Owed
    <3>5. /\ Len(stream[s]) + 1 \in Int /\ n \in Int
          /\ \A j \in Told(s) : j < Len(stream[s]) + 1 /\ stream'[s][j] = stream[s][j]
          /\ \A i \in Owed(s) : i < n
          /\ Told(s) \subseteq Int /\ Owed(s) \subseteq Int
      BY <1>3, <2>2, <3>1
    <3> HIDE DEF n
    <3> QED
      BY <1>3, <2>1, <2>3, <3>1, <3>2, <3>4, <3>5, LongerAccount
  <2>5. CASE s \notin S \ gone
    <3>1. stream'[s] = stream[s]
      BY <1>1, <1>2, <2>5, SaidToEach
    <3>2. Told(s)' = Told(s)
      BY <3>1 DEF Told
    <3>3. Owed(s)' = Owed(s)
      <4>1. CASE since[s] = -1
        BY <1>1, <4>1 DEF Owed
      <4>2. CASE until[s] # -1
        <5>1. Last(s)' = Last(s) /\ since'[s] = since[s] /\ filter' = filter
          BY <1>1, <4>2 DEF Last
        <5>2. \A i \in since[s] + 1 .. Last(s) : since[s] # -1 => changes'[i] = changes[i]
          <6>1. since[s] \in -1 .. Len(changes)
            BY <1>2 DEF RegistryTrue
          <6> HIDE DEF n
          <6> QED
            BY <1>3, <2>2, <6>1
        <5> QED
          BY <5>1, <5>2 DEF Owed, Wants
      <4>3. CASE since[s] # -1 /\ until[s] = -1
        <5>1. s \in open /\ s \notin gone /\ ~Wants(s, t) /\ since[s] \in -1 .. Len(changes)
          BY <1>2, <2>5, <4>3 DEF RegistryTrue
        <5>2. \A i : i \in since[s] + 1 .. n <=> i \in since[s] + 1 .. Len(changes) \/ i = n
          BY <1>3, <4>3, <5>1
        <5>3. \A i \in since[s] + 1 .. Len(changes) : changes'[i] = changes[i]
          BY <1>3, <4>3, <5>1
        <5>4. Last(s) = Len(changes) /\ Last(s)' = n
          BY <1>1, <1>3, <4>3 DEF Last
        <5>5. \A u : Wants(s, u)' <=> Wants(s, u)
          BY <1>1 DEF Wants
        <5> HIDE DEF n
        <5> QED
          BY <1>1, <1>3, <4>3, <5>1, <5>2, <5>3, <5>4, <5>5 DEF Owed
      <4> QED
        BY <4>1, <4>2, <4>3
    <3> QED
      BY <2>1, <2>3, <3>1, <3>2, <3>3, SameAccount
  <2> QED
    BY <2>4, <2>5
<1> QED
  BY <1>4, <1>5 DEF LInv, HearsExactlyWhatItAskedFor

\* Before anyone asks, nobody was told or is owed anything.
LEMMA InitLInv == LInit => LInv
<1> SUFFICES ASSUME LInit PROVE LInv
  OBVIOUS
<1>1. FrameInv
  BY InitFrameInv
<1>2. RegistryTrue
  <2>1. Len(changes) = 0
    <3>1. changes = <<>>
      BY DEF LInit
    <3> QED
      BY <3>1
  <2>2. \A s \in Subs : since[s] = -1 /\ until[s] = -1
    <3>1. since = [s \in Subs |-> -1] /\ until = [s \in Subs |-> -1]
      BY DEF LInit
    <3> QED
      BY <3>1, Zenon
  <2>3. \A s \in Subs : s \notin open /\ s \notin gone
    BY DEF LInit
  <2>4. ASSUME NEW s \in Subs
        PROVE  since[s] \in -1 .. Len(changes) /\ until[s] \in -1 .. Len(changes)
    <3>1. -1 \in -1 .. 0
      OBVIOUS
    <3> QED
      BY <2>1, <2>2, <3>1, Zenon
  <2> QED
    BY <2>2, <2>3, <2>4, Zenon DEF RegistryTrue
<1>3. ASSUME NEW s \in Subs
      PROVE  \E f \in [Told(s) -> Owed(s)] : Accounts(f, s)
  <2>1. Told(s) = {} /\ Owed(s) = {}
    BY DEF LInit, Told, Owed
  <2>2. [j \in {} |-> j] \in [Told(s) -> Owed(s)]
    BY <2>1
  <2>3. Accounts([j \in {} |-> j], s)
    BY <2>1 DEF Accounts
  <2> QED
    BY <2>2, <2>3
<1> QED
  BY <1>1, <1>2, <1>3 DEF LInv, HearsExactlyWhatItAskedFor

\* What the streams say and the registry holds agree, whoever opens, leaves,
\* announces or shuts down between the two halves of an opening.
THEOREM ListenersConsistent == LSpec => []LInv
<1>1. ASSUME LInv, LNext
      PROVE  LInv'
  <2>1. FrameInv
    BY <1>1 DEF LInv
  <2>2. ASSUME NEW s \in Subs, Acknowledge(s) \/ Enter(s) \/ Leave(s)
        PROVE  LInv'
    BY <1>1, <2>1, <2>2, AcknowledgeStep, EnterStep, LeaveStep, QuietStep, RegisterStep
  <2>3. ASSUME NEW t \in Topics, Change(t)
        PROVE  LInv'
    BY <1>1, <2>1, <2>3, ChangeStep, AnnounceStep
  <2>4. CASE CloseAll
    BY <1>1, <2>1, <2>4, CloseStep, QuietStep
  <2> QED
    BY <1>1, <2>2, <2>3, <2>4 DEF LNext
<1>2. ASSUME LInv, UNCHANGED lvars
      PROVE  LInv'
  <2>1. FrameInv' /\ RegistryTrue'
    BY <1>2 DEF lvars, history, LInv, FrameInv, LTypeOK, StagesTrue,
         AcknowledgedFirstClosedLast, EndsWithAResult, Over, RegistryTrue
  <2>2. HearsExactlyWhatItAskedFor'
    BY <1>2, <2>1, NoNews DEF lvars, history, FrameInv
  <2> QED
    BY <2>1, <2>2 DEF LInv
<1> QED
  BY <1>1, <1>2, InitLInv, PTL DEF LSpec

\* Who subscribed hears what it asked for, all of it and nothing else, in order
\* (listeners.rs:191-212).
THEOREM NothingMissed == LSpec => []HearsExactlyWhatItAskedFor
<1>1. LInv => HearsExactlyWhatItAskedFor
  BY DEF LInv, FrameInv
<1> QED
  BY <1>1, ListenersConsistent, PTL

\* A stream starts with its acknowledgement and says nothing after its result
\* (listeners.rs:13-17, 157-158, 234-238).
THEOREM FramedStreams == LSpec => []AcknowledgedFirstClosedLast
<1>1. LInv => AcknowledgedFirstClosedLast
  BY DEF LInv, FrameInv
<1> QED
  BY <1>1, ListenersConsistent, PTL

\* Who still reads is told when the stream is over (listeners.rs:236-238).
THEOREM NoStreamJustStops == LSpec => []EndsWithAResult
<1>1. LInv => EndsWithAResult
  BY DEF LInv, FrameInv
<1> QED
  BY <1>1, ListenersConsistent, PTL

================================================================================
