---------------------------- MODULE Transports_proofs ----------------------------
(***************************************************************************)
(* Proofs about Transports, for any calls, channels, children and tasks:   *)
(* each request is in one place until the peer has it, whichever transport *)
(* it is, and what is said in the peer's name is said of a request it got. *)
(***************************************************************************)
EXTENDS Transports, TLAPS

-----------------------------------------------------------------------------
(* Channels. *)

\* What is left of a sequence without its first element.
LEMMA Shorter ==
  ASSUME NEW S, NEW s \in Seq(S), s # <<>>
  PROVE  /\ Head(s) \in S /\ Head(s) = s[1] /\ 1 \in 1 .. Len(s)
         /\ Tail(s) \in Seq(S) /\ Len(s) \in Nat /\ Len(Tail(s)) = Len(s) - 1
         /\ \A i \in 1 .. Len(Tail(s)) : i + 1 \in 1 .. Len(s) /\ Tail(s)[i] = s[i + 1]
  OBVIOUS

\* A sequence with one more element.
LEMMA Longer ==
  ASSUME NEW S, NEW s \in Seq(S), NEW m \in S
  PROVE  /\ Append(s, m) \in Seq(S) /\ Len(s) \in Nat /\ Len(Append(s, m)) = Len(s) + 1
         /\ \A i \in 1 .. Len(Append(s, m)) :
              \/ i = Len(s) + 1 /\ Append(s, m)[i] = m
              \/ i \in 1 .. Len(s) /\ Append(s, m)[i] = s[i]
         /\ \A i \in 1 .. Len(s) : Append(s, m)[i] = s[i]
         /\ Append(s, m)[Len(s) + 1] = m
  OBVIOUS

\* Who takes from the channel takes a request that is there once.
LEMMA TakesFirst ==
  ASSUME StreamTypeOK, QueuedOnce, NEW c, Take(c)
  PROVE  /\ c \in Calls /\ c \in Queued /\ Queued' \subseteq Queued \ {c}
         /\ outgoing' \in Seq(Calls)
         /\ \A i, j \in 1 .. Len(outgoing') : outgoing'[i] = outgoing'[j] => i = j
<1>1. outgoing \in Seq(Calls) /\ outgoing # <<>> /\ c = Head(outgoing) /\ outgoing' = Tail(outgoing)
  BY DEF StreamTypeOK, Take
<1>2. /\ c \in Calls /\ c = outgoing[1] /\ 1 \in 1 .. Len(outgoing)
      /\ outgoing' \in Seq(Calls) /\ Len(outgoing) \in Nat /\ Len(outgoing') = Len(outgoing) - 1
      /\ \A i \in 1 .. Len(outgoing') : i + 1 \in 1 .. Len(outgoing) /\ outgoing'[i] = outgoing[i + 1]
  BY <1>1, Shorter
<1>3. \A i, j \in 1 .. Len(outgoing) : outgoing[i] = outgoing[j] => i = j
  BY DEF QueuedOnce
<1>4. ASSUME NEW i \in 1 .. Len(outgoing')
      PROVE  outgoing'[i] \in Queued /\ outgoing'[i] # c
  <2>1. i + 1 \in 1 .. Len(outgoing) /\ outgoing'[i] = outgoing[i + 1] /\ i + 1 # 1
    BY <1>2
  <2> QED
    BY <1>2, <1>3, <2>1 DEF Queued
<1>5. Queued' \subseteq Queued \ {c}
  BY <1>4 DEF Queued
<1>6. ASSUME NEW i \in 1 .. Len(outgoing'), NEW j \in 1 .. Len(outgoing'),
             outgoing'[i] = outgoing'[j]
      PROVE  i = j
  <2>1. i + 1 = j + 1
    BY <1>2, <1>3, <1>6
  <2> QED
    BY <1>2, <2>1
<1> QED
  BY <1>2, <1>5, <1>6 DEF Queued

-----------------------------------------------------------------------------
(* What a step does to the requests on their way.  Every step of every         *)
(* transport is one of these.                                                  *)

Rests ==
  UNCHANGED <<pc, result, outgoing, carried, heard>> /\ Hands' \subseteq Hands

Takes(c) ==
  /\ Take(c) /\ Hands' \subseteq Hands \cup {c}
  /\ UNCHANGED <<pc, result, carried, heard>>

Delivers(c) ==
  /\ c \in Hands /\ Reaches(c) /\ Hands' \subseteq Hands \ {c}
  /\ UNCHANGED <<pc, result, outgoing, heard>>

Calling(c) ==
  /\ Ask(c) \/ Write(c) \/ Receive(c) \/ Notice(c) \/ TimeOut(c)
  /\ Hands' = Hands

Moves ==
  \/ Rests
  \/ \E c \in Calls : Takes(c) \/ Delivers(c) \/ Calling(c)

CallsTrue == \A c \in Calls : CallTrue(c)

\* A request that is delivered was not yet.
LEMMA DeliversOnce ==
  ASSUME TransportsTypeOK, CallsTrue, NEW c \in Calls, Delivers(c)
  PROVE  /\ carried[c] = 0 /\ carried'[c] = 1
         /\ \A d \in Calls \ {c} : carried'[d] = carried[d]
  BY DEF TransportsTypeOK, StreamTypeOK, CallsTrue, CallTrue, Delivers, Reaches

\* Nothing the peer got is taken back.
LEMMA CarriedStays ==
  ASSUME TransportsTypeOK, CallsTrue, Moves
  PROVE  \A c \in Calls : carried[c] = 1 => carried'[c] = 1
<1>1. ASSUME NEW c \in Calls, Delivers(c)
      PROVE  \A d \in Calls : carried[d] = 1 => carried'[d] = 1
  BY <1>1, DeliversOnce
<1>2. Rests => UNCHANGED carried
  BY DEF Rests
<1>3. \A c \in Calls : Takes(c) \/ Calling(c) => UNCHANGED carried
  BY DEF Takes, Calling, Ask, Write, Receive, Notice, TimeOut
<1> QED
  BY <1>1, <1>2, <1>3 DEF Moves

\* A call asks, writes its request, and hears of it.
LEMMA CallingIsTrue ==
  ASSUME TransportsTypeOK, CallsTrue, QueuedOnce, Evident, NEW c \in Calls, Calling(c)
  PROVE  CallsTrue' /\ QueuedOnce'
<1>1. StreamTypeOK /\ Hands' = Hands
  BY DEF TransportsTypeOK, Calling
<1>2. \A d \in Calls \ {c} : pc'[d] = pc[d] /\ result'[d] = result[d] /\ heard'[d] = heard[d]
  BY <1>1 DEF Calling, Ask, Write, Receive, Notice, TimeOut, Return, StreamTypeOK
<1>3. UNCHANGED carried
  BY DEF Calling, Ask, Write, Receive, Notice, TimeOut
<1>4. CASE Write(c) /\ taking
  <2>1. /\ pc[c] = "writing" /\ pc' = [pc EXCEPT ![c] = "waiting"]
        /\ outgoing' = Append(outgoing, c) /\ UNCHANGED <<result, heard>>
    BY <1>4 DEF Write
  <2>2. c \notin Queued /\ c \notin Hands /\ carried[c] = 0
    BY <2>1 DEF CallsTrue, CallTrue
  <2>3. outgoing \in Seq(Calls)
    BY <1>1 DEF StreamTypeOK
  <2>4. /\ Len(outgoing) \in Nat /\ Len(outgoing') = Len(outgoing) + 1
        /\ \A i \in 1 .. Len(outgoing') :
             \/ i = Len(outgoing) + 1 /\ outgoing'[i] = c
             \/ i \in 1 .. Len(outgoing) /\ outgoing'[i] = outgoing[i]
    BY <2>1, <2>3, Longer
  <2>5. Queued' \subseteq Queued \cup {c}
    BY <2>4 DEF Queued
  <2>6. \A i, j \in 1 .. Len(outgoing') : outgoing'[i] = outgoing'[j] => i = j
    BY <2>2, <2>4 DEF Queued, QueuedOnce
  <2>7. QueuedOnce'
    BY <1>1, <2>2, <2>5, <2>6 DEF QueuedOnce
  <2>8. CallTrue(c)'
    BY <1>1, <1>3, <2>1, <2>2 DEF CallsTrue, CallTrue, StreamTypeOK
  <2>9. \A d \in Calls \ {c} : CallTrue(d)'
    BY <1>1, <1>2, <1>3, <2>5 DEF CallsTrue, CallTrue
  <2> QED
    BY <2>7, <2>8, <2>9 DEF CallsTrue
<1>5. CASE ~(Write(c) /\ taking)
  <2>1. UNCHANGED outgoing /\ Queued' = Queued
    BY <1>5 DEF Calling, Ask, Write, Receive, Notice, TimeOut, Queued
  <2>2. QueuedOnce'
    BY <1>1, <2>1 DEF QueuedOnce
  <2>3. \A d \in Calls \ {c} : CallTrue(d)'
    BY <1>1, <1>2, <1>3, <2>1 DEF CallsTrue, CallTrue
  <2>4. CallTrue(c)'
    <3>1. CASE Ask(c)
      BY <1>1, <1>3, <2>1, <3>1 DEF Ask, CallsTrue, CallTrue, StreamTypeOK
    <3>2. CASE Write(c) \/ Notice(c) \/ TimeOut(c)
      <4>1. /\ pc'[c] = "ended" /\ result'[c] \in {"closed", "timed_out"} /\ UNCHANGED heard
            /\ pc[c] # "ended"
        BY <1>1, <1>5, <3>2 DEF Write, Notice, TimeOut, Return, StreamTypeOK
      <4> QED
        BY <1>1, <1>3, <2>1, <4>1 DEF CallsTrue, CallTrue, Answers
    <3>3. CASE Receive(c)
      <4>1. incoming \in Seq(Message) /\ incoming # <<>> /\ pc[c] = "waiting"
        BY <1>1, <3>3 DEF Receive, StreamTypeOK
      <4>2. Vouched(Head(incoming))
        BY <4>1, Shorter DEF Evident
      <4>3. CASE Head(incoming).of = c
        <5>1. /\ pc'[c] = "ended" /\ result'[c] = Head(incoming).word
              /\ heard'[c] = IF Head(incoming).word \in Answers THEN heard[c] + 1 ELSE heard[c]
          BY <1>1, <3>3, <4>3 DEF Receive, Return, StreamTypeOK
        <5>2. heard[c] = 0
          BY <4>1 DEF CallsTrue, CallTrue
        <5> QED
          BY <1>1, <1>3, <2>1, <4>1, <4>2, <4>3, <5>1, <5>2 DEF CallsTrue, CallTrue, Vouched
      <4>4. CASE Head(incoming).of # c
        BY <1>1, <1>3, <2>1, <3>3, <4>4 DEF Receive, CallsTrue, CallTrue
      <4> QED
        BY <4>3, <4>4
    <3> QED
      BY <3>1, <3>2, <3>3 DEF Calling
  <2> QED
    BY <2>2, <2>3, <2>4 DEF CallsTrue
<1> QED
  BY <1>4, <1>5

\* However a request is moved, it stays in one place.
LEMMA MovesAreTrue ==
  ASSUME TransportsTypeOK, CallsTrue, QueuedOnce, Evident, Moves
  PROVE  CallsTrue' /\ QueuedOnce'
<1>1. CASE Rests
  <2>1. Queued' = Queued
    BY <1>1 DEF Rests, Queued
  <2> QED
    BY <1>1, <2>1 DEF Rests, CallsTrue, CallTrue, QueuedOnce
<1>2. ASSUME NEW c \in Calls, Takes(c)
      PROVE  CallsTrue' /\ QueuedOnce'
  <2>1. /\ c \in Queued /\ Queued' \subseteq Queued \ {c}
        /\ \A i, j \in 1 .. Len(outgoing') : outgoing'[i] = outgoing'[j] => i = j
    BY <1>2, TakesFirst DEF Takes, TransportsTypeOK
  <2>2. Hands' \subseteq Hands \cup {c} /\ UNCHANGED <<pc, result, carried, heard>>
    BY <1>2 DEF Takes
  <2>3. QueuedOnce'
    BY <2>1, <2>2 DEF QueuedOnce
  <2>4. \A d \in Calls : CallTrue(d)'
    BY <2>1, <2>2 DEF CallsTrue, CallTrue
  <2> QED
    BY <2>3, <2>4 DEF CallsTrue
<1>3. ASSUME NEW c \in Calls, Delivers(c)
      PROVE  CallsTrue' /\ QueuedOnce'
  <2>1. carried[c] = 0 /\ carried'[c] = 1 /\ \A d \in Calls \ {c} : carried'[d] = carried[d]
    BY <1>3, DeliversOnce
  <2>2. /\ c \in Hands /\ Hands' \subseteq Hands \ {c} /\ Queued' = Queued
        /\ UNCHANGED <<pc, result, outgoing, heard>>
    BY <1>3 DEF Delivers, Queued
  <2>3. c \notin Queued
    BY <2>2 DEF QueuedOnce
  <2>4. QueuedOnce'
    BY <2>2 DEF QueuedOnce
  <2>5. \A d \in Calls : CallTrue(d)'
    BY <2>1, <2>2, <2>3 DEF CallsTrue, CallTrue
  <2> QED
    BY <2>4, <2>5 DEF CallsTrue
<1> QED
  BY <1>1, <1>2, <1>3, CallingIsTrue DEF Moves

-----------------------------------------------------------------------------
(* Types of the channels. *)

\* A call keeps them.
LEMMA CallTypes ==
  ASSUME StreamTypeOK, NEW c \in Calls,
         Ask(c) \/ Write(c) \/ Receive(c) \/ Notice(c) \/ TimeOut(c)
  PROVE  StreamTypeOK'
<1>1. CASE Write(c)
  <2>1. outgoing \in Seq(Calls)
    BY DEF StreamTypeOK
  <2>2. outgoing' \in Seq(Calls)
    BY <1>1, <2>1, Longer DEF Write
  <2> QED
    BY <1>1, <2>2 DEF Write, Return, StreamTypeOK
<1>2. CASE Receive(c)
  <2>1. incoming \in Seq(Message) /\ incoming # <<>>
    BY <1>2 DEF Receive, StreamTypeOK
  <2>2. Head(incoming) \in Message /\ incoming' \in Seq(Message)
    BY <1>2, <2>1, Shorter DEF Receive
  <2>3. Head(incoming).word \in Word
    BY <2>2 DEF Message
  <2> QED
    <3>1. /\ UNCHANGED <<pc, result>> \/ Return(c, Head(incoming).word)
          /\ heard' = heard \/ heard' = [heard EXCEPT ![c] = @ + 1]
      BY <1>2 DEF Receive
    <3>2. heard' \in [Calls -> Nat]
      <4>1. heard \in [Calls -> Nat] /\ heard[c] \in Nat
        BY DEF StreamTypeOK
      <4>2. [heard EXCEPT ![c] = @ + 1] \in [Calls -> Nat]
        BY <4>1
      <4> QED
        BY <3>1, <4>1, <4>2
    <3>3. /\ pc' \in [Calls -> {"idle", "writing", "waiting", "ended"}]
          /\ result' \in [Calls -> Word \cup {"none", "timed_out", "closed"}]
      BY <2>3, <3>1 DEF Return, StreamTypeOK
    <3> QED
      BY <1>2, <2>2, <3>2, <3>3 DEF Receive, StreamTypeOK
<1>3. CASE Ask(c) \/ Notice(c) \/ TimeOut(c)
  BY <1>3 DEF Ask, Notice, TimeOut, Return, StreamTypeOK
<1> QED
  BY <1>1, <1>2, <1>3

\* So does a transport that takes requests, delivers them and brings messages.
LEMMA TransportTypes ==
  ASSUME StreamTypeOK, UNCHANGED <<pc, result, heard>>,
         UNCHANGED outgoing \/ \E c : Take(c),
         UNCHANGED carried \/ \E c \in Calls : Reaches(c),
         incoming' = incoming \/ \E m \in Message : incoming' = Append(incoming, m),
         taking' \in BOOLEAN, feeders' \subseteq feeders
  PROVE  StreamTypeOK'
<1>1. outgoing' \in Seq(Calls)
  <2>1. outgoing \in Seq(Calls)
    BY DEF StreamTypeOK
  <2>2. outgoing # <<>> => Tail(outgoing) \in Seq(Calls)
    BY <2>1, Shorter
  <2> QED
    BY <2>1, <2>2 DEF Take
<1>2. incoming' \in Seq(Message)
  <2>1. incoming \in Seq(Message)
    BY DEF StreamTypeOK
  <2>2. \A m \in Message : Append(incoming, m) \in Seq(Message)
    BY <2>1, Longer
  <2> QED
    BY <2>1, <2>2
<1>3. carried' \in [Calls -> Nat]
  BY DEF StreamTypeOK, Reaches
<1> QED
  BY <1>1, <1>2, <1>3 DEF StreamTypeOK

\* A channel of good messages stays one when a good message is added, or one taken.
LEMMA ChannelKeeps ==
  ASSUME NEW s \in Seq(Message), NEW t, NEW Good, \A i \in 1 .. Len(s) : s[i] \in Good,
         \/ t = s
         \/ s # <<>> /\ t = Tail(s)
         \/ \E m \in Message \cap Good : t = Append(s, m)
  PROVE  \A i \in 1 .. Len(t) : t[i] \in Good
<1>1. CASE s # <<>> /\ t = Tail(s)
  BY <1>1, Shorter
<1>2. CASE \E m \in Message \cap Good : t = Append(s, m)
  BY <1>2, Longer
<1> QED
  BY <1>1, <1>2

\* The messages that may be spoken in the peer's name.
Vouching == {m \in Message : Vouched(m)}

\* They become more.
LEMMA VouchingGrows ==
  ASSUME TransportsTypeOK, CallsTrue, Moves
  PROVE  Vouching \subseteq Vouching'
  BY CarriedStays DEF Vouching, Vouched

\* What a channel of them brings is one of them.
LEMMA Brought ==
  ASSUME TransportsTypeOK, CallsTrue, Evident, Moves,
         \/ incoming' = incoming
         \/ incoming # <<>> /\ incoming' = Tail(incoming)
         \/ \E m \in Vouching' : incoming' = Append(incoming, m)
  PROVE  \A i \in 1 .. Len(incoming') : incoming'[i] \in Vouching'
<1>1. incoming \in Seq(Message)
  BY DEF TransportsTypeOK, StreamTypeOK
<1>2. \A i \in 1 .. Len(incoming) : incoming[i] \in Vouching'
  BY <1>1, VouchingGrows DEF Evident, Vouching
<1>3. Vouching' \subseteq Message
  BY DEF Vouching
<1> QED
  BY <1>1, <1>2, <1>3, ChannelKeeps

\* The transports that are not used stay as they are.
LEMMA OthersRest ==
  ASSUME Unused, ClientNext
  PROVE  Unused'
<1>1. UNCHANGED kind
  BY DEF ClientNext
<1>2. CASE kind = "stdio" /\ UNCHANGED <<sseVars, httpVars>>
  BY <1>1, <1>2 DEF Unused, sseVars, httpVars, hintVars
<1>3. CASE kind = "sse" /\ UNCHANGED <<stdioVars, httpVars>>
  BY <1>1, <1>3 DEF Unused, stdioVars, httpVars, hintVars
<1>4. CASE kind = "http" /\ UNCHANGED <<stdioVars, sseVars>>
  BY <1>1, <1>4 DEF Unused, stdioVars, sseVars
<1> QED
  BY <1>2, <1>3, <1>4 DEF ClientNext

-----------------------------------------------------------------------------
(* stdio. *)

\* A request is in the hands of the stdio transport in its stdin, or in its writer's.
LEMMA StdioHands ==
  ASSUME Unused, Unused', kind = "stdio", UNCHANGED kind
  PROVE  /\ Hands = Lined /\ Hands' = Lined'
         /\ \A c : c \in Lined <=> \/ \E i \in 1 .. Len(stdin) : stdin[i].of = c
                                   \/ writer # None /\ writer.of = c
         /\ \A c : c \in Lined' <=> \/ \E i \in 1 .. Len(stdin') : stdin'[i].of = c
                                    \/ writer' # None /\ writer'.of = c
<1>1. Hands = Lined /\ Hands' = Lined'
  BY DEF Hands, Unused
<1> QED
  BY <1>1 DEF Lined, Written

\* The transport's own variables of stdio keep their types.
LEMMA StdioTypes ==
  ASSUME TransportsTypeOK, StdioNext
  PROVE  StdioTypeOK' /\ StreamTypeOK'
<1> USE DEF TransportsTypeOK
<1>1. {Discover, Rediscover, Initialize} \subseteq Calls /\ Ordinary \subseteq Calls
  BY StdioAssumption, ChannelAssumption
<1>2. CASE Probe \/ Retry \/ HandshakeLegacy \/ Settle
  <2>1. StreamTypeOK'
    <3>1. UNCHANGED streamVars \/ \E c \in Calls : Ask(c)
      BY <1>1, <1>2 DEF Probe, Retry, HandshakeLegacy, Settle
    <3> QED
      BY <3>1, CallTypes DEF streamVars, StreamTypeOK
  <2> QED
    BY <1>2, <2>1 DEF Probe, Retry, HandshakeLegacy, Settle, Turn, PipesSame, Cleared, StdioTypeOK
<1>3. CASE Refused \/ Abort
  <2>1. StreamTypeOK'
    BY <1>3 DEF Refused, Abort, StreamTypeOK
  <2> QED
    BY <1>3, <2>1 DEF Refused, Abort, Turn, StdioTypeOK
<1>4. CASE \E c \in Calls : Use(c) \/ StdioCall(c) \/ (TimeOut(c) /\ UNCHANGED stdioVars)
  <2>1. StreamTypeOK' /\ UNCHANGED stdioVars
    BY <1>4, CallTypes DEF Use, StdioCall, CallStep
  <2> QED
    BY <2>1 DEF stdioVars, StdioTypeOK
<1>5. ASSUME NEW c \in Calls, WriterTakes(c)
      PROVE  StdioTypeOK' /\ StreamTypeOK'
  <2>1. StreamTypeOK'
    BY <1>5, TransportTypes DEF WriterTakes, StreamTypeOK
  <2>2. writer' \in Lines
    BY <1>5 DEF WriterTakes, Stamped, Lines
  <2> QED
    BY <1>5, <2>1, <2>2 DEF WriterTakes, StdioTypeOK
<1>6. CASE WriterWrites
  <2>1. StreamTypeOK'
    BY <1>6 DEF WriterWrites, StreamTypeOK
  <2>2. stdin' \in Seq(Lines)
    <3>1. stdin \in Seq(Lines) /\ writer \in Lines \cup {None}
      BY DEF StdioTypeOK
    <3>2. \A m \in Lines : Append(stdin, m) \in Seq(Lines)
      BY <3>1, Longer
    <3> QED
      BY <1>6, <3>1, <3>2 DEF WriterWrites
  <2> QED
    BY <1>6, <2>1, <2>2 DEF WriterWrites, StdioTypeOK
<1>7. CASE Read \/ ReadEnds
  <2>1. stdout # <<>> => Head(stdout) \in Message /\ Tail(stdout) \in Seq(Message)
    BY Shorter DEF StdioTypeOK
  <2>2. StreamTypeOK'
    BY <1>7, <2>1, TransportTypes DEF Read, ReadEnds, ReaderReturns, StreamTypeOK
  <2> QED
    BY <1>7, <2>1, <2>2 DEF Read, ReadEnds, StdioTypeOK
<1>8. CASE Serve
  <2>1. stdin # <<>> /\ stdin \in Seq(Lines)
    BY <1>8 DEF Serve, StdioTypeOK
  <2>2. Head(stdin) \in Lines /\ Tail(stdin) \in Seq(Lines) /\ Head(stdin).of \in Calls
    <3>1. Head(stdin) \in Lines /\ Tail(stdin) \in Seq(Lines)
      BY <2>1, Shorter
    <3> QED
      BY <3>1 DEF Lines
  <2>3. \A w \in Verdicts(Head(stdin)) : w \in Word
    <3>1. Verdicts(Head(stdin)) \subseteq {"result", "rejected", "refused"}
      <4>1. child = "modern" \/ child = "foreign" \/ child = "dated" \/ child = "legacy"
        BY StdioAssumption DEF StdioTypeOK
      <4> QED
        BY <4>1, Zenon DEF Verdicts
    <3> QED
      BY <3>1 DEF Word, Answers
  <2>4. serving' \in Message
    BY <1>8, <2>2, <2>3 DEF Serve, Said, Message
  <2>5. StreamTypeOK'
    BY <1>8, <2>2, TransportTypes DEF Serve, StreamTypeOK
  <2> QED
    BY <1>8, <2>2, <2>4, <2>5 DEF Serve, StdioTypeOK
<1>9. CASE WriteLine \/ Chatter
  <2>1. Said(None, "push") \in Message
    BY DEF Said, Message, Word
  <2>2. stdout' \in Seq(Message)
    <3>1. stdout \in Seq(Message) /\ serving \in Message \cup {None}
      BY DEF StdioTypeOK
    <3>2. \A m \in Message : Append(stdout, m) \in Seq(Message)
      BY <3>1, Longer
    <3> QED
      BY <1>9, <2>1, <3>1, <3>2 DEF WriteLine, Chatter
  <2>3. StreamTypeOK'
    BY <1>9 DEF WriteLine, Chatter, streamVars, StreamTypeOK
  <2> QED
    BY <1>9, <2>2, <2>3 DEF WriteLine, Chatter, StdioTypeOK
<1>10. CASE Exit \/ Terminate
  BY <1>10 DEF Exit, Terminate, streamVars, StreamTypeOK, StdioTypeOK
<1> QED
  BY <1>2, <1>3, <1>4, <1>5, <1>6, <1>7, <1>8, <1>9, <1>10 DEF StdioNext, Tasking

\* A request is stamped once it is taken, its line is written or dropped, and
\* the child takes it.
LEMMA StdioMoves ==
  ASSUME PlacesInv, Unused', kind = "stdio", UNCHANGED <<kind, sseVars, httpVars>>, StdioNext
  PROVE  Moves /\ HandedOnce'
<1>1. /\ Hands = Lined /\ Hands' = Lined' /\ UNCHANGED <<held, posts>>
      /\ \A c : c \in Lined <=> \/ \E i \in 1 .. Len(stdin) : stdin[i].of = c
                                \/ writer # None /\ writer.of = c
      /\ \A c : c \in Lined' <=> \/ \E i \in 1 .. Len(stdin') : stdin'[i].of = c
                                 \/ writer' # None /\ writer'.of = c
  BY StdioHands DEF PlacesInv, httpVars
<1>2. /\ TransportsTypeOK /\ HandedOnce /\ QueuedOnce /\ stdin \in Seq(Lines) /\ StreamTypeOK
      /\ writer \in Lines \cup {None}
  BY DEF PlacesInv, TransportsTypeOK, StdioTypeOK
<1>3. {Discover, Rediscover, Initialize} \subseteq Calls
  BY StdioAssumption
<1>4. ASSUME UNCHANGED <<writer, stdin>>
      PROVE  Hands' = Hands /\ HandedOnce'
  BY <1>1, <1>2, <1>4 DEF Lined, Written, HandedOnce
<1>5. ASSUME UNCHANGED <<writer, stdin>>,
             NEW c \in Calls, Ask(c) \/ Write(c) \/ Receive(c) \/ Notice(c) \/ TimeOut(c)
      PROVE  Moves
  BY <1>4, <1>5 DEF Moves, Calling
<1>6. ASSUME UNCHANGED <<writer, stdin>>, UNCHANGED <<pc, result, outgoing, carried, heard>>
      PROVE  Moves
  BY <1>4, <1>6 DEF Moves, Rests
<1>7. CASE Probe \/ Retry \/ HandshakeLegacy
  BY <1>3, <1>4, <1>5, <1>7 DEF Probe, Retry, HandshakeLegacy, PipesSame
<1>8. CASE \E c \in Calls : Use(c) \/ StdioCall(c) \/ (TimeOut(c) /\ UNCHANGED stdioVars)
  BY <1>4, <1>5, <1>8 DEF Use, StdioCall, CallStep, stdioVars
<1>9. CASE Settle \/ Refused \/ Read \/ ReadEnds \/ WriteLine \/ Chatter \/ Exit \/ Terminate \/ Abort
  BY <1>4, <1>6, <1>9 DEF Settle, Refused, PipesSame, Read, ReadEnds, WriteLine, Chatter,
     Exit, Terminate, Abort, streamVars
<1>10. ASSUME NEW c \in Calls, WriterTakes(c)
       PROVE  Moves /\ HandedOnce'
  <2>1. /\ Take(c) /\ writer = None /\ writer' = [of |-> c, meta |-> Stamped(c)]
        /\ UNCHANGED <<pc, result, carried, heard, stdin>>
    BY <1>10 DEF WriterTakes
  <2>2. writer'.of = c
    BY <2>1
  <2>3. c \notin Lined
    BY <1>1, <1>2, <2>1, TakesFirst DEF QueuedOnce
  <2>4. Hands' \subseteq Hands \cup {c}
    BY <1>1, <2>1, <2>2
  <2>5. HandedOnce'
    BY <1>1, <1>2, <2>1, <2>2, <2>3 DEF HandedOnce
  <2> QED
    BY <2>1, <2>4, <2>5 DEF Moves, Takes
<1>11. CASE WriterWrites
  <2>1. writer # None /\ writer' = None /\ UNCHANGED <<pc, result, outgoing, carried, heard>>
    BY <1>11 DEF WriterWrites
  <2>2. CASE UNCHANGED stdin
    BY <1>1, <1>2, <2>1, <2>2 DEF Moves, Rests, HandedOnce
  <2>3. CASE stdin' = Append(stdin, writer)
    <3>1. /\ Len(stdin) \in Nat /\ Len(stdin') = Len(stdin) + 1
          /\ \A i \in 1 .. Len(stdin') : \/ i = Len(stdin) + 1 /\ stdin'[i] = writer
                                         \/ i \in 1 .. Len(stdin) /\ stdin'[i] = stdin[i]
      BY <1>2, <2>1, <2>3, Longer
    <3>2. Hands' \subseteq Hands
      BY <1>1, <2>1, <3>1
    <3>3. \A i, j \in 1 .. Len(stdin') : stdin'[i].of = stdin'[j].of => i = j
      BY <1>2, <2>1, <3>1 DEF HandedOnce
    <3>4. HandedOnce'
      BY <1>1, <1>2, <2>1, <3>3 DEF HandedOnce
    <3> QED
      BY <2>1, <3>2, <3>4 DEF Moves, Rests
  <2> QED
    BY <1>11, <2>2, <2>3 DEF WriterWrites
<1>12. CASE Serve
  <2> DEFINE c == Head(stdin).of
  <2>1. /\ stdin # <<>> /\ stdin' = Tail(stdin) /\ Reaches(c)
        /\ UNCHANGED <<writer, pc, result, outgoing, heard>>
    BY <1>12 DEF Serve
  <2>2. /\ c \in Calls /\ stdin[1].of = c /\ 1 \in 1 .. Len(stdin) /\ Len(stdin) \in Nat
        /\ Len(stdin') = Len(stdin) - 1
        /\ \A i \in 1 .. Len(stdin') : i + 1 \in 1 .. Len(stdin) /\ stdin'[i] = stdin[i + 1]
    <3>1. /\ Head(stdin) \in Lines /\ Head(stdin) = stdin[1] /\ 1 \in 1 .. Len(stdin)
          /\ Len(stdin) \in Nat /\ Len(Tail(stdin)) = Len(stdin) - 1
          /\ \A i \in 1 .. Len(Tail(stdin)) : /\ i + 1 \in 1 .. Len(stdin)
                                               /\ Tail(stdin)[i] = stdin[i + 1]
      BY <1>2, <2>1, Shorter
    <3> QED
      BY <2>1, <3>1 DEF Lines
  <2>3. \A i, j \in 1 .. Len(stdin) : stdin[i].of = stdin[j].of => i = j
    BY <1>2 DEF HandedOnce
  <2>4. writer # None => writer.of # c
    BY <1>2, <2>2 DEF HandedOnce
  <2>5. \A i \in 1 .. Len(stdin') : /\ stdin'[i].of # c
                                    /\ \E j \in 1 .. Len(stdin) : stdin'[i].of = stdin[j].of
    <3> SUFFICES ASSUME NEW i \in 1 .. Len(stdin')
                 PROVE  /\ stdin'[i].of # c
                        /\ \E j \in 1 .. Len(stdin) : stdin'[i].of = stdin[j].of
      OBVIOUS
    <3>1. i + 1 \in 1 .. Len(stdin) /\ stdin'[i] = stdin[i + 1] /\ i + 1 # 1
      BY <2>2
    <3>2. stdin[i + 1].of # stdin[1].of
      BY <2>2, <2>3, <3>1
    <3> QED
      BY <2>2, <3>1, <3>2
  <2>6. c \in Hands /\ Hands' \subseteq Hands \ {c}
    <3>1. c \in Lined
      BY <1>1, <2>2
    <3>2. ASSUME NEW d \in Lined'
          PROVE  d \in Lined /\ d # c
      BY <1>1, <2>1, <2>4, <2>5, <3>2
    <3> QED
      BY <1>1, <3>1, <3>2
  <2>7. \A i, j \in 1 .. Len(stdin') : stdin'[i].of = stdin'[j].of => i = j
    <3> SUFFICES ASSUME NEW i \in 1 .. Len(stdin'), NEW j \in 1 .. Len(stdin'),
                        stdin'[i].of = stdin'[j].of
                 PROVE  i = j
      OBVIOUS
    <3>1. i + 1 = j + 1
      BY <2>2, <2>3
    <3> QED
      BY <2>2, <3>1
  <2>8. HandedOnce'
    BY <1>1, <1>2, <2>1, <2>2, <2>7 DEF HandedOnce
  <2> HIDE DEF c
  <2> QED
    BY <2>1, <2>2, <2>6, <2>8 DEF Moves, Delivers
<1> QED
  BY <1>7, <1>8, <1>9, <1>10, <1>11, <1>12 DEF StdioNext, Tasking

\* The child answers what it was written.
LEMMA StdioEvident ==
  ASSUME PlacesInv, Unused', Moves, kind = "stdio", UNCHANGED <<kind, sseVars, httpVars>>, StdioNext
  PROVE  Evident'
<1>1. /\ TransportsTypeOK /\ CallsTrue /\ Evident /\ stdout \in Seq(Message)
      /\ stdin \in Seq(Lines) /\ serving \in Message \cup {None}
  BY DEF PlacesInv, CallsTrue, TransportsTypeOK, StdioTypeOK
<1>2. /\ routed' = None /\ got' = None /\ owed' = {} /\ marked' = {}
      /\ {last', from', replay'} \subseteq {None}
      /\ \A c \in Calls : posts'[c] = "none"
  BY DEF Unused
<1>3. Vouching \subseteq Vouching' /\ \A i \in 1 .. Len(stdout) : stdout[i] \in Vouching
  BY <1>1, VouchingGrows DEF Evident, Vouching
<1>4. serving # None => serving \in Vouching
  BY <1>1 DEF Evident, Vouching
<1>5. Said(None, "push") \in Message \cap Vouching'
  BY ChannelAssumption DEF Said, Message, Word, Vouching, Vouched, Answers
<1>6. \/ incoming' = incoming
      \/ incoming # <<>> /\ incoming' = Tail(incoming)
      \/ \E m \in Vouching' : incoming' = Append(incoming, m)
  <2>1. CASE Probe \/ Retry \/ HandshakeLegacy \/ Settle \/ Refused
    BY <2>1 DEF Probe, Retry, HandshakeLegacy, Settle, Refused, Ask, streamVars
  <2>2. CASE \E c \in Calls : Use(c) \/ StdioCall(c) \/ (TimeOut(c) /\ UNCHANGED stdioVars)
    BY <2>2 DEF Use, StdioCall, CallStep, Ask, Write, Receive, Notice, TimeOut
  <2>3. CASE Read
    <3>1. stdout # <<>> /\ incoming' \in {incoming, Append(incoming, Head(stdout))}
      BY <2>3 DEF Read
    <3>2. Head(stdout) = stdout[1] /\ 1 \in 1 .. Len(stdout)
      BY <1>1, <3>1, Shorter
    <3> QED
      BY <1>3, <3>1, <3>2
  <2>4. CASE (\E c \in Calls : WriterTakes(c)) \/ WriterWrites \/ ReadEnds \/ Serve
    BY <2>4 DEF WriterTakes, WriterWrites, ReadEnds, Serve
  <2>5. CASE WriteLine \/ Chatter \/ Exit \/ Terminate \/ Abort
    BY <2>5 DEF WriteLine, Chatter, Exit, Terminate, Abort, streamVars
  <2> QED
    BY <2>1, <2>2, <2>3, <2>4, <2>5 DEF StdioNext, Tasking
<1>7. \/ UNCHANGED stdout
      \/ stdout # <<>> /\ stdout' = Tail(stdout)
      \/ \E m \in Message \cap Vouching' : stdout' = Append(stdout, m)
  <2>1. CASE WriteLine
    BY <1>1, <1>3, <1>4, <2>1 DEF WriteLine
  <2>2. CASE Chatter
    BY <1>5, <2>2 DEF Chatter
  <2>3. CASE Read \/ ReadEnds
    BY <2>3 DEF Read, ReadEnds
  <2>4. CASE Probe \/ Retry \/ HandshakeLegacy \/ Settle \/ Refused
    BY <2>4 DEF Probe, Retry, HandshakeLegacy, Settle, Refused, PipesSame
  <2>5. CASE \E c \in Calls : Use(c) \/ StdioCall(c) \/ (TimeOut(c) /\ UNCHANGED stdioVars)
    BY <2>5 DEF Use, StdioCall, stdioVars
  <2>6. CASE (\E c \in Calls : WriterTakes(c)) \/ WriterWrites \/ Serve
    BY <2>6 DEF WriterTakes, WriterWrites, Serve
  <2>7. CASE Exit \/ Terminate \/ Abort
    BY <2>7 DEF Exit, Terminate, Abort
  <2> QED
    BY <2>1, <2>2, <2>3, <2>4, <2>5, <2>6, <2>7 DEF StdioNext, Tasking
<1>8. serving' # None => serving' \in Vouching'
  <2>1. CASE Serve
    <3> DEFINE c == Head(stdin).of
    <3>1. stdin # <<>> /\ Reaches(c) /\ \E w \in Verdicts(Head(stdin)) : serving' = Said(c, w)
      BY <2>1 DEF Serve
    <3>2. Head(stdin) \in Lines /\ c \in Calls /\ c \in Lined
      <4>1. Head(stdin) \in Lines /\ Head(stdin) = stdin[1] /\ 1 \in 1 .. Len(stdin)
        BY <1>1, <3>1, Shorter
      <4> QED
        BY <4>1 DEF Lines, Lined, Written
    <3>3. c \in Hands
      BY <3>2 DEF Hands
    <3>4. carried'[c] = 1
      BY <1>1, <3>1, <3>2, <3>3 DEF CallsTrue, CallTrue, Reaches, TransportsTypeOK, StreamTypeOK
    <3>5. serving'.of = c
      BY <3>1 DEF Said
    <3>6. serving' \in Message \cup {None}
      BY StdioTypes DEF PlacesInv, StdioTypeOK
    <3> HIDE DEF c
    <3> QED
      BY <3>2, <3>4, <3>5, <3>6 DEF Vouching, Vouched
  <2>2. CASE WriteLine
    BY <2>2 DEF WriteLine
  <2>3. CASE Probe \/ Retry \/ HandshakeLegacy \/ Settle \/ Refused
    BY <1>3, <1>4, <2>3 DEF Probe, Retry, HandshakeLegacy, Settle, Refused, PipesSame
  <2>4. CASE \E c \in Calls : Use(c) \/ StdioCall(c) \/ (TimeOut(c) /\ UNCHANGED stdioVars)
    BY <1>3, <1>4, <2>4 DEF Use, StdioCall, stdioVars
  <2>5. CASE (\E c \in Calls : WriterTakes(c)) \/ WriterWrites \/ Read \/ ReadEnds
    BY <1>3, <1>4, <2>5 DEF WriterTakes, WriterWrites, Read, ReadEnds
  <2>6. CASE Chatter \/ Exit \/ Terminate \/ Abort
    BY <1>3, <1>4, <2>6 DEF Chatter, Exit, Terminate, Abort
  <2> QED
    BY <2>1, <2>2, <2>3, <2>4, <2>5, <2>6 DEF StdioNext, Tasking
<1>9. \A i \in 1 .. Len(incoming') : incoming'[i] \in Vouching'
  BY <1>1, <1>6, Brought
<1>10. \A i \in 1 .. Len(stdout') : stdout'[i] \in Vouching'
  BY <1>1, <1>3, <1>7, ChannelKeeps
<1> QED
  BY <1>2, <1>8, <1>9, <1>10 DEF Evident, Vouching

\* The era is settled by the probe alone, whose line the child has taken when it refuses.
LEMMA StdioEra ==
  ASSUME PlacesInv, kind = "stdio", UNCHANGED kind, StdioNext
  PROVE  EraSettling' /\ SpeaksTheSettledEra'
<1>1. /\ TransportsTypeOK /\ CallsTrue /\ EraSettling /\ SpeaksTheSettledEra /\ Discover \in Calls
      /\ pc \in [Calls -> {"idle", "writing", "waiting", "ended"}]
      /\ stdin \in Seq(Lines) /\ writer \in Lines \cup {None}
  BY StdioAssumption DEF PlacesInv, CallsTrue, TransportsTypeOK, StdioTypeOK, StreamTypeOK
<1>2. \A line \in Written : line \in Lines /\ line.of \in Calls /\ line.of \in Hands
  <2>1. \A i \in 1 .. Len(stdin) : stdin[i] \in Lines
    BY <1>1
  <2>2. Written \subseteq Lines
    BY <1>1, <2>1 DEF Written
  <2>3. \A line \in Lines : line.of \in Calls
    BY DEF Lines
  <2>4. \A line \in Written : line.of \in Hands
    BY DEF Lined, Hands
  <2> QED
    BY <2>2, <2>3, <2>4
<1>3. \A line \in Written : /\ pc[line.of] # "idle" /\ carried[line.of] = 0
                            /\ result[line.of] \notin Answers
  BY <1>1, <1>2 DEF CallsTrue, CallTrue
<1>4. ASSUME UNCHANGED <<writer, stdin, phase>>
      PROVE  SpeaksTheSettledEra'
  BY <1>1, <1>4 DEF SpeaksTheSettledEra, Written
<1>5. ASSUME UNCHANGED <<phase, meta>>, \A c \in Calls : pc'[c] # "idle" => pc[c] # "idle" \/ Settled
      PROVE  EraSettling'
  BY <1>1, <1>5 DEF EraSettling, Settled
<1>6. CASE Probe
  <2>1. Written = {}
    BY <1>1, <1>2, <1>3, <1>6 DEF Probe, Turn, EraSettling
  <2>2. Written' = {}
    BY <1>6, <2>1 DEF Probe, PipesSame, Written
  <2>3. EraSettling'
    BY <1>1, <1>6 DEF Probe, Turn, EraSettling, Ask
  <2> QED
    BY <2>2, <2>3 DEF SpeaksTheSettledEra
<1>7. CASE Retry
  <2>1. SpeaksTheSettledEra'
    BY <1>1, <1>7 DEF Retry, Turn, PipesSame, SpeaksTheSettledEra, Written
  <2>2. EraSettling'
    BY <1>1, <1>7 DEF Retry, Turn, EraSettling
  <2> QED
    BY <2>1, <2>2
<1>8. CASE HandshakeLegacy
  <2>1. Written = {}
    <3>1. CASE phase = "start"
      BY <1>1, <1>2, <1>3, <3>1 DEF EraSettling
    <3>2. CASE phase = "probing" /\ ProbeRefused
      <4>1. result[Discover] \in Answers
        BY <3>2 DEF ProbeRefused, Heard, Answers
      <4> QED
        BY <1>1, <1>2, <1>3, <3>2, <4>1 DEF EraSettling
    <3> QED
      BY <1>8, <3>1, <3>2 DEF HandshakeLegacy, Turn
  <2>2. Written' = {}
    BY <1>8, <2>1 DEF HandshakeLegacy, PipesSame, Written
  <2>3. EraSettling'
    BY <1>1, <1>8 DEF HandshakeLegacy, Turn, Cleared, EraSettling
  <2> QED
    BY <2>2, <2>3 DEF SpeaksTheSettledEra
<1>9. CASE Settle
  <2>1. SpeaksTheSettledEra'
    BY <1>1, <1>9 DEF Settle, Turn, PipesSame, SpeaksTheSettledEra, Written
  <2>2. EraSettling'
    BY <1>1, <1>9 DEF Settle, Turn, EraSettling
  <2> QED
    BY <2>1, <2>2
<1>10. CASE Refused
  BY <1>10 DEF Refused, Turn, SpeaksTheSettledEra, EraSettling
<1>11. ASSUME NEW c \in Calls, Use(c) \/ StdioCall(c) \/ (TimeOut(c) /\ UNCHANGED stdioVars)
       PROVE  EraSettling' /\ SpeaksTheSettledEra'
  <2>1. UNCHANGED <<writer, stdin, phase, meta>>
    BY <1>11 DEF Use, StdioCall, stdioVars
  <2>2. \A d \in Calls : pc'[d] # "idle" => pc[d] # "idle" \/ Settled
    BY <1>1, <1>11 DEF Use, StdioCall, CallStep, Ask, Write, Receive, Notice, TimeOut, Return
  <2> QED
    BY <1>4, <1>5, <2>1, <2>2
<1>12. ASSUME NEW c \in Calls, WriterTakes(c)
       PROVE  EraSettling' /\ SpeaksTheSettledEra'
  <2>1. /\ writer' = [of |-> c, meta |-> Stamped(c)] /\ UNCHANGED <<stdin, phase, meta, pc>>
    BY <1>12 DEF WriterTakes
  <2>2. \A line \in Written' : line \in Written \/ line.meta = Stamped(c)
    BY <2>1 DEF Written
  <2>3. ("modern" \in Stamped(c)) <=> meta
    BY DEF Stamped
  <2>4. SpeaksTheSettledEra'
    BY <1>1, <2>1, <2>2, <2>3 DEF SpeaksTheSettledEra, EraSettling
  <2> QED
    BY <1>5, <2>1, <2>4
<1>13. CASE WriterWrites \/ Serve
  <2>1. UNCHANGED <<phase, meta, pc>>
    BY <1>13 DEF WriterWrites, Serve
  <2>2. Written' \subseteq Written
    <3>1. CASE WriterWrites /\ stdin' = Append(stdin, writer)
      <4>1. writer # None /\ writer' = None
        BY <3>1 DEF WriterWrites
      <4>2. /\ Len(stdin) \in Nat /\ Len(stdin') = Len(stdin) + 1
            /\ \A i \in 1 .. Len(stdin') : \/ i = Len(stdin) + 1 /\ stdin'[i] = writer
                                           \/ i \in 1 .. Len(stdin) /\ stdin'[i] = stdin[i]
        BY <1>1, <3>1, <4>1, Longer
      <4>3. ASSUME NEW line \in Written'
            PROVE  line \in Written
        <5>1. PICK i \in 1 .. Len(stdin') : line = stdin'[i]
          BY <4>1 DEF Written
        <5> QED
          BY <4>1, <4>2, <5>1 DEF Written
      <4> QED
        BY <4>3
    <3>2. CASE WriterWrites /\ UNCHANGED stdin
      BY <3>2 DEF WriterWrites, Written
    <3>3. CASE Serve
      <4>1. stdin # <<>> /\ stdin' = Tail(stdin) /\ UNCHANGED writer
        BY <3>3 DEF Serve
      <4>2. \A i \in 1 .. Len(stdin') : i + 1 \in 1 .. Len(stdin) /\ stdin'[i] = stdin[i + 1]
        BY <1>1, <4>1, Shorter
      <4> QED
        BY <4>1, <4>2 DEF Written
    <3> QED
      BY <1>13, <3>1, <3>2, <3>3 DEF WriterWrites
  <2> QED
    BY <1>1, <1>5, <2>1, <2>2 DEF SpeaksTheSettledEra
<1>14. CASE Read \/ ReadEnds \/ WriteLine \/ Chatter \/ Exit \/ Terminate \/ Abort
  <2>1. UNCHANGED <<writer, stdin, phase, meta, pc>>
    BY <1>14 DEF Read, ReadEnds, WriteLine, Chatter, Exit, Terminate, Abort, streamVars
  <2> QED
    BY <1>4, <1>5, <2>1
<1> QED
  BY <1>6, <1>7, <1>8, <1>9, <1>10, <1>11, <1>12, <1>13, <1>14 DEF StdioNext, Tasking

-----------------------------------------------------------------------------
(* SSE. *)

\* Neither a call, nor a task, nor the end of the stream breaks the types.
LEMMA SseTypes ==
  ASSUME TransportsTypeOK, SseNext
  PROVE  SseTypeOK' /\ StreamTypeOK'
<1> USE DEF TransportsTypeOK
<1>1. CASE Look \/ Arm \/ Connect \/ Announce
  BY <1>1 DEF Look, Arm, Connect, Announce, streamVars, SseTypeOK, StreamTypeOK
<1>2. CASE StartTimesOut \/ StreamEnds \/ SseClose
  BY <1>2 DEF StartTimesOut, StartFails, StreamEnds, SseClose, sseVars, SseTypeOK, StreamTypeOK
<1>3. ASSUME NEW c \in Calls, SseUse(c) \/ ((CallStep(c) \/ TimeOut(c)) /\ UNCHANGED sseVars)
      PROVE  SseTypeOK' /\ StreamTypeOK'
  <2>1. StreamTypeOK' /\ UNCHANGED sseVars
    BY <1>3, CallTypes DEF SseUse, CallStep
  <2> QED
    BY <2>1 DEF sseVars, SseTypeOK
<1>4. CASE SseRoutes
  <2>1. routed \in Message /\ incoming' = Append(incoming, routed)
    BY <1>4 DEF SseRoutes, Feed, SseTypeOK
  <2>2. StreamTypeOK'
    BY <1>4, <2>1, TransportTypes DEF SseRoutes, StreamTypeOK
  <2> QED
    BY <1>4, <2>2 DEF SseRoutes, SseTypeOK
<1>5. ASSUME NEW c \in Calls, Bring(c)
      PROVE  SseTypeOK' /\ StreamTypeOK'
  <2>1. Said(c, "result") \in Message /\ incoming' = Append(incoming, Said(c, "result"))
    BY <1>5 DEF Bring, Feed, Said, Message, Word, Answers
  <2>2. StreamTypeOK'
    BY <1>5, <2>1, TransportTypes DEF Bring, StreamTypeOK
  <2> QED
    BY <1>5, <2>2 DEF Bring, SseTypeOK
<1>6. ASSUME NEW c \in Calls, SseTakes(c)
      PROVE  SseTypeOK' /\ StreamTypeOK'
  <2>1. StreamTypeOK'
    BY <1>6, TransportTypes DEF SseTakes, StreamTypeOK
  <2> QED
    BY <1>6, <2>1 DEF SseTakes, SseTypeOK
<1>7. ASSUME NEW c \in Calls, Posted(c)
      PROVE  SseTypeOK' /\ StreamTypeOK'
  <2>1. /\ Said(c, "result") \in Message /\ Said(c, "report") \in Message
        /\ Said(None, "push") \in Message
    BY DEF Said, Message, Word, Answers
  <2>2. StreamTypeOK'
    BY <1>7 DEF Posted, streamVars, StreamTypeOK
  <2> QED
    BY <1>7, <2>1, <2>2 DEF Posted, PostFails, SseTypeOK
<1>8. ASSUME NEW c \in Calls, PostArrives(c)
      PROVE  SseTypeOK' /\ StreamTypeOK'
  <2>1. StreamTypeOK'
    BY <1>8, TransportTypes DEF PostArrives, StreamTypeOK
  <2> QED
    BY <1>8, <2>1 DEF PostArrives, SseTypeOK
<1> QED
  BY <1>1, <1>2, <1>3, <1>4, <1>5, <1>6, <1>7, <1>8 DEF SseNext

\* The poster has one request at a time, which is posted once.
LEMMA SseMoves ==
  ASSUME PlacesInv, Unused', kind = "sse", UNCHANGED <<kind, stdioVars, httpVars>>, SseNext
  PROVE  Moves /\ HandedOnce'
<1>1. Hands = {post} \ {None} /\ Hands' = {post'} \ {None}
  BY DEF PlacesInv, Unused, Hands, Lined, Written
<1>2. HandedOnce'
  BY DEF Unused, HandedOnce
<1>3. CASE Look \/ Arm \/ StartTimesOut \/ Connect \/ Announce \/ StreamEnds \/ SseRoutes \/ SseClose
  <2>1. UNCHANGED <<pc, result, outgoing, carried, heard, post>>
    BY <1>3 DEF Look, Arm, StartTimesOut, Connect, Announce, StreamEnds, SseRoutes, SseClose,
       streamVars, sseVars
  <2> QED
    BY <1>1, <1>2, <2>1 DEF Moves, Rests
<1>4. ASSUME NEW c \in Calls, SseUse(c) \/ ((CallStep(c) \/ TimeOut(c)) /\ UNCHANGED sseVars)
      PROVE  Moves
  BY <1>1, <1>4 DEF SseUse, CallStep, sseVars, Moves, Calling
<1>5. ASSUME NEW c \in Calls, Bring(c)
      PROVE  Moves
  BY <1>1, <1>5 DEF Bring, Moves, Rests
<1>6. ASSUME NEW c \in Calls, SseTakes(c)
      PROVE  Moves
  <2>1. Hands' \subseteq Hands \cup {c}
    BY <1>1, <1>6 DEF SseTakes
  <2> QED
    BY <1>6, <2>1 DEF SseTakes, Moves, Takes
<1>7. ASSUME NEW c \in Calls, Posted(c)
      PROVE  Moves
  <2>1. post' \in {post, None} /\ UNCHANGED <<pc, result, outgoing, carried, heard>>
    BY <1>7 DEF Posted, PostFails, streamVars
  <2> QED
    BY <1>1, <2>1 DEF Moves, Rests
<1>8. ASSUME NEW c \in Calls, PostArrives(c)
      PROVE  Moves
  <2>1. post = c /\ post' = None /\ UNCHANGED <<pc, result, outgoing, heard>> /\ Reaches(c)
    BY <1>8 DEF PostArrives
  <2>2. c \in Hands /\ Hands' = {}
    BY <1>1, <2>1, ChannelAssumption
  <2> QED
    BY <2>1, <2>2 DEF Moves, Delivers
<1> QED
  BY <1>2, <1>3, <1>4, <1>5, <1>6, <1>7, <1>8 DEF SseNext

\* What the stream or a POST brings answers a request the peer has.
LEMMA SseEvident ==
  ASSUME PlacesInv, Unused', Moves, kind = "sse", UNCHANGED <<kind, stdioVars, httpVars>>, SseNext
  PROVE  Evident'
<1>1. /\ TransportsTypeOK /\ CallsTrue /\ Evident /\ routed \in Message \cup {None} /\ owed \subseteq Calls
      /\ carried \in [Calls -> Nat]
  BY DEF PlacesInv, CallsTrue, TransportsTypeOK, SseTypeOK, StreamTypeOK
<1>2. /\ serving' = None /\ stdout' = <<>> /\ marked' = {} /\ {last', from', replay'} \subseteq {None}
      /\ \A c \in Calls : posts'[c] = "none"
  BY DEF Unused
<1>3. Vouching \subseteq Vouching' /\ (routed # None => routed \in Vouching)
  BY <1>1, VouchingGrows DEF Evident, Vouching
<1>4. \A c \in owed : carried[c] = 1 /\ carried'[c] = 1
  BY <1>1, CarriedStays DEF Evident
<1>5. /\ Said(None, "push") \in Vouching'
      /\ \A c \in Calls : /\ Said(c, "report") \in Vouching'
                          /\ carried'[c] = 1 => Said(c, "result") \in Vouching'
  BY DEF Vouching, Vouched, Said, Message, Word, Answers
<1>6. got # None => carried'[got] = 1
  <2>1. got \in Calls \cup {None}
    BY DEF PlacesInv, TransportsTypeOK, SseTypeOK
  <2> QED
    BY <1>1, <2>1, CarriedStays DEF Evident
<1>7. ASSUME NEW c \in Calls, Posted(c)
      PROVE  /\ UNCHANGED <<incoming, owed>> /\ (routed' # None => routed' \in Vouching')
             /\ got' \in {got, None}
  <2>1. UNCHANGED <<incoming, owed>> /\ got' \in {got, None}
    BY <1>7 DEF Posted, PostFails, streamVars
  <2>2. routed' = Said(c, "report") \/ routed' = None \/ routed' = Said(None, "push")
        \/ (routed' = Said(c, "result") /\ got = c)
    BY <1>7 DEF Posted, PostFails
  <2>3. got = c => carried'[c] = 1
    BY <1>6, ChannelAssumption
  <2> QED
    BY <1>5, <2>1, <2>2, <2>3
<1>8. ASSUME NEW c \in Calls, PostArrives(c)
      PROVE  /\ UNCHANGED <<incoming, routed>> /\ got' = c
             /\ owed' \subseteq owed \cup {c} /\ carried'[c] = 1
  <2>1. c \in Hands
    BY <1>8, ChannelAssumption DEF PostArrives, Hands
  <2> QED
    BY <1>1, <1>8, <2>1 DEF PostArrives, Reaches, CallsTrue, CallTrue
<1>9. ASSUME NEW c \in Calls, Bring(c)
      PROVE  /\ UNCHANGED <<routed, got>> /\ owed' \subseteq owed
             /\ \E m \in Vouching' : incoming' = Append(incoming, m)
  <2>1. /\ UNCHANGED <<routed, got>> /\ c \in owed /\ owed' \in {owed, owed \ {c}}
        /\ incoming' = Append(incoming, Said(c, "result"))
    BY <1>9 DEF Bring, Feed
  <2>2. Said(c, "result") \in Vouching'
    BY <1>4, <1>5, <2>1
  <2> QED
    BY <2>1, <2>2
<1>10. ASSUME SseRoutes
      PROVE  /\ routed' = None /\ UNCHANGED <<owed, got>>
             /\ \E m \in Vouching' : incoming' = Append(incoming, m)
  BY <1>3, <1>10 DEF SseRoutes, Feed
<1>11. ASSUME NEW c \in Calls, SseUse(c) \/ ((CallStep(c) \/ TimeOut(c)) /\ UNCHANGED sseVars)
      PROVE  /\ UNCHANGED <<routed, owed, got>>
             /\ incoming' = incoming \/ (incoming # <<>> /\ incoming' = Tail(incoming))
  BY <1>11 DEF SseUse, CallStep, Ask, Write, Receive, Notice, TimeOut, sseVars
<1>12. ASSUME \/ Look \/ Arm \/ StartTimesOut \/ Connect \/ Announce \/ StreamEnds \/ SseClose
              \/ \E c \in Calls : SseTakes(c)
       PROVE  UNCHANGED <<incoming, routed, owed, got>>
  BY <1>12 DEF Look, Arm, StartTimesOut, Connect, Announce, StreamEnds, SseClose, SseTakes,
     streamVars, sseVars
<1>13. \/ incoming' = incoming
       \/ incoming # <<>> /\ incoming' = Tail(incoming)
       \/ \E m \in Vouching' : incoming' = Append(incoming, m)
  BY <1>7, <1>8, <1>9, <1>10, <1>11, <1>12 DEF SseNext
<1>14. routed' # None => routed' \in Vouching'
  BY <1>3, <1>7, <1>8, <1>9, <1>10, <1>11, <1>12 DEF SseNext
<1>15. \A c \in owed' : carried'[c] = 1
  BY <1>4, <1>7, <1>8, <1>9, <1>10, <1>11, <1>12 DEF SseNext
<1>16. got' # None => carried'[got'] = 1
  BY <1>7, <1>6, <1>8, <1>9, <1>10, <1>11, <1>12 DEF SseNext
<1>17. \A i \in 1 .. Len(incoming') : incoming'[i] \in Vouching'
  BY <1>1, <1>13, Brought
<1> QED
  BY <1>2, <1>14, <1>15, <1>17, <1>16 DEF Evident, Vouching

-----------------------------------------------------------------------------
(* HTTP. *)

\* Neither a message's task nor the listener breaks the types.
LEMMA HttpTypes ==
  ASSUME TransportsTypeOK, HttpNext
  PROVE  HttpTypeOK' /\ StreamTypeOK'
<1> USE DEF TransportsTypeOK
<1>1. CASE Listening
  BY <1>1 DEF Listening, Wakes, Snapshot, Asked, Leaves, GetEnds, Turns, streamVars, postVars, HttpTypeOK, StreamTypeOK
<1>2. CASE HttpClose
  BY <1>2 DEF HttpClose, hintVars, HttpTypeOK, StreamTypeOK
<1>3. CASE Replays
  <2>1. /\ Said(replay, "result") \in Message
        /\ incoming' = Append(incoming, Said(replay, "result"))
    BY <1>3 DEF Replays, postVars, Feed, Said, Message, Word, Answers, HttpTypeOK
  <2>2. StreamTypeOK'
    BY <1>3, <2>1, TransportTypes DEF Replays, postVars, StreamTypeOK
  <2> QED
    BY <1>3, <2>2 DEF Replays, postVars, HttpTypeOK
<1>4. ASSUME NEW c \in Calls,
             ((c \in Ordinary /\ Ask(c)) \/ CallStep(c) \/ TimeOut(c)) /\ UNCHANGED httpVars
      PROVE  HttpTypeOK' /\ StreamTypeOK'
  <2>1. StreamTypeOK'
    BY <1>4, CallTypes DEF CallStep
  <2> QED
    BY <1>4, <2>1 DEF httpVars, hintVars, HttpTypeOK
<1>5. ASSUME NEW c \in Calls, HttpTakes(c)
      PROVE  HttpTypeOK' /\ StreamTypeOK'
  <2>1. StreamTypeOK'
    BY <1>5, TransportTypes DEF HttpTakes, hintVars, StreamTypeOK
  <2> QED
    BY <1>5, <2>1 DEF HttpTakes, hintVars, HttpTypeOK
<1>6. ASSUME NEW c \in Calls, Spawn(c) \/ Challenged(c) \/ Mark(c) \/ StreamStops(c)
      PROVE  HttpTypeOK' /\ StreamTypeOK'
  <2>1. StreamTypeOK'
    BY <1>6 DEF Spawn, Challenged, Mark, hintVars, StreamStops, streamVars, StreamTypeOK
  <2>2. CASE Challenged(c)
    BY <2>2, <2>1 DEF Challenged, hintVars, HttpTypeOK
  <2>3. CASE Spawn(c) \/ Mark(c)
    BY <2>3, <2>1 DEF Spawn, Mark, hintVars, PostIs, HttpTypeOK
  <2>4. CASE StreamStops(c)
    BY <2>4, <2>1 DEF StreamStops, PostIs, Record, HttpTypeOK
  <2> QED
    BY <1>6, <2>2, <2>3, <2>4
<1>7. ASSUME NEW c \in Calls, HttpFails(c) \/ HttpAnswers(c) \/ Streams(c) \/ StreamAnswers(c)
      PROVE  HttpTypeOK' /\ StreamTypeOK'
  <2>1. Said(None, "push") \in Message /\ \A w \in {"result", "report"} : Said(c, w) \in Message
    BY DEF Said, Message, Word, Answers
  <2>2. incoming' = incoming \/ \E m \in Message : incoming' = Append(incoming, m)
    BY <1>7, <2>1 DEF hintVars, HttpFails, HttpAnswers, Streams, StreamAnswers, Feed
  <2>3. StreamTypeOK'
    BY <1>7, <2>2, TransportTypes DEF hintVars, HttpFails, HttpAnswers, Streams, StreamAnswers, Over, StreamTypeOK
  <2> QED
    BY <1>7, <2>3 DEF hintVars, HttpFails, HttpAnswers, Streams, StreamAnswers, Over, PostIs, HttpTypeOK
<1> QED
  BY <1>1, <1>2, <1>3, <1>4, <1>5, <1>6, <1>7 DEF HttpNext

\* A request is held by the loop, then by a task of its own, which sends it once.
LEMMA HttpMoves ==
  ASSUME PlacesInv, Unused', kind = "http", UNCHANGED <<kind, stdioVars, sseVars>>, HttpNext
  PROVE  Moves /\ HandedOnce'
<1>1. /\ \A c : c \in Hands <=> (c = held /\ c # None) \/ (c \in Calls /\ posts[c] = "sending")
      /\ \A c : c \in Hands' <=> (c = held' /\ c # None) \/ (c \in Calls /\ posts'[c] = "sending")
  BY DEF PlacesInv, Unused, Hands, Lined, Written
<1>2. /\ QueuedOnce /\ StreamTypeOK /\ posts \in [Calls -> {"none", "sending", "streaming", "over"}]
      /\ held \in Calls \cup {None} /\ (held # None => posts[held] # "sending")
  BY DEF PlacesInv, HandedOnce, TransportsTypeOK, HttpTypeOK
<1>3. HandedOnce' <=> (held' # None => posts'[held'] # "sending")
  BY DEF Unused, HandedOnce
<1>4. CASE Listening \/ Replays
  <2>1. UNCHANGED <<pc, result, outgoing, carried, heard, held, posts>>
    BY <1>4 DEF Listening, Wakes, Snapshot, Asked, Leaves, GetEnds, postVars, Replays, streamVars
  <2> QED
    BY <1>1, <1>2, <1>3, <2>1 DEF Moves, Rests
<1>5. CASE HttpClose
  BY <1>1, <1>3, <1>5 DEF HttpClose, hintVars, Moves, Rests
<1>6. ASSUME NEW c \in Calls,
             ((c \in Ordinary /\ Ask(c)) \/ CallStep(c) \/ TimeOut(c)) /\ UNCHANGED httpVars
      PROVE  Moves /\ HandedOnce'
  <2>1. UNCHANGED <<held, posts>>
    BY <1>6 DEF httpVars, hintVars
  <2>2. Hands' = Hands /\ HandedOnce'
    BY <1>1, <1>2, <1>3, <2>1
  <2> QED
    BY <1>6, <2>2 DEF CallStep, Moves, Calling
<1>7. ASSUME NEW c \in Calls, HttpTakes(c)
      PROVE  Moves /\ HandedOnce'
  <2>1. held' = c /\ Take(c) /\ UNCHANGED <<pc, result, carried, heard, posts>>
    BY <1>7 DEF HttpTakes, hintVars
  <2>2. c \notin Hands
    BY <1>2, <2>1, TakesFirst DEF QueuedOnce
  <2>3. Hands' \subseteq Hands \cup {c} /\ HandedOnce'
    BY <1>1, <1>3, <2>1, <2>2
  <2> QED
    BY <2>1, <2>3 DEF Moves, Takes
<1>8. ASSUME NEW c \in Calls, Spawn(c) \/ Challenged(c) \/ Mark(c) \/ StreamAnswers(c) \/ StreamStops(c)
      PROVE  Moves /\ HandedOnce'
  <2>1. UNCHANGED <<pc, result, outgoing, carried, heard>>
    BY <1>8 DEF Spawn, Challenged, Mark, hintVars, StreamAnswers, StreamStops, streamVars
  <2>2. Hands' \subseteq Hands /\ HandedOnce'
    <3>1. CASE Spawn(c)
      <4>1. held = c /\ held' = None /\ posts' = [posts EXCEPT ![c] = "sending"] /\ c # None
        BY <3>1, ChannelAssumption DEF Spawn, PostIs
      <4> QED
        BY <1>1, <1>2, <1>3, <4>1
    <3>2. CASE Challenged(c) \/ Mark(c) \/ StreamAnswers(c) \/ StreamStops(c)
      <4>1. held' = held /\ (posts' = posts \/ posts' = [posts EXCEPT ![c] = "over"])
        BY <3>2 DEF Challenged, Mark, hintVars, StreamAnswers, StreamStops, PostIs
      <4>2. \A d \in Calls : posts'[d] = "sending" => posts[d] = "sending"
        BY <1>2, <4>1
      <4> QED
        BY <1>1, <1>2, <1>3, <4>1, <4>2
    <3> QED
      BY <1>8, <3>1, <3>2
  <2> QED
    BY <2>1, <2>2 DEF Moves, Rests
<1>9. ASSUME NEW c \in Calls, HttpFails(c) \/ HttpAnswers(c) \/ Streams(c)
      PROVE  Moves /\ HandedOnce'
  <2>1. /\ posts[c] = "sending" /\ UNCHANGED <<pc, result, outgoing, heard, held>>
        /\ Reaches(c) \/ UNCHANGED carried
        /\ \/ posts' = [posts EXCEPT ![c] = "over"]
           \/ posts' = [posts EXCEPT ![c] = "streaming"]
    BY <1>9 DEF hintVars, HttpFails, HttpAnswers, Streams, Over, PostIs
  <2>2. posts'[c] # "sending" /\ \A d \in Calls : posts'[d] = "sending" => posts[d] = "sending"
    BY <1>2, <2>1
  <2>3. c \in Hands /\ Hands' \subseteq Hands \ {c} /\ HandedOnce'
    BY <1>1, <1>2, <1>3, <2>1, <2>2
  <2> QED
    BY <2>1, <2>3 DEF Moves, Delivers, Rests
<1> QED
  BY <1>4, <1>5, <1>6, <1>7, <1>8, <1>9 DEF HttpNext

\* What a POST, its stream or the GET stream brings answers a request the peer has.
LEMMA HttpEvident ==
  ASSUME PlacesInv, Unused', Moves, kind = "http", UNCHANGED <<kind, stdioVars, sseVars>>, HttpNext
  PROVE  Evident'
<1>1. /\ TransportsTypeOK /\ CallsTrue /\ Evident /\ marked \subseteq Calls
      /\ carried \in [Calls -> Nat]
      /\ posts \in [Calls -> {"none", "sending", "streaming", "over"}]
  BY DEF PlacesInv, CallsTrue, TransportsTypeOK, HttpTypeOK, StreamTypeOK
<1>2. serving' = None /\ stdout' = <<>> /\ owed' = {} /\ routed' = None /\ got' = None
  BY DEF Unused
<1>3. \A c \in Calls : carried[c] = 1 => carried'[c] = 1
  BY <1>1, CarriedStays
<1>4. /\ \A c \in marked : c \in Calls /\ carried[c] = 1
      /\ \A c \in Calls : posts[c] = "streaming" => carried[c] = 1
      /\ {last, from, replay} \subseteq marked \cup {None}
  BY <1>1 DEF Evident
<1>5. ASSUME NEW c \in Calls
      PROVE  /\ {Said(c, "report"), Said(None, "push")} \subseteq Vouching'
             /\ carried'[c] = 1 => Said(c, "result") \in Vouching'
  BY DEF Vouching, Vouched, Said, Message, Word, Answers
<1>6. ASSUME NEW c \in Calls, posts[c] = "sending"
      PROVE  Reaches(c) => carried'[c] = 1
  <2>1. c \in Hands
    BY <1>6 DEF Hands
  <2> QED
    BY <1>1, <2>1 DEF Reaches, CallsTrue, CallTrue
<1> DEFINE Brings == \/ incoming' = incoming
                     \/ incoming # <<>> /\ incoming' = Tail(incoming)
                     \/ \E m \in Vouching' : incoming' = Append(incoming, m)
           Posts  == \A c \in Calls : posts'[c] = "streaming" => posts[c] = "streaming" \/ carried'[c] = 1
           Marks  == /\ marked \subseteq marked'
                     /\ \A c \in marked' : c \in marked \/ (c \in Calls /\ posts[c] = "streaming")
                     /\ {last', from', replay'} \subseteq marked' \cup {None}
<1>7. ASSUME Listening
      PROVE  Brings /\ Posts /\ Marks
  <2>1. UNCHANGED <<incoming, marked, posts>>
    BY <1>7 DEF Listening, Wakes, Snapshot, Asked, Leaves, GetEnds, postVars, streamVars
  <2>2. {last', from', replay'} \subseteq {last, from, replay, None}
    BY <1>7 DEF Listening, Wakes, Snapshot, Asked, Leaves, GetEnds, postVars
  <2> QED
    BY <1>4, <2>1, <2>2
<1>8. ASSUME Replays
      PROVE  Brings /\ Posts /\ Marks
  <2>1. replay \in marked /\ incoming' = Append(incoming, Said(replay, "result"))
    BY <1>4, <1>8 DEF Replays, postVars, Feed
  <2>2. Brings
    BY <1>3, <1>4, <1>5, <2>1
  <2>3. UNCHANGED <<marked, posts, last, from>> /\ replay' = None
    BY <1>8 DEF Replays, postVars
  <2> QED
    BY <1>4, <2>2, <2>3
<1>9. ASSUME HttpClose
      PROVE  Brings /\ Posts /\ Marks
  <2>1. UNCHANGED <<incoming, marked, posts, last, from, replay>>
    BY <1>9 DEF HttpClose, hintVars
  <2> QED
    BY <1>4, <2>1
<1>10. ASSUME NEW c \in Calls,
              ((c \in Ordinary /\ Ask(c)) \/ CallStep(c) \/ TimeOut(c)) /\ UNCHANGED httpVars
       PROVE  Brings /\ Posts /\ Marks
  <2>1. Brings
    BY <1>10 DEF CallStep, Ask, Write, Receive, Notice, TimeOut
  <2>2. UNCHANGED <<marked, posts, last, from, replay>>
    BY <1>10 DEF httpVars, hintVars
  <2> QED
    BY <1>4, <2>1, <2>2
<1>11. ASSUME NEW c \in Calls, HttpTakes(c) \/ Spawn(c) \/ Challenged(c) \/ Mark(c) \/ StreamStops(c)
       PROVE  Brings /\ Posts /\ Marks
  <2>1. UNCHANGED incoming
    BY <1>11 DEF HttpTakes, hintVars, Spawn, Challenged, Mark, StreamStops, streamVars
  <2>2. Posts
    BY <1>1, <1>11 DEF HttpTakes, hintVars, Spawn, Challenged, Mark, StreamStops, PostIs
  <2>3. Marks
    BY <1>4, <1>11 DEF HttpTakes, hintVars, Spawn, Challenged, Mark, StreamStops, Record
  <2> QED
    BY <2>1, <2>2, <2>3
<1>12. ASSUME NEW c \in Calls, HttpFails(c) \/ HttpAnswers(c) \/ Streams(c)
       PROVE  Brings /\ Posts /\ Marks
  <2>1. posts[c] = "sending" /\ UNCHANGED <<marked, last, from, replay>>
    BY <1>12 DEF hintVars, HttpFails, HttpAnswers, Streams, Over
  <2>2. HttpAnswers(c) \/ Streams(c) => carried'[c] = 1
    BY <1>6, <2>1 DEF HttpAnswers, Streams
  <2>3. Brings
    <3>1. CASE HttpFails(c)
      BY <1>5, <3>1 DEF hintVars, HttpFails, Feed
    <3>2. CASE HttpAnswers(c)
      BY <1>5, <2>2, <3>2 DEF HttpAnswers, Feed
    <3>3. CASE Streams(c)
      BY <3>3 DEF Streams
    <3> QED
      BY <1>12, <3>1, <3>2, <3>3
  <2>4. Posts
    BY <1>1, <1>12, <2>2 DEF hintVars, HttpFails, HttpAnswers, Streams, Over, PostIs
  <2> QED
    BY <1>4, <2>1, <2>3, <2>4
<1>13. ASSUME NEW c \in Calls, StreamAnswers(c)
       PROVE  Brings /\ Posts /\ Marks
  <2>1. carried'[c] = 1
    BY <1>3, <1>4, <1>13 DEF hintVars, StreamAnswers
  <2>2. Brings
    BY <1>5, <1>13, <2>1 DEF hintVars, StreamAnswers, Feed
  <2>3. UNCHANGED <<marked, posts, last, from, replay>>
    BY <1>13 DEF hintVars, StreamAnswers
  <2> QED
    BY <1>4, <2>2, <2>3
<1>14. Brings /\ Posts /\ Marks
  BY <1>7, <1>8, <1>9, <1>10, <1>11, <1>12, <1>13 DEF HttpNext
<1>15. \A i \in 1 .. Len(incoming') : incoming'[i] \in Vouching'
  BY <1>1, <1>14, Brought
<1>16. \A c \in owed' \cup ({got'} \ {None}) \cup marked' \cup {d \in Calls : posts'[d] = "streaming"} : carried'[c] = 1
  BY <1>2, <1>3, <1>4, <1>14
<1> QED
  BY <1>2, <1>14, <1>15, <1>16 DEF Evident, Vouching

-----------------------------------------------------------------------------
(* Whichever transport it is. *)

\* The invariant holds when the client is made.
LEMMA PlacesInit == ClientInit => PlacesInv
<1> SUFFICES ASSUME ClientInit
             PROVE  PlacesInv
  OBVIOUS
<1>1. /\ pc = [c \in Calls |-> "idle"] /\ result = [c \in Calls |-> "none"]
      /\ outgoing = <<>> /\ incoming = <<>> /\ taking = TRUE /\ feeders = TasksOf[kind]
      /\ carried = [c \in Calls |-> 0] /\ heard = [c \in Calls |-> 0]
      /\ writer = None /\ stdin = <<>> /\ serving = None /\ stdout = <<>>
      /\ phase = "start" /\ meta = FALSE
      /\ post = None /\ got = None /\ routed = None /\ owed = {} /\ held = None
      /\ posts = [c \in Calls |-> "none"] /\ marked = {} /\ last = None /\ from = None /\ replay = None
  BY DEF ClientInit, StreamInit, StdioInit, SseInit, HttpInit
<1>2. TransportsTypeOK
  <2>1. StreamTypeOK
    <3>1. feeders \subseteq Tasks
      BY <1>1, KindsAssumption DEF ClientInit, TasksOf
    <3> QED
      BY <1>1, <3>1 DEF StreamTypeOK
  <2>2. StdioTypeOK
    <3>1. <<>> \in Seq(Lines) /\ <<>> \in Seq(Message)
      OBVIOUS
    <3>2. mode \in EraModes /\ child \in Children
      BY DEF ClientInit, StdioInit
    <3> QED
      BY <3>1, <3>2 DEF ClientInit, StdioInit, StdioTypeOK
  <2>3. SseTypeOK
    BY DEF ClientInit, SseInit, SseTypeOK
  <2>4. HttpTypeOK
    BY DEF ClientInit, HttpInit, HttpTypeOK
  <2> QED
    BY <2>1, <2>2, <2>3, <2>4 DEF ClientInit, TransportsTypeOK
<1>3. Queued = {} /\ Written = {} /\ Hands = {}
  BY <1>1 DEF Queued, Written, Lined, Hands
<1>4. \A c \in Calls : CallTrue(c)
  BY <1>1, <1>3 DEF CallTrue, Answers
<1>5. QueuedOnce /\ HandedOnce
  BY <1>1, <1>3 DEF QueuedOnce, HandedOnce
<1>6. Evident
  BY <1>1 DEF Evident
<1>7. Unused /\ EraSettling /\ SpeaksTheSettledEra
  BY <1>1, <1>3 DEF Unused, EraSettling, SpeaksTheSettledEra
<1> QED
  BY <1>2, <1>4, <1>5, <1>6, <1>7 DEF PlacesInv

\* Every step moves the requests in one of the ways above.
LEMMA StepsMove ==
  ASSUME PlacesInv, ClientNext
  PROVE  /\ TransportsTypeOK' /\ Moves /\ HandedOnce' /\ Evident'
         /\ EraSettling' /\ SpeaksTheSettledEra'
<1>1. Unused' /\ UNCHANGED kind /\ TransportsTypeOK
  BY OthersRest DEF PlacesInv, ClientNext
<1>2. CASE kind = "stdio" /\ StdioNext /\ UNCHANGED <<sseVars, httpVars>>
  <2>1. Moves /\ HandedOnce' /\ EraSettling' /\ SpeaksTheSettledEra'
    BY <1>1, <1>2, StdioMoves, StdioEra
  <2>2. Evident'
    BY <1>1, <1>2, <2>1, StdioEvident
  <2>3. TransportsTypeOK'
    BY <1>1, <1>2, StdioTypes DEF TransportsTypeOK, sseVars, httpVars, hintVars, SseTypeOK, HttpTypeOK
  <2> QED
    BY <2>1, <2>2, <2>3
<1>3. ASSUME kind # "stdio"
      PROVE  EraSettling' /\ SpeaksTheSettledEra'
  BY <1>1, <1>3 DEF Unused, EraSettling, SpeaksTheSettledEra, Written
<1>4. CASE kind = "sse" /\ SseNext /\ UNCHANGED <<stdioVars, httpVars>>
  <2>1. Moves /\ HandedOnce'
    BY <1>1, <1>4, SseMoves
  <2>2. Evident'
    BY <1>1, <1>4, <2>1, SseEvident
  <2>3. TransportsTypeOK'
    BY <1>1, <1>4, SseTypes DEF TransportsTypeOK, stdioVars, httpVars, hintVars, StdioTypeOK, HttpTypeOK
  <2> QED
    BY <1>3, <1>4, <2>1, <2>2, <2>3
<1>5. CASE kind = "http" /\ HttpNext /\ UNCHANGED <<stdioVars, sseVars>>
  <2>1. Moves /\ HandedOnce'
    BY <1>1, <1>5, HttpMoves
  <2>2. Evident'
    BY <1>1, <1>5, <2>1, HttpEvident
  <2>3. TransportsTypeOK'
    BY <1>1, <1>5, HttpTypes DEF TransportsTypeOK, stdioVars, sseVars, StdioTypeOK, SseTypeOK
  <2> QED
    BY <1>3, <1>5, <2>1, <2>2, <2>3
<1> QED
  BY <1>2, <1>4, <1>5 DEF ClientNext

\* The invariant is inductive.
LEMMA PlacesStep == PlacesInv /\ [ClientNext]_allVars => PlacesInv'
<1> SUFFICES ASSUME PlacesInv, [ClientNext]_allVars
             PROVE  PlacesInv'
  OBVIOUS
<1>1. CASE ClientNext
  <2>1. /\ TransportsTypeOK' /\ Moves /\ HandedOnce' /\ Evident'
        /\ EraSettling' /\ SpeaksTheSettledEra' /\ Unused'
    BY <1>1, StepsMove, OthersRest DEF PlacesInv
  <2>2. CallsTrue' /\ QueuedOnce'
    BY <2>1, MovesAreTrue DEF PlacesInv, CallsTrue
  <2> QED
    BY <2>1, <2>2 DEF PlacesInv, CallsTrue
<1>2. CASE UNCHANGED allVars
  <2> USE <1>2 DEF allVars, streamVars, stdioVars, sseVars, httpVars, hintVars
  <2>1. TransportsTypeOK'
    <3>1. (kind \in Kinds)' /\ StreamTypeOK' /\ StdioTypeOK'
      BY DEF PlacesInv, TransportsTypeOK, StreamTypeOK, StdioTypeOK
    <3>2. SseTypeOK' /\ HttpTypeOK'
      BY DEF PlacesInv, TransportsTypeOK, SseTypeOK, HttpTypeOK
    <3> QED
      BY <3>1, <3>2 DEF TransportsTypeOK
  <2>2. /\ Queued' = Queued /\ Hands' = Hands /\ Written' = Written
        /\ CallsTrue' /\ QueuedOnce' /\ HandedOnce'
    BY DEF PlacesInv, Queued, Written, Lined, Hands, CallsTrue, CallTrue, QueuedOnce, HandedOnce
  <2>3. Evident' /\ Unused' /\ EraSettling' /\ SpeaksTheSettledEra'
    BY <2>2 DEF PlacesInv, Evident, Vouched, Unused, EraSettling, SpeaksTheSettledEra
  <2> QED
    BY <2>1, <2>2, <2>3 DEF PlacesInv, CallsTrue
<1> QED
  BY <1>1, <1>2

-----------------------------------------------------------------------------
(* Theorems. *)

\* Each request is in one place until the peer has it, and what is said in the
\* peer's name is said of a request it has (transports/mod.rs:16-43).
THEOREM TransportsConsistent == ClientSpec => []PlacesInv
  BY PlacesInit, PlacesStep, PTL DEF ClientSpec

\* What is on its way to the child is in the dialect the peer was found to speak,
\* whichever peer it is and however the writer's task and the settling of the era
\* meet (stdio_dual.rs:82-107, stdio.rs:252-259).
THEOREM EraIsSpoken == ClientSpec => []SpeaksTheSettledEra
<1>1. PlacesInv => SpeaksTheSettledEra
  BY DEF PlacesInv
<1> QED
  BY <1>1, TransportsConsistent, PTL

\* A call that is handed an answer is handed its first, to a request the peer has.
LEMMA HearsAnAnswer ==
  ASSUME PlacesInv, NEW c \in Calls, Calling(c)
  PROVE  UNCHANGED <<carried, heard>> \/ (UNCHANGED refused => Promise!Tell(c))
<1>1. /\ CallTrue(c) /\ Evident /\ heard \in [Calls -> Nat] /\ incoming \in Seq(Message)
      /\ pc \in [Calls -> {"idle", "writing", "waiting", "ended"}]
  BY DEF PlacesInv, TransportsTypeOK, StreamTypeOK
<1>2. CASE Ask(c) \/ Write(c) \/ Notice(c) \/ TimeOut(c)
  BY <1>2 DEF Ask, Write, Notice, TimeOut
<1>3. CASE Receive(c)
  <2>1. /\ pc[c] = "waiting" /\ incoming # <<>> /\ UNCHANGED carried
        /\ \/ UNCHANGED heard
           \/ /\ Head(incoming).of = c /\ Head(incoming).word \in Answers
              /\ heard' = [heard EXCEPT ![c] = @ + 1]
    BY <1>3 DEF Receive
  <2>2. Vouched(Head(incoming))
    BY <1>1, <2>1, Shorter DEF Evident
  <2>3. heard[c] = 0
    BY <1>1, <2>1 DEF CallTrue
  <2> QED
    BY <1>1, <2>1, <2>2, <2>3 DEF Promise!Tell, Vouched
<1> QED
  BY <1>2, <1>3 DEF Calling

\* A step counts no request as turned away, unless it is the peer's refusal of one
\* it was shown and did not take.
LEMMA TurnsAway ==
  ASSUME PlacesInv, ClientNext
  PROVE  UNCHANGED refused \/ \E c \in Calls : Promise!Refuse(c)
<1>1. CASE UNCHANGED httpVars
  BY <1>1 DEF httpVars
<1>2. CASE HttpNext
  <2>1. ASSUME NEW c \in Calls, Challenged(c)
        PROVE  Promise!Refuse(c)
    <3>1. CallTrue(c) /\ c \in Hands
      BY <2>1 DEF PlacesInv, Challenged, Hands
    <3> QED
      BY <2>1, <3>1 DEF CallTrue, Challenged, streamVars, Promise!Refuse
  <2>2. CASE Listening \/ Replays \/ HttpClose
    BY <2>2 DEF Listening, Wakes, Snapshot, Asked, Leaves, GetEnds, Replays, HttpClose, postVars
  <2>3. ASSUME NEW c \in Calls, HttpTakes(c) \/ Spawn(c) \/ Mark(c) \/ StreamStops(c)
        PROVE  UNCHANGED refused
    BY <2>3 DEF HttpTakes, Spawn, Mark, StreamStops
  <2>4. ASSUME NEW c \in Calls, HttpFails(c) \/ HttpAnswers(c) \/ Streams(c) \/ StreamAnswers(c)
        PROVE  UNCHANGED refused
    BY <2>4 DEF HttpFails, HttpAnswers, Streams, StreamAnswers, Over
  <2> QED
    BY <1>2, <2>1, <2>2, <2>3, <2>4 DEF HttpNext, httpVars
<1> QED
  BY <1>1, <1>2 DEF ClientNext

\* Every transport keeps the promise of Transport: the peer takes a request at most
\* once and is shown it again only after it turned it away, and its call is handed
\* at most one answer, the answer to a request that was taken, whatever fails, is
\* lost or is abandoned (transports/mod.rs:16-43, http.rs:216-236, sse.rs:372-400).
THEOREM PromiseIsKept == ClientSpec => KeepsThePromise
<1>1. ClientInit => Promise!Init
  BY DEF ClientInit, StreamInit, HttpInit, Promise!Init, Promise!Never
<1>2. PlacesInv /\ [ClientNext]_allVars => [Promise!Next]_(Promise!promised)
  <2> SUFFICES ASSUME PlacesInv, [ClientNext]_allVars
               PROVE  [Promise!Next]_(Promise!promised)
    OBVIOUS
  <2>1. CASE UNCHANGED allVars
    BY <2>1 DEF allVars, streamVars, httpVars, Promise!promised
  <2>2. CASE \E c \in Calls : Promise!Refuse(c)
    BY <2>2 DEF Promise!Next
  <2>3. CASE ClientNext /\ UNCHANGED refused
    <3>1. CASE Rests \/ \E c \in Calls : Takes(c)
      BY <2>3, <3>1 DEF Rests, Takes, Promise!promised
    <3>2. ASSUME NEW c \in Calls, Delivers(c)
          PROVE  Promise!Give(c)
      <4>1. carried[c] = 0
        BY <3>2, DeliversOnce DEF PlacesInv, CallsTrue
      <4> QED
        BY <2>3, <3>2, <4>1 DEF Delivers, Reaches, Promise!Give
    <3>3. ASSUME NEW c \in Calls, Calling(c)
          PROVE  UNCHANGED <<carried, heard>> \/ Promise!Tell(c)
      BY <2>3, <3>3, HearsAnAnswer
    <3> QED
      BY <2>3, <3>1, <3>2, <3>3, StepsMove DEF Moves, Promise!Next, Promise!promised
  <2> QED
    BY <2>1, <2>2, <2>3, TurnsAway
<1> QED
  BY <1>1, <1>2, TransportsConsistent, PTL DEF ClientSpec, KeepsThePromise, Promise!Spec

=============================================================================
