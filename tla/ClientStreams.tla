----------------------------- MODULE ClientStreams -----------------------------
(***************************************************************************)
(* What every client transport is built around: two bounded channels, one  *)
(* that takes the messages of the calls and one that brings what the peer  *)
(* says (message_channel in protocol/messages/send_message.rs), and the    *)
(* calls that use them one after the other.  A call that times out leaves  *)
(* its message wherever it is.                                             *)
(***************************************************************************)
EXTENDS Naturals, Sequences, FiniteSets

CONSTANTS Calls,   \* requests of the client
          Ordinary,  \* those that are not part of settling the era
          Cap,     \* what a channel or a pipe holds (100 messages in the code)
          Tasks,   \* tasks of a transport that may hold a sender of incoming
          None

ASSUME ChannelAssumption == Cap \in Nat \ {0} /\ None \notin Calls /\ Ordinary \subseteq Calls

VARIABLES
  pc,        \* each call
  result,    \* what it returned
  outgoing,  \* the channel from the calls to the transport
  taking,    \* whether the transport still receives from it
  incoming,  \* the channel from the transport to the calls
  feeders,   \* tasks that hold a sender of it
  carried,   \* history: how often the peer got each request
  heard      \* history: how often a call was handed the peer's answer to it

streamVars == <<pc, result, outgoing, taking, incoming, feeders, carried, heard>>

Answers == {"result", "rejected", "refused"}      \* of the peer
Word    == Answers \cup {"report", "push"}        \* of the transport; of the peer unasked

Message == [of : Calls \cup {None}, word : Word]
Said(c, w) == [of |-> c, word |-> w]

StreamTypeOK ==
  /\ pc \in [Calls -> {"idle", "writing", "waiting", "ended"}]
  /\ result \in [Calls -> Word \cup {"none", "timed_out", "closed"}]
  /\ outgoing \in Seq(Calls) /\ taking \in BOOLEAN
  /\ incoming \in Seq(Message) /\ feeders \subseteq Tasks
  /\ carried \in [Calls -> Nat] /\ heard \in [Calls -> Nat]

StreamInit(tasks) ==
  /\ pc = [c \in Calls |-> "idle"]
  /\ result = [c \in Calls |-> "none"]
  /\ outgoing = <<>> /\ taking = TRUE
  /\ incoming = <<>> /\ feeders = tasks
  /\ carried = [c \in Calls |-> 0] /\ heard = [c \in Calls |-> 0]

-----------------------------------------------------------------------------
(* The pieces a transport uses. *)

Room(channel) == Len(channel) < Cap
InFlight(c)   == pc[c] \in {"writing", "waiting"}
Quiet         == \A c \in Calls : ~InFlight(c)
Heard(c, words) == pc[c] = "ended" /\ result[c] \in words

Feed(m)    == Room(incoming) /\ incoming' = Append(incoming, m)
Take(c)    == outgoing # <<>> /\ c = Head(outgoing) /\ outgoing' = Tail(outgoing)
Reaches(c) == carried' = [carried EXCEPT ![c] = @ + 1]

-----------------------------------------------------------------------------
(* A call: send_message_with_options on the transport's channels. *)

Ask(c) ==
  /\ pc[c] = "idle" /\ Quiet
  /\ pc' = [pc EXCEPT ![c] = "writing"]
  /\ UNCHANGED <<result, outgoing, taking, incoming, feeders, carried, heard>>

Return(c, how) ==
  /\ pc' = [pc EXCEPT ![c] = "ended"]
  /\ result' = [result EXCEPT ![c] = how]

\* Outside the timeout: a full channel holds the call until there is room.
Write(c) ==
  /\ pc[c] = "writing"
  /\ IF ~taking THEN Return(c, "closed") /\ UNCHANGED outgoing
                ELSE /\ Room(outgoing)
                     /\ pc' = [pc EXCEPT ![c] = "waiting"]
                     /\ outgoing' = Append(outgoing, c)
                     /\ UNCHANGED result
  /\ UNCHANGED <<taking, incoming, feeders, carried, heard>>

\* The next message: its own answer, or one it passes over.
Receive(c) ==
  /\ pc[c] = "waiting" /\ incoming # <<>>
  /\ incoming' = Tail(incoming)
  /\ LET m == Head(incoming) IN
       IF m.of = c THEN /\ Return(c, m.word)
                        /\ heard' = IF m.word \in Answers THEN [heard EXCEPT ![c] = @ + 1]
                                                          ELSE heard
                   ELSE UNCHANGED <<pc, result, heard>>
  /\ UNCHANGED <<outgoing, taking, feeders, carried>>

\* Every sender of incoming is gone.
Notice(c) ==
  /\ pc[c] = "waiting" /\ incoming = <<>> /\ feeders = {}
  /\ Return(c, "closed")
  /\ UNCHANGED <<outgoing, taking, incoming, feeders, carried, heard>>

TimeOut(c) ==
  /\ pc[c] = "waiting"
  /\ Return(c, "timed_out")
  /\ UNCHANGED <<outgoing, taking, incoming, feeders, carried, heard>>

\* A call goes on by itself once it is made.
CallStep(c) == Write(c) \/ Receive(c) \/ Notice(c)

=============================================================================
