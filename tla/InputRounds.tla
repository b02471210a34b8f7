------------------------------- MODULE InputRounds -------------------------------
(***************************************************************************)
(* call_with_input (client/input/driver.rs): a call is sent, and as long   *)
(* as the server asks for input, answered and sent again, a bounded number *)
(* of times.  The request itself is carried by the module that composes    *)
(* this one with a transport; here it is the pair of what a round sends.   *)
(***************************************************************************)
EXTENDS Naturals, FiniteSets

CONSTANTS
  Calls,         \* calls of the application
  Nothing,       \* no state, no input required
  Optional,      \* questions the input handler may leave unanswered
  MaxInputRounds \* MAX_INPUT_ROUNDS, 8 in the code

VARIABLES
  pc,      \* per call: "idle", "asking", "answering", "done"
  round,   \* rounds sent
  sends,   \* the answers and the state the round carries
  asked,   \* what the server's last result required, or Nothing
  handler  \* an input handler is set

roundVars == <<pc, round, sends, asked, handler>>

Plain == [answers |-> {}, state |-> Nothing]

Began(c) ==
  /\ pc[c] = "idle"
  /\ pc' = [pc EXCEPT ![c] = "asking"]
  /\ round' = [round EXCEPT ![c] = 1]
  /\ UNCHANGED <<sends, asked, handler>>

\* The call returns, with a result or an error; nothing of it stays.
Ended(c) ==
  /\ pc' = [pc EXCEPT ![c] = "done"]
  /\ round' = [round EXCEPT ![c] = 0]
  /\ sends' = [sends EXCEPT ![c] = Plain]
  /\ asked' = [asked EXCEPT ![c] = Nothing]

NeverSpent(c) == FALSE
Spent(c) == round[c] = MaxInputRounds

\* A result that requires nothing ends the call; one that requires input is
\* taken up unless it is malformed, the rounds are spent or nobody can answer.
Heard(c, result) ==
  /\ pc[c] = "asking"
  /\ IF \/ result = Nothing
        \/ result.questions = {} /\ result.state = Nothing
        \/ Spent(c) \/ ~handler
     THEN Ended(c)
     ELSE /\ pc' = [pc EXCEPT ![c] = "answering"]
          /\ asked' = [asked EXCEPT ![c] = result]
          /\ UNCHANGED <<round, sends>>
  /\ UNCHANGED handler

\* An error the server or the transport answered with, or the call's timeout.
Failed(c) ==
  /\ pc[c] = "asking"
  /\ Ended(c)
  /\ UNCHANGED handler

LeftOver(c, answers) ==
  [answers |-> answers,
   state   |-> IF asked[c].state = Nothing THEN sends[c].state ELSE asked[c].state]

\* retry_params: from the parameters the call began with, never the last
\* round's, so that neither old answers nor an old state are carried on.
Retry(c, answers) == [answers |-> answers, state |-> asked[c].state]

\* The input handler answers what it can; a question it cannot read fails the
\* call.
Answer(c) ==
  /\ pc[c] = "answering"
  /\ \/ \E omitted \in SUBSET (asked[c].questions \cap Optional) :
          /\ sends' = [sends EXCEPT ![c] = Retry(c, asked[c].questions \ omitted)]
          /\ round' = [round EXCEPT ![c] = IF @ < MaxInputRounds THEN @ + 1 ELSE @]
          /\ pc' = [pc EXCEPT ![c] = "asking"]
          /\ UNCHANGED asked
     \/ asked[c].questions # {} /\ Ended(c)
  /\ UNCHANGED handler

RoundsInit ==
  /\ pc = [c \in Calls |-> "idle"]
  /\ round = [c \in Calls |-> 0]
  /\ sends = [c \in Calls |-> Plain]
  /\ asked = [c \in Calls |-> Nothing]
  /\ handler \in BOOLEAN
=============================================================================
