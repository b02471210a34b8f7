---------------------------- MODULE ClientQuestions ----------------------------
(***************************************************************************)
(* The promise of a server that asks its client questions: each question   *)
(* has a number nobody else has and ends once, either with the answer of   *)
(* one post that names its number or with none, and no post answers more   *)
(* than one question.  Tables, locks, channels and timers do not appear.   *)
(***************************************************************************)
EXTENDS Integers

CONSTANTS Asks, Posts, None

VARIABLES
  stage,    \* [Asks -> {"idle", "open", "ended"}]
  number,   \* [Asks -> Int]: -1 until the question is open
  verdict,  \* [Asks -> Posts \cup {None}]: the post that answered it
  names     \* [Posts -> Int]: the number a post names, -1 before it arrives

vars == <<stage, number, verdict, names>>

Init ==
  /\ stage = [a \in Asks |-> "idle"]
  /\ number = [a \in Asks |-> -1]
  /\ verdict = [a \in Asks |-> None]
  /\ names = [p \in Posts |-> -1]

Open(a) ==
  /\ stage[a] = "idle"
  /\ number'[a] \in Nat \ {number[b] : b \in Asks}
  /\ number' = [number EXCEPT ![a] = number'[a]]
  /\ stage' = [stage EXCEPT ![a] = "open"]
  /\ UNCHANGED <<verdict, names>>

\* A post arrives, naming a number or none; what it says is fixed from here on.
Arrive(p) ==
  /\ names[p] = -1
  /\ names'[p] \in Nat
  /\ names' = [names EXCEPT ![p] = names'[p]]
  /\ UNCHANGED <<stage, number, verdict>>

Answer(a, p) ==
  /\ stage[a] = "open"
  /\ names[p] = number[a]
  /\ \A b \in Asks : verdict[b] # p
  /\ stage' = [stage EXCEPT ![a] = "ended"]
  /\ verdict' = [verdict EXCEPT ![a] = p]
  /\ UNCHANGED <<number, names>>

GiveUp(a) ==
  /\ stage[a] = "open"
  /\ stage' = [stage EXCEPT ![a] = "ended"]
  /\ UNCHANGED <<number, verdict, names>>

Next ==
  \/ \E a \in Asks : Open(a) \/ GiveUp(a) \/ \E p \in Posts : Answer(a, p)
  \/ \E p \in Posts : Arrive(p)

Spec == Init /\ [][Next]_vars

=============================================================================
