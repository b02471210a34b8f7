------------------------------- MODULE Transport -------------------------------
(***************************************************************************)
(* What a transport promises the calls above it (the Transport trait and   *)
(* its streams, transports/mod.rs): the peer takes a request at most once, *)
(* and is shown it again only after it turned it away; a call is handed at *)
(* most one answer, the answer to a request that was taken.                *)
(***************************************************************************)
EXTENDS Naturals

CONSTANT Calls

VARIABLES
  turned,  \* how often the peer turned each request away
  given,   \* how often it took it
  told     \* how often its call was handed the peer's answer

promised == <<turned, given, told>>

Never == [c \in Calls |-> 0]

Init == turned = Never /\ given = Never /\ told = Never

Refuse(c) ==
  /\ given[c] = 0
  /\ turned' = [turned EXCEPT ![c] = @ + 1]
  /\ UNCHANGED <<given, told>>

Give(c) ==
  /\ given[c] = 0
  /\ given' = [given EXCEPT ![c] = 1]
  /\ UNCHANGED <<turned, told>>

Tell(c) ==
  /\ given[c] = 1 /\ told[c] = 0
  /\ told' = [told EXCEPT ![c] = 1]
  /\ UNCHANGED <<turned, given>>

Next == \E c \in Calls : Refuse(c) \/ Give(c) \/ Tell(c)

Spec == Init /\ [][Next]_promised

=============================================================================
