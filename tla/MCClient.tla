-------------------------------- MODULE MCClient --------------------------------
(* A tool call, perhaps asked for input, another operation or a call on the   *)
(* raw streams, and close(); one pushed request and one cancellation.         *)
EXTENDS Client

CONSTANTS o1, o2, o3, q1, k1

MCOps        == {o1, o2, o3}
MCCallers    == {<<o1, 1>>, <<o1, 2>>, <<o2, 1>>}
MCPushes     == {q1}
MCCancellers == {k1}

MCMixes ==
  {[o \in MCOps |-> IF o = o1 THEN "call" ELSE IF o = o2 THEN k ELSE "close"] :
     k \in {"list", "ping", "send"}}

=============================================================================
