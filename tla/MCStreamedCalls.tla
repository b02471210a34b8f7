--------------------------- MODULE MCStreamedCalls ---------------------------
(* StreamedCalls on small sets: one call with two questions, each its         *)
(* handler's or its helper's, one notification and one post.  What two calls *)
(* share is the table of questions, which MCPendingRequests covers.           *)
EXTENDS StreamedCalls

CONSTANTS a1, a2, p1, c1

MCAsks   == {a1, a2}
MCAsk    == {a1}
MCPost   == {p1}
MCCall   == {c1}
MCIds    == -1 .. 1

=============================================================================
