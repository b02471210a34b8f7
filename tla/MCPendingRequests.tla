-------------------------- MODULE MCPendingRequests --------------------------
(* PendingRequests on small sets.  Two questions, of one call or of two, and  *)
(* two posts: both are answered, or one is answered twice, late or wrongly.  *)
EXTENDS PendingRequests

CONSTANTS a1, a2, p1, p2, c1, c2

MCAsks  == {a1, a2}
MCPosts == {p1, p2}
MCCalls == {c1, c2}
MCIds   == -1 .. 2    \* none, the two ids issued, one never issued

=============================================================================
