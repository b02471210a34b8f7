----------------------------- MODULE MCEraRouting -----------------------------
(* Two requests and a reply race through one transport, against each kind of  *)
(* peer, with and without a gateway, under each mode.  What a notification    *)
(* adds is checked with the handshake, in MCSettling.                         *)
EXTENDS EraRouting

CONSTANTS r1, r2, y1

MCRequests == {r1, r2}
MCReplies  == {y1}
MCNone     == {}
MCModes    == {"auto", "modern", "legacy"}
MCPeers    == {"modern", "legacy", "lenient"}
MCGateways == {TRUE, FALSE}

=============================================================================
