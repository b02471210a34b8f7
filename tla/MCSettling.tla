------------------------------ MODULE MCSettling ------------------------------
(* The handshake and one request after it, against each kind of peer.         *)
EXTENDS Settling

CONSTANTS r1

MCRequests == {Discover, Initialize, r1}
MCNotes    == {Initialized}
MCNone     == {}
MCModes    == {"auto", "modern", "legacy"}
MCPeers    == {"modern", "legacy", "lenient"}
MCDirect   == {FALSE}

=============================================================================
