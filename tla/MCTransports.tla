----------------------------- MODULE MCTransports -----------------------------
(* The handshake and two calls, the second with a progress callback.          *)
EXTENDS Transports

CONSTANTS c1, c2

MCCalls    == {Discover, Rediscover, Initialize, c1, c2}
MCOrdinary == {c1, c2}
MCTracked  == {c2}
MCTasks    == {"reader", "poster", "listener"}
MCKinds    == {"stdio", "sse", "http"}
MCModes    == {"auto", "legacy", "modern"}
MCChildren == {"modern", "dated", "foreign", "legacy"}
MCSpoken   == <<"2026-07-28", "2025-11-25">>
MCLists    == [modern |-> {"2026-07-28"}, dated |-> {"2025-11-25"},
               foreign |-> {"2031-01-01"}, legacy |-> {}]

=============================================================================
