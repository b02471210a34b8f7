-------------------------- MODULE MCCancellationToken --------------------------
(* One waiter and one cancellation: what they can do to each other.           *)
EXTENDS CancellationToken

CONSTANTS w1, k1

MCWaiters    == {w1}
MCCancellers == {k1}

=============================================================================
