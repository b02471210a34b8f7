----------------------------- MODULE MCListeners -----------------------------
(* Two subscriptions and two topics: every pair of filters, so that a change *)
(* can be wanted by both, by one or by neither.  Three changes let one fall  *)
(* before, between and after the two registrations.                          *)
EXTENDS Listeners, TLC

CONSTANTS s1, s2

MCSubs   == {s1, s2}
MCTopics == {"tools", "updated"}

Symmetric == Permutations(MCSubs)

=============================================================================
