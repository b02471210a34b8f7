--------------------------- MODULE CancellationToken ---------------------------
(***************************************************************************)
(* The token that cancels a request                                        *)
(* (protocol/messages/send_message.rs): an atomic flag and a tokio Notify. *)
(* Waiters and cancellers run on different threads, so a step here is one  *)
(* access to the flag or to the Notify.                                    *)
(***************************************************************************)
CONSTANTS Waiters,    \* calls of cancelled()
          Cancellers  \* calls of cancel()

VARIABLES
  cancelled,  \* CancellationInner::cancelled
  wpc,        \* each waiter: before its next look at the flag, between the
              \* look and the Notify, or asleep on the Notify
  cpc         \* each canceller

tokenVars == <<cancelled, wpc, cpc>>

TokenTypeOK ==
  /\ cancelled \in BOOLEAN
  /\ wpc \in [Waiters -> {"idle", "looking", "turning", "asleep", "resolved"}]
  /\ cpc \in [Cancellers -> {"idle", "stored", "done"}]

TokenInit ==
  /\ cancelled = FALSE
  /\ wpc = [w \in Waiters |-> "idle"]
  /\ cpc = [k \in Cancellers |-> "idle"]

Await(w) ==
  /\ wpc[w] = "idle"
  /\ wpc' = [wpc EXCEPT ![w] = "looking"]
  /\ UNCHANGED <<cancelled, cpc>>

\* while !self.is_cancelled()
Look(w) ==
  /\ wpc[w] = "looking"
  /\ wpc' = [wpc EXCEPT ![w] = IF cancelled THEN "resolved" ELSE "turning"]
  /\ UNCHANGED <<cancelled, cpc>>

\* notified() makes the future; notify_waiters reaches those made before it.
Sleep(w) ==
  /\ wpc[w] = "turning"
  /\ wpc' = [wpc EXCEPT ![w] = "asleep"]
  /\ UNCHANGED <<cancelled, cpc>>

Store(k) ==
  /\ cpc[k] = "idle"
  /\ cancelled' = TRUE
  /\ cpc' = [cpc EXCEPT ![k] = "stored"]
  /\ UNCHANGED wpc

\* notify_waiters leaves no permit behind for one that sleeps later.
NotifyWaiters(k) ==
  /\ cpc[k] = "stored"
  /\ wpc' = [w \in Waiters |-> IF wpc[w] = "asleep" THEN "looking" ELSE wpc[w]]
  /\ cpc' = [cpc EXCEPT ![k] = "done"]
  /\ UNCHANGED cancelled

TokenNext ==
  \/ \E w \in Waiters : Await(w) \/ Look(w) \/ Sleep(w)
  \/ \E k \in Cancellers : Store(k) \/ NotifyWaiters(k)

TokenSpec == TokenInit /\ [][TokenNext]_tokenVars

\* Tasks are polled and a cancel() that began goes on.
TokenFairSpec ==
  /\ TokenSpec
  /\ \A w \in Waiters : WF_tokenVars(Look(w)) /\ WF_tokenVars(Sleep(w))
  /\ \A k \in Cancellers : WF_tokenVars(NotifyWaiters(k))

-----------------------------------------------------------------------------
(* Properties. *)

\* send_message.rs:63: "Resolve when the token is cancelled."
CancelledResolves ==
  \A w \in Waiters : (cancelled /\ wpc[w] # "idle") ~> wpc[w] = "resolved"

=============================================================================
