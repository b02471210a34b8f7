------------------------------- MODULE Settling -------------------------------
(***************************************************************************)
(* Connecting over HTTP: connect_http (connect/builder.rs) settles the era *)
(* by a handshake sent through the dual-era transport (connect/settle.rs), *)
(* then tells the transport what it settled, while the tasks that routed   *)
(* the handshake's messages may still be about to record what they saw.    *)
(***************************************************************************)
EXTENDS EraRouting

CONSTANTS Discover, Initialize,  \* the two requests of the handshake
          Initialized            \* and its notification

ASSUME HandshakeAssumption == /\ {Discover, Initialize} \subseteq Requests
                              /\ Discover # Initialize
                              /\ Initialized \in Notes

VARIABLES
  stage,    \* connect_http
  session,  \* whether the transport holds a session id
  minted    \* history: whether the peer assigned one

settleVars == <<eraVars, stage, session, minted>>

Handshake == {Discover, Initialize, Initialized}

SettleTypeOK ==
  /\ EraTypeOK
  /\ stage \in {"start", "discovering", "initializing", "discovered",
                "confirmed", "modern", "legacy", "failed"}
  /\ session \in BOOLEAN /\ minted \in BOOLEAN

SettleInit ==
  /\ EraInit
  /\ stage = "start"
  /\ session = FALSE /\ minted = FALSE

-----------------------------------------------------------------------------
(* The handshake. *)

At(from, to) == stage = from /\ stage' = to

Heard(m, words) == answers[m] # <<>> /\ answers[m][1] \in words

Welcomed == Heard(Initialize, {"result"})

\* The answers settle() takes for proof of a legacy peer: every one that is
\* neither a result nor a modern error.  An error of the transport's own comes
\* as a JSON-RPC error too (process_response), so it is among them; an empty
\* result is a discover without versions, which is no profile.
TakenForLegacy == {"refusal", "blank", "local"}

Probe ==
  /\ mode # "legacy" /\ At("start", "discovering") /\ Submit(Discover)
  /\ UNCHANGED <<session, minted>>

HandshakeLegacy ==
  /\ \/ mode = "legacy" /\ At("start", "initializing")
     \/ /\ mode = "auto" /\ At("discovering", "initializing")
        /\ Heard(Discover, TakenForLegacy)
  /\ Submit(Initialize)
  /\ UNCHANGED <<session, minted>>

Discovered ==
  /\ At("discovering", "discovered") /\ Heard(Discover, {"result"})
  /\ UNCHANGED <<eraVars, session, minted>>

Confirm ==
  /\ At("initializing", "confirmed") /\ Welcomed
  /\ Submit(Initialized)
  /\ UNCHANGED <<session, minted>>

\* Fault: a handshake that waits for an answer without a limit.
GiveUpWhenTold ==
  /\ \/ /\ At("discovering", "failed")
        /\ Heard(Discover, {"rejection", "outdated"})
     \/ /\ At("initializing", "failed")
        /\ Heard(Initialize, Words \ {"result"})
  /\ UNCHANGED <<eraVars, session, minted>>

\* connect() fails: an error nothing follows from, or no answer in time.
GiveUp ==
  /\ \/ /\ At("discovering", "failed")
        /\ ~Heard(Discover, {"result"})
        /\ mode = "auto" => ~Heard(Discover, TakenForLegacy)
     \/ /\ At("initializing", "failed")
        /\ ~Welcomed
  /\ UNCHANGED <<eraVars, session, minted>>

\* DualEraHttpTransport::set_era.
Adopt(era, from) ==
  /\ At(from, era)
  /\ cache' = era
  /\ IF era = "legacy" THEN Ensure ELSE UNCHANGED opened
  /\ UNCHANGED <<fixed, pc, seen, attempt, answers, executed, session, minted>>

-----------------------------------------------------------------------------
(* The transport under it, and the traffic after it. *)

\* A peer that is not modern knows no server/discover.
Honest == Heard(Discover, {"result"}) => peer = "modern"

\* The Mcp-Session-Id header of the response to initialize, which only the
\* legacy path reads.
Minting ==
  IF ~Welcomed /\ Welcomed' /\ peer # "modern"
    THEN minted' \in BOOLEAN
         /\ session' = (minted' /\ pc[Initialize] \in {"legacy", "suspended"})
    ELSE UNCHANGED <<session, minted>>

Transport ==
  /\ Expire \/ \E m \in Messages : Step(m) \/ Resume(m)
  /\ Honest' /\ Minting
  /\ UNCHANGED stage

\* Requests follow the handshake; a peer pushes its own on the GET stream, and
\* the client answers those.
Traffic ==
  /\ stage \in {"modern", "legacy"}
  /\ \E m \in Messages \ Handshake :
       /\ m \in Replies => stage = "legacy" /\ peer # "modern"
       /\ Submit(m)
  /\ UNCHANGED <<stage, session, minted>>

SettleNext ==
  \/ Probe \/ HandshakeLegacy \/ Discovered \/ Confirm \/ GiveUp
  \/ Adopt("modern", "discovered") \/ Adopt("legacy", "confirmed")
  \/ Transport \/ Traffic

SettleSpec == SettleInit /\ [][SettleNext]_settleVars

\* The transport's fairness, and the caller of connect() is polled: it goes on
\* when it has an answer and its timer fires when it has none.
SettleFairSpec ==
  /\ SettleSpec
  /\ \A m \in Messages : WF_settleVars(Step(m) /\ Transport)
  /\ WF_settleVars(Probe) /\ WF_settleVars(HandshakeLegacy)
  /\ WF_settleVars(Discovered) /\ WF_settleVars(Confirm) /\ WF_settleVars(GiveUp)
  /\ WF_settleVars(Adopt("modern", "discovered")) /\ WF_settleVars(Adopt("legacy", "confirmed"))

-----------------------------------------------------------------------------
(* Properties. *)

\* Against a peer of one era, whatever expires or fails after the handshake and
\* whichever task records last, the transport never takes the other era than
\* the one the client settled, and a legacy client has its GET stream and the
\* session it was given (http_dual.rs:285-306, builder.rs:270-280).
SettledAgrees ==
  ~gateway =>
    /\ stage = "modern" => peer = "modern" /\ cache # "legacy"
    /\ stage = "legacy" /\ peer = "legacy" =>
         /\ cache # "modern"
         /\ opened = 1
         /\ minted => session

\* A connection is settled or refused; it does not hang on any answer, lost
\* stream or missing resumption (settle.rs:27-47).
SettlingEnds == (stage = "discovering") ~> (stage \in {"modern", "legacy", "failed"})

-----------------------------------------------------------------------------
(* The inductive invariant behind SettledAgrees. *)

\* With set_era a second writer of the cache: what it holds was shown by the peer,
\* or is what the client settled with a peer that is not modern only.
CacheTrue ==
  ~gateway => /\ cache = "modern" => peer # "legacy"
              /\ cache = "legacy" => peer = "legacy" \/ stage = "legacy"

\* What connect() has gone by: a modern stage by a discovery, a legacy one by the
\* GET stream, and a session id minted on the legacy path is kept.
StageTrue ==
  /\ Honest
  /\ stage \in {"discovered", "modern"} => Heard(Discover, {"result"})
  /\ stage = "legacy" => opened = 1
  /\ ~gateway /\ peer = "legacy" /\ minted => session

SettleInv == SettleTypeOK /\ RoutingInv /\ CacheTrue /\ StageTrue

=============================================================================
