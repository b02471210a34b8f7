------------------------------ MODULE AuthSession ------------------------------
(***************************************************************************)
(* The authorization of one connection: AuthSession::handle_response       *)
(* (auth/session.rs) and the flow under it (auth/flow.rs), as the HTTP     *)
(* transports use them.  Every request is routed by a task of its own, so  *)
(* several challenges are answered at once over one held token, one token  *)
(* store and one budget.                                                   *)
(*                                                                         *)
(* The resource server, the authorization servers, the user's browser and  *)
(* the clock are the environment.  Scopes are sets; offline_access is the  *)
(* refresh token it asks for.  A token is the index of its grant.          *)
(***************************************************************************)
EXTENDS Discovery, Integers, FiniteSets

CONSTANTS Requests, Scopes,
          Documents,    \* those that take a client id metadata document
          Endpoints,    \* those with a registration endpoint
          First,        \* the one it has at the start
          Situations,   \* worlds the model starts in
          MaxUpgrades,  \* Auth::max_scope_upgrades
          MaxUpsets     \* bound on expiries, revocations and migrations

ASSUME AuthAssumption ==
  /\ IsFiniteSet(Requests)
  /\ Documents \subseteq Issuers /\ Endpoints \subseteq Issuers
  /\ First \in Issuers
  /\ MaxUpgrades \in Nat /\ MaxUpsets \in Nat
  /\ None \notin Requests \cup Issuers \cup Nat
  /\ {"pre_registered", "document", "earlier"} \cap Requests = {}

VARIABLES
  world,    \* what does not change: see Worlds
  issuer,   \* the authorization server the resource metadata names
  grants,   \* tokens granted, in order
  fresh,    \* tokens the client's clock takes for live
  valid,    \* tokens the resource server takes
  spent,    \* refresh tokens that were used up
  upsets,
  held,     \* AuthSession::held
  upgrades, \* AuthSession::upgrades
  store,    \* the token store, of this resource, per issuer
  clients,  \* its registrations, per issuer
  pc, bearer, status, challenge, wanted, at, got, asking, line,
  prompts,  \* history: how often the user was sent to an authorization server
  refused   \* history: tokens each request was rejected with

worldVars   == <<world, issuer, grants, fresh, valid, spent, upsets>>
sessionVars == <<held, upgrades, store, clients>>
callVars    == <<bearer, status, challenge, wanted, at, got, asking, line>>
authVars    == <<worldVars, sessionVars, pc, callVars, prompts, refused>>

\* What the application, the servers and the user are like.
Worlds ==
  [overlap  : BOOLEAN,                           \* requests may be in flight together
   needs    : [Requests -> SUBSET Scopes],       \* scopes the server wants of each
   offers   : {{}, Scopes},                      \* scopes_supported of the resource
   grantor  : {"fair", "stingy", "contrary"},    \* grants what is asked; grants less;
                                                 \* or its tokens are never accepted
   rotates  : BOOLEAN,                           \* refreshing uses the refresh token up
   upsets   : 0 .. MaxUpsets,                    \* bound on Expire, Revoke and Migrate
   names    : BOOLEAN,                           \* the response carries iss, as advertised
   identity : {"pre_registered", "document", "unknown"}]

ASSUME SituationsAssumption == Situations \subseteq Worlds

Token == 1 .. Len(grants)

Clients == {"pre_registered", "document", "earlier"} \cup Requests

\* What the user is sent to a server with, and the server grants in the end.
Asking == [client : Clients, scopes : SUBSET Scopes]
Grant  == [issuer : Issuers, scopes : SUBSET Scopes, client : Clients]

\* Tokens::refresh_token is named by the grant it came with.
Stored == [token : Token, refresh : Token \cup {None}]

ASSUME NoneIsNoRecord ==
  /\ None \notin Asking
  /\ None \notin [token : Nat, refresh : Nat \cup {None}]

WorldTypeOK ==
  /\ world \in Situations /\ issuer \in Issuers
  /\ grants \in Seq(Grant)
  /\ fresh \subseteq Token /\ valid \subseteq Token /\ spent \subseteq Token
  /\ upsets \in 0 .. MaxUpsets

SessionTypeOK ==
  /\ held \in Token \cup {None} /\ upgrades \in Nat
  /\ store \in [Issuers -> Stored \cup {None}]
  /\ clients \in [Issuers -> {"earlier", None} \cup Requests]

CallTypeOK ==
  /\ bearer \in [Requests -> Token \cup {None}]
  /\ status \in [Requests -> {200, 401, 403}]
  /\ challenge \in [Requests -> SUBSET Scopes] /\ wanted \in [Requests -> SUBSET Scopes]
  /\ at \in [Requests -> [issuer : Issuers, server : Issuers] \cup {None}]
  /\ got \in [Requests -> Stored \cup {None}]
  /\ asking \in [Requests -> Asking \cup {None}]
  /\ line \in [Requests -> {"quiet", "silent"}]

Stages ==
  {"idle", "sent", "challenged", "widening", "discovering", "looking", "refreshing",
   "clearing", "registering", "applying", "waiting", "joining", "exchanging", "keeping",
   "holding", "retrying", "ended"}

AuthTypeOK ==
  /\ WorldTypeOK /\ SessionTypeOK /\ CallTypeOK
  /\ pc \in [Requests -> Stages]
  /\ prompts \in Nat /\ refused \in [Requests -> SUBSET Token]

\* The store may hold a token and a registration of an earlier process.
AuthInit ==
  /\ world \in Situations
  /\ issuer = First
  /\ held = None /\ upgrades = 0 /\ spent = {} /\ upsets = 0 /\ prompts = 0
  /\ \/ /\ grants = <<>> /\ fresh = {} /\ valid = {}
        /\ store = [i \in Issuers |-> None]
        /\ clients = [i \in Issuers |-> None]
     \/ \E s \in SUBSET Scopes, f \in SUBSET {1} :
          /\ grants = <<[issuer |-> issuer, scopes |-> s, client |-> "earlier"]>>
          /\ fresh = f /\ valid = {1}
          /\ store = [i \in Issuers |->
                        IF i = issuer THEN [token |-> 1, refresh |-> 1] ELSE None]
          /\ clients = [i \in Issuers |-> IF i = issuer THEN "earlier" ELSE None]
  /\ pc = [r \in Requests |-> "idle"]
  /\ bearer = [r \in Requests |-> None] /\ status = [r \in Requests |-> 200]
  /\ challenge = [r \in Requests |-> {}] /\ wanted = [r \in Requests |-> {}]
  /\ at = [r \in Requests |-> None] /\ got = [r \in Requests |-> None]
  /\ asking = [r \in Requests |-> None]
  /\ line = [r \in Requests |-> "quiet"]
  /\ refused = [r \in Requests |-> {}]

-----------------------------------------------------------------------------
(* A request and its challenge. *)

ScopesOf(t) == IF t = None THEN {} ELSE grants[t].scopes

Active(r) == pc[r] \notin {"idle", "ended"}

Goto(r, from, to) == pc[r] = from /\ pc' = [pc EXCEPT ![r] = to]

\* What an attempt worked with goes with it.
Forget(r) ==
  /\ status' = [status EXCEPT ![r] = 200]
  /\ challenge' = [challenge EXCEPT ![r] = {}] /\ wanted' = [wanted EXCEPT ![r] = {}]
  /\ at' = [at EXCEPT ![r] = None] /\ got' = [got EXCEPT ![r] = None]
  /\ asking' = [asking EXCEPT ![r] = None] /\ bearer' = [bearer EXCEPT ![r] = None]
  /\ line' = [line EXCEPT ![r] = "quiet"]

End(r, from) ==
  /\ Goto(r, from, "ended")
  /\ Forget(r)

\* The Authorization header is the token held when the request is written
\* (effective_headers, and the modern path's bearer()).
Send(r) ==
  /\ Goto(r, "idle", "sent") \/ Goto(r, "retrying", "sent")
  /\ world.overlap \/ \A s \in Requests \ {r} : ~Active(s)
  /\ bearer' = [bearer EXCEPT ![r] = held]
  /\ UNCHANGED <<worldVars, sessionVars, status, challenge, wanted, at, got, asking,
                 line, prompts, refused>>

Accepted(r) == bearer[r] \in valid /\ world.grantor # "contrary"

Serve(r) ==
  /\ Accepted(r) /\ world.needs[r] \subseteq ScopesOf(bearer[r])
  /\ End(r, "sent")
  /\ UNCHANGED <<worldVars, sessionVars, prompts, refused>>

\* What the WWW-Authenticate header is worth: no Bearer challenge at all, one
\* that names no error, or one with an error of its own.
Headers == {"none", "bare", "insufficient_scope", "other"}

\* challenge::parse and the first tests of handle_response: a 401 is worth an
\* attempt whatever it says, a 403 only if more scope would help.
Answerable(code, header) == code = 401 \/ (code = 403 /\ header = "insufficient_scope")

\* The scopes it names are the ones the request needs; a server that finds them
\* missing is one that took the token.
Named(r, code, header, s) ==
  /\ header = "none" => s = {}
  /\ code = 403 /\ header = "insufficient_scope" =>
       s = world.needs[r] /\ ~(s \subseteq ScopesOf(bearer[r]))

\* The response to r is an error, which the transport hands to the session.
Refuse(r, code) ==
  \E header \in Headers, s \in {{}, world.needs[r]} :
    /\ Named(r, code, header, s)
    /\ IF Answerable(code, header)
         THEN /\ Goto(r, "sent", "challenged")
              /\ challenge' = [challenge EXCEPT ![r] = s]
              /\ status' = [status EXCEPT ![r] = code]
              /\ UNCHANGED <<bearer, wanted, at, got, asking, line>>
         ELSE End(r, "sent")
    /\ UNCHANGED <<worldVars, sessionVars, prompts>>

Reject(r) ==
  /\ ~Accepted(r) /\ Refuse(r, 401)
  /\ refused' = [refused EXCEPT ![r] = @ \cup ({bearer[r]} \ {None})]

\* More scope is wanted, or something else is wrong.
Forbid(r) ==
  /\ Accepted(r)
  /\ \E code \in {403, 500} : Refuse(r, code)
  /\ UNCHANGED refused

\* Faults: a session that only counts step-ups, and one attempt too many.
CountsStepUps(r) == status[r] = 403
SpentOneLate == upgrades > MaxUpgrades

Counts(r)   == status[r] = 403 \/ held # None
BudgetSpent == upgrades >= MaxUpgrades

\* The budget; fetch_add is atomic and comes before the comparison.
Count(r) ==
  /\ IF Counts(r)
       THEN /\ upgrades' = upgrades + 1
            /\ IF BudgetSpent
                 THEN End(r, "challenged")
                 ELSE Goto(r, "challenged", "widening") /\ UNCHANGED callVars
       ELSE Goto(r, "challenged", "widening") /\ UNCHANGED <<upgrades, callVars>>
  /\ UNCHANGED <<worldVars, held, store, clients, prompts, refused>>

\* Fault: only what the challenge names.
Challenged(r) == challenge[r]

\* union_scopes of what is held and what is asked for.
Union(r) == ScopesOf(held) \cup challenge[r]

Widen(r) ==
  /\ Goto(r, "widening", "discovering")
  /\ wanted' = [wanted EXCEPT ![r] = Union(r)]
  /\ UNCHANGED <<worldVars, sessionVars, bearer, status, challenge, at, got, asking,
                 line, prompts, refused>>

-----------------------------------------------------------------------------
(* authorize(). *)

\* Nothing usable was found, or the metadata to go on with.
Discover(r) ==
  \E found \in Discoveries[issuer] :
    /\ IF found = None THEN End(r, "discovering")
       ELSE /\ Goto(r, "discovering", "looking")
            /\ at' = [at EXCEPT ![r] = found]
            /\ UNCHANGED <<bearer, status, challenge, wanted, got, asking, line>>
    /\ UNCHANGED <<worldVars, sessionVars, prompts, refused>>

\* What tokens and registrations are kept under: the issuer the metadata declares.
Key(r) == at[r].issuer

\* A token kept under it, for this resource.
Kept(r) == store[Key(r)]

Covers(r) == Kept(r) # None /\ wanted[r] \subseteq ScopesOf(Kept(r).token)

IsFresh(r) == Kept(r).token \in fresh

Useless(r) == Kept(r) # None /\ (~Covers(r) \/ (~IsFresh(r) /\ Kept(r).refresh = None))

\* Reuse it, refresh it, or drop it and start afresh.
Look(r) ==
  /\ \/ /\ Goto(r, "looking", "holding")
        /\ Covers(r) /\ IsFresh(r)
        /\ got' = [got EXCEPT ![r] = Kept(r)]
     \/ /\ Goto(r, "looking", "refreshing")
        /\ Covers(r) /\ ~IsFresh(r) /\ Kept(r).refresh # None
        /\ got' = [got EXCEPT ![r] = Kept(r)]
     \/ /\ Goto(r, "looking", "clearing")
        /\ Useless(r)
        /\ UNCHANGED got
     \/ /\ Goto(r, "looking", "registering")
        /\ Kept(r) = None
        /\ UNCHANGED got
  /\ UNCHANGED <<worldVars, sessionVars, bearer, status, challenge, wanted, at, asking,
                 line, prompts, refused>>

\* A grant of the authorization server the request is at.
Granted(r, scopes, as) ==
  LET new == Len(grants) + 1
  IN  /\ grants' = Append(grants, [issuer |-> at[r].server, scopes |-> scopes, client |-> as])
      /\ fresh' = fresh \cup {new}
      /\ valid' = IF at[r].server = issuer THEN valid \cup {new} ELSE valid

\* The scopes of a grant: those asked for, unless the server says otherwise.
MayGrant(asked) == IF world.grantor = "stingy" THEN SUBSET asked ELSE {asked}

\* post_token_request, when the token endpoint grants it.
PostTokenRequest(r, request) ==
  \E s \in MayGrant(request.scopes) : Granted(r, s, request.client)

\* The client a refresh is asked as: the stored registration comes first.
RefreshClient(r) ==
  IF clients[Key(r)] # None THEN clients[Key(r)] ELSE world.identity

\* The token endpoint takes a refresh token that is not used up, of the client it
\* was granted to.  The new token is kept with the refresh token it came with, or
\* else with the old one.
Renewed(r, old) ==
  /\ old \notin spent /\ grants[old].client = RefreshClient(r)
  /\ PostTokenRequest(r, [client |-> RefreshClient(r), scopes |-> ScopesOf(got[r].token)])
  /\ spent' = IF world.rotates THEN spent \cup {old} ELSE spent
  /\ got' = [got EXCEPT ![r] = [token   |-> Len(grants) + 1,
                                refresh |-> IF world.rotates THEN Len(grants) + 1 ELSE old]]

Refresh(r) ==
  /\ \/ /\ Goto(r, "refreshing", "keeping")
        /\ Renewed(r, got[r].refresh)
     \/ /\ Goto(r, "refreshing", "clearing")
        /\ UNCHANGED <<grants, fresh, valid, spent, got>>
  /\ UNCHANGED <<world, issuer, upsets, sessionVars, bearer, status, challenge, wanted,
                 at, asking, line, prompts, refused>>

Clear(r) ==
  /\ Goto(r, "clearing", "registering")
  /\ store' = [store EXCEPT ![Key(r)] = None]
  /\ UNCHANGED <<worldVars, held, upgrades, clients, callVars, prompts, refused>>

-----------------------------------------------------------------------------
(* run_code_flow(). *)

\* select_scopes: the challenge's, or what the resource offers, and the union.
Asked(r) == wanted[r] \cup IF challenge[r] = {} THEN world.offers ELSE {}

\* authorization_url: the user grants what it says to the client it names.
AuthorizationUrl(r, as) == [client |-> as, scopes |-> Asked(r)]

\* The user is sent there: the handler runs in a task of its own, which nothing
\* looks at before the listener's wait has failed.
Prompt(r, from, as) ==
  /\ Goto(r, from, "waiting")
  /\ asking' = [asking EXCEPT ![r] = AuthorizationUrl(r, as)]
  /\ line' = [line EXCEPT ![r] = "quiet"]
  /\ prompts' = prompts + 1
  /\ UNCHANGED <<bearer, status, challenge, wanted, at, got>>

ByDocument(r) == world.identity = "document" /\ Key(r) \in Documents
Anonymous(r)  == world.identity # "pre_registered" /\ ~ByDocument(r)

\* register(): the identities in their order of preference.
Register(r) ==
  /\ pc[r] = "registering"
  /\ \/ /\ world.identity = "pre_registered"
        /\ Prompt(r, "registering", "pre_registered")
     \/ /\ ByDocument(r)
        /\ Prompt(r, "registering", "document")
     \/ /\ Anonymous(r) /\ clients[Key(r)] # None
        /\ Prompt(r, "registering", clients[Key(r)])
     \/ /\ Anonymous(r) /\ clients[Key(r)] = None /\ Key(r) \in Endpoints
        /\ Goto(r, "registering", "applying")
        /\ UNCHANGED <<callVars, prompts>>
     \/ /\ Anonymous(r) /\ clients[Key(r)] = None /\ Key(r) \notin Endpoints
        /\ End(r, "registering")
        /\ UNCHANGED prompts
  /\ UNCHANGED <<worldVars, sessionVars, refused>>

\* dynamic_register(), and the registration kept.
Apply(r) ==
  /\ \/ /\ Prompt(r, "applying", r)
        /\ clients' = [clients EXCEPT ![Key(r)] = r]
     \/ /\ End(r, "applying")
        /\ UNCHANGED <<prompts, clients>>
  /\ UNCHANGED <<worldVars, held, upgrades, store, refused>>

\* Another connection of the browser is accepted first; it says something, or
\* closes, when it likes, and nothing else is accepted or timed meanwhile.
Preconnect(r) ==
  /\ pc[r] = "waiting" /\ line[r] = "quiet"
  /\ line' = [line EXCEPT ![r] = "silent"]
  /\ UNCHANGED <<worldVars, sessionVars, pc, bearer, status, challenge, wanted, at, got,
                 asking, prompts, refused>>

\* Closed, it is forgotten; reset, it takes the wait with it.
HangUp(r) ==
  /\ pc[r] = "waiting" /\ line[r] = "silent"
  /\ line' = [line EXCEPT ![r] = "quiet"]
  /\ \E reset \in BOOLEAN : pc' = IF reset THEN [pc EXCEPT ![r] = "joining"] ELSE pc
  /\ UNCHANGED <<worldVars, sessionVars, bearer, status, challenge, wanted, at, got,
                 asking, prompts, refused>>

\* validate_iss: advertised or not, carried or not, own or another's.
IssAccepted(iss) == iss = "own" \/ (iss = "none" /\ ~world.names)

\* Requests to the listener, with the state of this flow or of another; one that
\* carries neither a code nor an error is answered and ignored.
Redirects == [ours : BOOLEAN, iss : {"own", "other", "none"}, carries : SUBSET {"code", "error"}]
Callbacks == {c \in Redirects : c.carries # {}}

Accepts(c) == c.ours /\ IssAccepted(c.iss) /\ "error" \notin c.carries

Callback(r) ==
  /\ line[r] = "quiet"
  /\ \E accepted \in {Accepts(c) : c \in Callbacks} :
       IF accepted
         THEN Goto(r, "waiting", "exchanging") /\ UNCHANGED callVars
         ELSE End(r, "waiting")
  /\ UNCHANGED <<worldVars, sessionVars, prompts, refused>>

TimeOut(r) ==
  /\ line[r] = "quiet"
  /\ Goto(r, "waiting", "joining")
  /\ UNCHANGED <<worldVars, sessionVars, callVars, prompts, refused>>

\* The wait failed: only now is the handler awaited, for a better reason.
Join(r) ==
  /\ End(r, "joining")
  /\ UNCHANGED <<worldVars, sessionVars, prompts, refused>>

Exchange(r) ==
  /\ \/ /\ Goto(r, "exchanging", "keeping")
        /\ PostTokenRequest(r, asking[r])
        /\ \E refreshable \in BOOLEAN :
             got' = [got EXCEPT ![r] =
                          [token   |-> Len(grants) + 1,
                           refresh |-> IF refreshable THEN Len(grants) + 1 ELSE None]]
        /\ UNCHANGED <<bearer, status, challenge, wanted, at, asking, line>>
     \/ /\ End(r, "exchanging")
        /\ UNCHANGED <<grants, fresh, valid>>
  /\ UNCHANGED <<world, issuer, spent, upsets, sessionVars, prompts, refused>>

\* put_tokens under the issuer it came from.
Keep(r) ==
  /\ Goto(r, "keeping", "holding")
  /\ store' = [store EXCEPT ![Key(r)] = got[r]]
  /\ UNCHANGED <<worldVars, held, upgrades, clients, callVars, prompts, refused>>

\* The session takes the token, and the transport sends the request again.
Hold(r) ==
  /\ Goto(r, "holding", "retrying")
  /\ held' = got[r].token
  /\ Forget(r)
  /\ UNCHANGED <<worldVars, upgrades, store, clients, prompts, refused>>

-----------------------------------------------------------------------------
(* Time and the servers. *)

Upset == upsets < world.upsets /\ upsets' = upsets + 1

Expire(t) ==
  /\ t \in fresh /\ Upset
  /\ fresh' = fresh \ {t}
  /\ UNCHANGED <<world, issuer, grants, valid, spent, sessionVars, pc, callVars,
                 prompts, refused>>

Revoke(t) ==
  /\ t \in valid /\ Upset
  /\ valid' = valid \ {t}
  /\ UNCHANGED <<world, issuer, grants, fresh, spent, sessionVars, pc, callVars,
                 prompts, refused>>

Migrate(i) ==
  /\ i # issuer /\ Upset
  /\ issuer' = i
  /\ valid' = {t \in valid : grants[t].issuer = i}
  /\ UNCHANGED <<world, grants, fresh, spent, sessionVars, pc, callVars, prompts,
                 refused>>

Working(r) ==
  \/ Send(r) \/ Count(r) \/ Widen(r) \/ Discover(r) \/ Look(r) \/ Refresh(r) \/ Clear(r)
  \/ Register(r) \/ Apply(r) \/ Callback(r) \/ TimeOut(r) \/ Join(r) \/ Exchange(r)
  \/ Keep(r) \/ Hold(r)

Answering(r) == Serve(r) \/ Reject(r) \/ Forbid(r)

AuthNext ==
  \/ \E r \in Requests : Working(r) \/ Answering(r) \/ Preconnect(r) \/ HangUp(r)
  \/ \E t \in Token : Expire(t) \/ Revoke(t)
  \/ \E i \in Issuers : Migrate(i)

AuthSpec == AuthInit /\ [][AuthNext]_authVars

\* Tasks are polled, servers answer or the connection fails, a handler returns,
\* and a connection that was accepted is used or closed in the end.
AuthFairSpec ==
  /\ AuthSpec
  /\ \A r \in Requests :
       /\ WF_authVars(Working(r) \/ Answering(r) \/ HangUp(r))
       /\ SF_authVars(Callback(r) \/ TimeOut(r))

-----------------------------------------------------------------------------
(* Properties. *)

\* A step-up is never destructive: while requests follow one another and the
\* server grants what it is asked for, the session never holds less than it
\* did, whatever expires, is refreshed or moves (session.rs:115-122).
NeverNarrowed ==
  [][~world.overlap /\ world.grantor # "stingy" /\ held # None =>
       ScopesOf(held) \subseteq (ScopesOf(held))']_authVars

\* A token and its refresh token are grants of an issuer.
Home(key, kept) ==
  /\ grants[kept.token].issuer = key
  /\ kept.refresh # None => grants[kept.refresh].issuer = key

StoreHome == \A i \in Issuers : store[i] # None => Home(i, store[i])

AttemptHome(r) == pc[r] \in {"refreshing", "keeping", "holding"} => Home(Key(r), got[r])

\* Tokens stay with the authorization server that granted them: what is kept,
\* refreshed or taken for a flow of an issuer came from it, also when the
\* resource moved to another between two steps (flow.rs:106-110, session.rs:140).
TokensStayHome == StoreHome /\ \A r \in Requests : AttemptHome(r)

\* The user is not led through consent screens without end: however requests
\* overlap and servers challenge, each of them costs one and the budget the
\* rest (session.rs:101-113).
ConsentBounded == prompts <= MaxUpgrades + Cardinality(Requests)

\* A challenged request ends: retried to success, reported or failed, also when
\* the server rejects every token it is shown (http.rs:216-248).
EveryChallengeEnds == \A r \in Requests : pc[r] = "challenged" ~> pc[r] = "ended"

-----------------------------------------------------------------------------
(* The inductive invariant behind the safety properties. *)

\* An attempt has what its step needs: the metadata of one issuer once it was
\* discovered, a token once it was found or granted, and something to refresh with.
StepTrue(r) ==
  /\ pc[r] \in {"looking", "refreshing", "clearing", "registering", "applying", "waiting",
                "joining", "exchanging", "keeping", "holding"} => at[r] # None
  /\ at[r] # None => at[r].server = at[r].issuer
  /\ pc[r] \in {"refreshing", "keeping", "holding"} => got[r] # None
  /\ pc[r] = "refreshing" => got[r].refresh # None
  /\ pc[r] \in {"waiting", "exchanging"} => asking[r] # None

StepsTrue == \A r \in Requests : StepTrue(r)

AuthInv == AuthTypeOK /\ TokensStayHome /\ StepsTrue

\* Behind ConsentBounded: every prompt to come is that of an attempt which was let
\* through, of a request not yet challenged while nothing is held, or of what is
\* left of the budget.
Prospect(r) ==
  \/ pc[r] \in {"widening", "discovering", "looking", "refreshing", "clearing",
                "registering", "applying"}
  \/ held = None /\ pc[r] \in {"idle", "sent", "challenged"}

Prospects  == {r \in Requests : Prospect(r)}
BudgetLeft == IF BudgetSpent THEN 0 ELSE MaxUpgrades - upgrades

ConsentInv ==
  /\ prompts + Cardinality(Prospects) + BudgetLeft <= MaxUpgrades + Cardinality(Requests)
  /\ \A r \in Requests : pc[r] = "retrying" => held # None

\* Behind NeverNarrowed: while requests follow one another, what is held is within
\* what the attempt wants, and that within what it asks for and then gets.
InTurn == \A r, s \in Requests : Active(r) /\ Active(s) => r = s

Widened(r) ==
  /\ pc[r] \in {"discovering", "looking", "refreshing", "clearing", "registering", "applying",
                "waiting", "joining", "exchanging", "keeping", "holding"}
       => ScopesOf(held) \subseteq wanted[r]
  /\ pc[r] \in {"waiting", "exchanging"} => wanted[r] \subseteq asking[r].scopes
  /\ pc[r] \in {"refreshing", "keeping", "holding"} => wanted[r] \subseteq ScopesOf(got[r].token)

WidenedInv ==
  ~world.overlap =>
    InTurn /\ (world.grantor # "stingy" => \A r \in Requests : Widened(r))

-----------------------------------------------------------------------------
(* What a comment of the code says and the code does not do. *)

\* "so the next request re-authorizes rather than replaying a rejection"
\* (store.rs:97-99).
RejectionNotReplayed == \A r \in Requests : pc[r] = "sent" => bearer[r] \notin refused[r]

=============================================================================
