--------------------------- MODULE AuthSession_proofs ---------------------------
(***************************************************************************)
(* Proofs about AuthSession, for any requests, scopes and issuers, any     *)
(* webs, and any number of expiries, revocations and migrations.           *)
(***************************************************************************)
EXTENDS AuthSession, FiniteSetTheorems, TLAPS

\* Metadata to go on with: of one issuer, which publishes it.
Metadata == [issuer : Issuers, server : Issuers]

-----------------------------------------------------------------------------
(* Discovery. *)

\* What is served first is served somewhere among the few candidates.
LEMMA FirstIsServed ==
  ASSUME NEW documents, NEW candidates, DOMAIN candidates \subseteq 1 .. 3
  PROVE  \/ FirstServed(documents, candidates) = None
         \/ \E k \in DOMAIN candidates :
              /\ candidates[k] \in DOMAIN documents
              /\ FirstServed(documents, candidates) = documents[candidates[k]]
<1> DEFINE served == {k \in DOMAIN candidates : candidates[k] \in DOMAIN documents}
<1>1. CASE served = {}
  BY <1>1 DEF FirstServed
<1>2. CASE served # {}
  <2>1. \E k \in served : \A n \in served : k <= n
    <3>1. served \subseteq 1 .. 3 /\ (1 \in served \/ 2 \in served \/ 3 \in served)
      BY <1>2
    <3>2. CASE 1 \in served
      BY <3>1, <3>2
    <3>3. CASE 1 \notin served /\ 2 \in served
      BY <3>1, <3>3
    <3>4. CASE 1 \notin served /\ 2 \notin served
      BY <3>1, <3>4
    <3> QED
      BY <3>2, <3>3, <3>4
  <2> DEFINE first == CHOOSE k \in served : \A n \in served : k <= n
  <2>2. first \in served
    BY <2>1
  <2>3. FirstServed(documents, candidates) = documents[candidates[first]]
    BY <1>2 DEF FirstServed
  <2> QED
    BY <2>2, <2>3
<1> QED
  BY <1>1, <1>2

\* There are two or three places to look for the metadata of an issuer.
LEMMA ServerPlaces ==
  ASSUME NEW url
  PROVE  DOMAIN ServerCandidates(url) \subseteq 1 .. 3
<1> DEFINE a == Inserted(url, "oauth-authorization-server")
           b == Inserted(url, "openid-configuration")
           c == Appended(url, "openid-configuration")
           S == {a, b, c}
<1>1. <<a, b>> \in Seq(S) /\ <<c>> \in Seq(S) /\ <<>> \in Seq(S)
  OBVIOUS
<1>2. ServerCandidates(url) = <<a, b>> \o (IF url.path = <<>> THEN <<>> ELSE <<c>>)
  BY DEF ServerCandidates
<1> HIDE DEF a, b, c
<1>3. ServerCandidates(url) \in Seq(S) /\ Len(ServerCandidates(url)) <= 3
  BY <1>1, <1>2
<1> QED
  BY <1>3

\* There are one or two places to look for the metadata of the resource.
LEMMA ResourcePlaces == DOMAIN ResourceCandidates \subseteq 1 .. 3
<1> DEFINE a == Inserted(Server, "oauth-protected-resource")
           b == AtRoot(Server, "oauth-protected-resource")
           S == {a, b}
<1>1. <<a>> \in Seq(S) /\ <<b>> \in Seq(S) /\ <<>> \in Seq(S)
  OBVIOUS
<1>2. ResourceCandidates = (IF Server.path = <<>> THEN <<>> ELSE <<a>>) \o <<b>>
  BY DEF ResourceCandidates
<1> HIDE DEF a, b
<1>3. ResourceCandidates \in Seq(S) /\ Len(ResourceCandidates) <= 3
  BY <1>1, <1>2
<1> QED
  BY <1>3

\* Whatever is published, discovery ends with the metadata an issuer publishes of
\* itself, or with none.
LEMMA DiscoveryIsHome ==
  ASSUME NEW i \in Issuers, NEW found \in Discoveries[i]
  PROVE  found = None \/ (found \in Metadata /\ found.server = found.issuer)
<1>1. PICK web \in Webs[i], hint \in Hinted : found = Discovered(web, hint)
  BY DEF Discoveries
<1> DEFINE resource == ResourceMetadata(web, hint)
           named == Head(resource.servers)
<1> SUFFICES ASSUME found # None
             PROVE  found \in Metadata /\ found.server = found.issuer
  OBVIOUS
<1>2. /\ resource # None /\ resource.servers # <<>>
      /\ found = ServerMetadata(web, named)
  BY <1>1 DEF Discovered
<1>3. named \in Issuers
  <2>1. DOMAIN (IF hint = None THEN ResourceCandidates ELSE <<hint>>) \subseteq 1 .. 3
    BY ResourcePlaces
  <2>2. PICK u \in DOMAIN web.resources : resource = web.resources[u]
    BY <1>2, <2>1, FirstIsServed DEF ResourceMetadata
  <2>3. resource.servers \in Seq(Issuers)
    BY <2>2, WebsAssumption
  <2> QED
    BY <1>2, <2>3
<1> DEFINE first == FirstServed(web.issuers, ServerCandidates(UrlOf[named]))
<1>4. first # None /\ found = first /\ first.issuer = named
  BY <1>2 DEF ServerMetadata, IssuerMatches
<1>5. PICK k \in DOMAIN ServerCandidates(UrlOf[named]) :
        /\ ServerCandidates(UrlOf[named])[k] \in DOMAIN web.issuers
        /\ first = web.issuers[ServerCandidates(UrlOf[named])[k]]
  BY <1>4, ServerPlaces, FirstIsServed
<1>6. ServerCandidates(UrlOf[named])[k] \in Range(ServerCandidates(UrlOf[named]))
  BY DEF Range
<1>7. first \in Metadata /\ first.server = named
  BY <1>3, <1>5, <1>6, WebsAssumption DEF Metadata
<1> QED
  BY <1>4, <1>7

-----------------------------------------------------------------------------
(* Sums. *)

\* Three numbers that only pass units on, or lose them, stay under their bound.
LEMMA SumsStand ==
  \A p, n, b, q, m, c, bound \in Nat :
    /\ p + n + b <= bound
    /\ \/ q = p /\ m <= n /\ c <= b
       \/ q = p + 1 /\ m + 1 <= n /\ c <= b
       \/ q = p /\ m <= n + 1 /\ c + 1 = b
    => q + m + c <= bound
  OBVIOUS

\* The budget is a number that counting makes smaller until it is spent.
LEMMA BudgetShrinks ==
  ASSUME upgrades \in Nat, upgrades' \in {upgrades, upgrades + 1}
  PROVE  /\ BudgetLeft \in Nat /\ BudgetLeft' \in Nat /\ BudgetLeft' <= BudgetLeft
         /\ upgrades' = upgrades + 1 /\ ~BudgetSpent => BudgetLeft' + 1 = BudgetLeft
<1>1. MaxUpgrades \in Nat
  BY AuthAssumption
<1>2. /\ BudgetSpent <=> upgrades >= MaxUpgrades
      /\ BudgetLeft = IF BudgetSpent THEN 0 ELSE MaxUpgrades - upgrades
      /\ BudgetLeft' = IF upgrades' >= MaxUpgrades THEN 0 ELSE MaxUpgrades - upgrades'
  BY DEF BudgetLeft, BudgetSpent
<1>3. CASE upgrades' = upgrades
  BY <1>1, <1>2, <1>3
<1>4. CASE upgrades' = upgrades + 1
  BY <1>1, <1>2, <1>4
<1> QED
  BY <1>3, <1>4

-----------------------------------------------------------------------------
(* Types. *)

USE AuthAssumption, SituationsAssumption, NoneIsNoRecord DEF Stages

\* The initial state is well typed, with or without a store of an earlier process.
LEMMA InitTypes == AuthInit => AuthTypeOK
<1> SUFFICES ASSUME AuthInit PROVE AuthTypeOK
  OBVIOUS
<1>1. WorldTypeOK /\ store \in [Issuers -> Stored \cup {None}]
  <2>1. CASE grants = <<>> /\ fresh = {} /\ valid = {} /\ store = [i \in Issuers |-> None]
    BY <2>1 DEF AuthInit, WorldTypeOK
  <2>2. CASE \E s \in SUBSET Scopes, f \in SUBSET {1} :
               /\ grants = <<[issuer |-> issuer, scopes |-> s, client |-> "earlier"]>>
               /\ fresh = f /\ valid = {1}
               /\ store = [i \in Issuers |->
                             IF i = issuer THEN [token |-> 1, refresh |-> 1] ELSE None]
    <3>1. grants \in Seq(Grant) /\ Len(grants) = 1
      BY <2>2 DEF AuthInit, Grant, Clients
    <3>2. Token = {1}
      BY <3>1 DEF Token
    <3> QED
      BY <2>2, <3>1, <3>2 DEF AuthInit, WorldTypeOK, Stored
  <2> QED
    BY <2>1, <2>2 DEF AuthInit
<1>2. SessionTypeOK
  BY <1>1 DEF AuthInit, SessionTypeOK
<1>3. CallTypeOK
  BY DEF AuthInit, CallTypeOK
<1> QED
  BY <1>1, <1>2, <1>3 DEF AuthInit, AuthTypeOK

\* Tokens are only ever added.
LEMMA TokensStay ==
  ASSUME AuthTypeOK, UNCHANGED grants \/ \E g \in Grant : grants' = Append(grants, g)
  PROVE  /\ grants' \in Seq(Grant) /\ Token \subseteq Token'
         /\ Stored \subseteq Stored'
         /\ \A t \in Token : grants'[t] = grants[t]
<1>1. grants \in Seq(Grant)
  BY DEF AuthTypeOK, WorldTypeOK
<1>2. grants' \in Seq(Grant) /\ Len(grants) <= Len(grants')
  BY <1>1
<1>3. Token \subseteq Token'
  BY <1>1, <1>2 DEF Token
<1>4. \A t \in Token : grants'[t] = grants[t]
  BY <1>1 DEF Token
<1> QED
  BY <1>2, <1>3, <1>4 DEF Stored

\* Forgetting an attempt leaves what is known of calls well typed.
LEMMA ForgetTypes ==
  ASSUME AuthTypeOK, NEW r \in Requests, Forget(r), UNCHANGED grants
  PROVE  CallTypeOK'
  BY DEF AuthTypeOK, CallTypeOK, Forget, Token, Stored

\* Sending with the token held.
LEMMA SendTypes ==
  ASSUME AuthTypeOK, NEW r \in Requests, Send(r)
  PROVE  AuthTypeOK'
<1> USE DEF Send, worldVars, sessionVars
<1>1. WorldTypeOK' /\ SessionTypeOK'
  BY DEF AuthTypeOK, WorldTypeOK, SessionTypeOK, Token, Stored
<1>2. CallTypeOK'
  BY DEF AuthTypeOK, CallTypeOK, SessionTypeOK, Token, Stored
<1> QED
  BY <1>1, <1>2 DEF AuthTypeOK, Goto, Token

\* A request that is served ends.
LEMMA ServeTypes ==
  ASSUME AuthTypeOK, NEW r \in Requests, Serve(r)
  PROVE  AuthTypeOK'
<1> USE DEF Serve, End, worldVars, sessionVars
<1>1. WorldTypeOK' /\ SessionTypeOK'
  BY DEF AuthTypeOK, WorldTypeOK, SessionTypeOK, Token, Stored
<1>2. CallTypeOK'
  BY ForgetTypes
<1> QED
  BY <1>1, <1>2 DEF AuthTypeOK, Goto, Token

\* What all types of a step follow from that leaves the world and the session alone.
LEMMA QuietTypes ==
  ASSUME AuthTypeOK, UNCHANGED <<worldVars, sessionVars>>
  PROVE  WorldTypeOK' /\ SessionTypeOK' /\ Token' = Token /\ Stored' = Stored
  BY DEF AuthTypeOK, WorldTypeOK, SessionTypeOK, worldVars, sessionVars, Token, Stored

\* What a request needs, and a resource offers, are scopes.
LEMMA NeedsAreScopes ==
  ASSUME AuthTypeOK, NEW r \in Requests
  PROVE  world.needs[r] \subseteq Scopes /\ world.offers \subseteq Scopes
<1>1. world \in Worlds
  BY DEF AuthTypeOK, WorldTypeOK
<1>2. world.needs \in [Requests -> SUBSET Scopes] /\ world.offers \in {{}, Scopes}
  BY <1>1 DEF Worlds
<1> QED
  BY <1>2

\* The scopes of a token, or of none, are scopes.
LEMMA ScopesAreScopes ==
  ASSUME AuthTypeOK, NEW t \in Token \cup {None}
  PROVE  ScopesOf(t) \subseteq Scopes
<1>1. CASE t = None
  BY <1>1 DEF ScopesOf
<1>2. CASE t # None
  <2>1. grants \in Seq(Grant) /\ t \in 1 .. Len(grants)
    BY <1>2 DEF AuthTypeOK, WorldTypeOK, Token
  <2>2. grants[t] \in Grant
    BY <2>1
  <2> QED
    BY <1>2, <2>2 DEF ScopesOf, Grant
<1> QED
  BY <1>1, <1>2

\* A refusal is a challenge or the end of the request.
LEMMA RefuseTypes ==
  ASSUME AuthTypeOK, NEW r \in Requests, NEW code \in {401, 403, 500}, Refuse(r, code)
  PROVE  /\ UNCHANGED <<worldVars, sessionVars, prompts>> /\ CallTypeOK'
         /\ pc' = [pc EXCEPT ![r] = "challenged"] \/ pc' = [pc EXCEPT ![r] = "ended"]
<1>1. PICK header \in Headers, s \in {{}, world.needs[r]} :
        /\ IF Answerable(code, header)
             THEN /\ Goto(r, "sent", "challenged")
                  /\ challenge' = [challenge EXCEPT ![r] = s]
                  /\ status' = [status EXCEPT ![r] = code]
                  /\ UNCHANGED <<bearer, wanted, at, got, asking, line>>
             ELSE End(r, "sent")
        /\ UNCHANGED <<worldVars, sessionVars, prompts>>
  BY DEF Refuse
<1>2. UNCHANGED grants
  BY <1>1 DEF worldVars
<1>3. CASE Answerable(code, header)
  <2>1. s \subseteq Scopes /\ code \in {401, 403}
    BY <1>3, NeedsAreScopes DEF Answerable
  <2>2. challenge' \in [Requests -> SUBSET Scopes] /\ status' \in [Requests -> {200, 401, 403}]
    BY <1>1, <1>3, <2>1 DEF AuthTypeOK, CallTypeOK
  <2>3. UNCHANGED <<bearer, wanted, at, got, asking, line>> /\ Token' = Token /\ Stored' = Stored
    BY <1>1, <1>3, QuietTypes
  <2>4. CallTypeOK'
    BY <2>2, <2>3 DEF AuthTypeOK, CallTypeOK
  <2> QED
    BY <1>1, <1>3, <2>4 DEF Goto
<1>4. CASE ~Answerable(code, header)
  BY <1>1, <1>2, <1>4, ForgetTypes DEF End, Goto
<1> QED
  BY <1>1, <1>3, <1>4

\* A rejected request remembers the token it was rejected with.
LEMMA RejectTypes ==
  ASSUME AuthTypeOK, NEW r \in Requests, Reject(r)
  PROVE  AuthTypeOK'
<1>1. /\ UNCHANGED <<worldVars, sessionVars, prompts>> /\ CallTypeOK'
      /\ pc' = [pc EXCEPT ![r] = "challenged"] \/ pc' = [pc EXCEPT ![r] = "ended"]
  BY RefuseTypes DEF Reject
<1>2. WorldTypeOK' /\ SessionTypeOK' /\ Token' = Token
  BY <1>1, QuietTypes
<1>3. refused' \in [Requests -> SUBSET Token]
  BY DEF Reject, AuthTypeOK, CallTypeOK
<1> QED
  BY <1>1, <1>2, <1>3 DEF AuthTypeOK

\* A forbidden request is challenged, or ends.
LEMMA ForbidTypes ==
  ASSUME AuthTypeOK, NEW r \in Requests, Forbid(r)
  PROVE  AuthTypeOK'
<1>1. /\ UNCHANGED <<worldVars, sessionVars, prompts, refused>> /\ CallTypeOK'
      /\ pc' = [pc EXCEPT ![r] = "challenged"] \/ pc' = [pc EXCEPT ![r] = "ended"]
  BY RefuseTypes DEF Forbid
<1>2. WorldTypeOK' /\ SessionTypeOK' /\ Token' = Token
  BY <1>1, QuietTypes
<1> QED
  BY <1>1, <1>2 DEF AuthTypeOK

\* The budget is counted, and the attempt goes on or ends.
LEMMA CountTypes ==
  ASSUME AuthTypeOK, NEW r \in Requests, Count(r)
  PROVE  AuthTypeOK'
<1> USE DEF Count, worldVars
<1>1. WorldTypeOK' /\ SessionTypeOK'
  BY DEF AuthTypeOK, WorldTypeOK, SessionTypeOK, Token, Stored
<1>2. CallTypeOK'
  <2>1. CASE UNCHANGED callVars
    BY <2>1 DEF AuthTypeOK, CallTypeOK, callVars, Token, Stored
  <2>2. CASE Forget(r)
    BY <2>2, ForgetTypes
  <2> QED
    BY <2>1, <2>2 DEF End
<1>3. pc' = [pc EXCEPT ![r] = "widening"] \/ pc' = [pc EXCEPT ![r] = "ended"]
  BY DEF End, Goto
<1> QED
  BY <1>1, <1>2, <1>3 DEF AuthTypeOK, Token

\* The union of scopes is a set of scopes.
LEMMA WidenTypes ==
  ASSUME AuthTypeOK, NEW r \in Requests, Widen(r)
  PROVE  AuthTypeOK'
<1>1. UNCHANGED <<worldVars, sessionVars>> /\ pc' = [pc EXCEPT ![r] = "discovering"]
  BY DEF Widen, Goto
<1>2. WorldTypeOK' /\ SessionTypeOK' /\ Token' = Token /\ Stored' = Stored
  BY <1>1, QuietTypes
<1>3. Union(r) \subseteq Scopes
  BY ScopesAreScopes DEF Union, AuthTypeOK, SessionTypeOK, CallTypeOK
<1>4. CallTypeOK'
  BY <1>2, <1>3 DEF AuthTypeOK, CallTypeOK, Widen
<1> QED
  BY <1>1, <1>2, <1>4 DEF AuthTypeOK, Widen

\* An attempt goes on with what was discovered, or ends.
LEMMA DiscoverSteps ==
  ASSUME AuthTypeOK, NEW r \in Requests, Discover(r)
  PROVE  /\ UNCHANGED <<worldVars, sessionVars, prompts, refused>>
         /\ \/ End(r, "discovering")
            \/ /\ Goto(r, "discovering", "looking")
               /\ UNCHANGED <<bearer, status, challenge, wanted, got, asking, line>>
               /\ \E found \in Metadata :
                    found.server = found.issuer /\ at' = [at EXCEPT ![r] = found]
  BY DiscoveryIsHome DEF Discover, AuthTypeOK, WorldTypeOK

\* Discovery leaves the metadata of an issuer, or ends the attempt.
LEMMA DiscoverTypes ==
  ASSUME AuthTypeOK, NEW r \in Requests, Discover(r)
  PROVE  AuthTypeOK'
<1>1. UNCHANGED <<worldVars, sessionVars, prompts, refused>>
  BY DiscoverSteps
<1>2. WorldTypeOK' /\ SessionTypeOK' /\ Token' = Token /\ Stored' = Stored
  BY <1>1, QuietTypes
<1>3. CASE End(r, "discovering")
  <2>1. CallTypeOK'
    BY <1>1, <1>3, ForgetTypes DEF End, worldVars
  <2> QED
    BY <1>1, <1>2, <1>3, <2>1 DEF AuthTypeOK, End, Goto
<1>4. CASE /\ Goto(r, "discovering", "looking")
           /\ UNCHANGED <<bearer, status, challenge, wanted, got, asking, line>>
           /\ \E found \in Metadata : at' = [at EXCEPT ![r] = found]
  <2>1. CallTypeOK'
    BY <1>2, <1>4 DEF AuthTypeOK, CallTypeOK, Metadata
  <2> QED
    BY <1>1, <1>2, <1>4, <2>1 DEF AuthTypeOK, Goto
<1> QED
  BY <1>3, <1>4, DiscoverSteps

\* What is looked up is what the store holds, or nothing.
LEMMA LookTypes ==
  ASSUME AuthTypeOK, NEW r \in Requests, Look(r), StepTrue(r)
  PROVE  AuthTypeOK'
<1>1. /\ UNCHANGED <<worldVars, sessionVars, prompts, refused>>
      /\ UNCHANGED <<bearer, status, challenge, wanted, at, asking, line>>
      /\ pc[r] = "looking"
  BY DEF Look, Goto
<1>2. WorldTypeOK' /\ SessionTypeOK' /\ Token' = Token /\ Stored' = Stored
  BY <1>1, QuietTypes
<1>3. Kept(r) \in Stored \cup {None}
  BY <1>1 DEF StepTrue, Kept, Key, AuthTypeOK, SessionTypeOK, CallTypeOK
<1>4. got' = got \/ got' = [got EXCEPT ![r] = Kept(r)]
  BY DEF Look
<1>5. CallTypeOK'
  BY <1>1, <1>2, <1>3, <1>4 DEF AuthTypeOK, CallTypeOK
<1>6. \E to \in {"holding", "refreshing", "clearing", "registering"} : pc' = [pc EXCEPT ![r] = to]
  BY DEF Look, Goto
<1> QED
  BY <1>1, <1>2, <1>5, <1>6 DEF AuthTypeOK

\* A grant is the next token, of the server the request is at.
LEMMA GrantedTypes ==
  ASSUME AuthTypeOK, NEW r \in Requests, at[r] # None,
         NEW scopes \in SUBSET Scopes, NEW as \in Clients, Granted(r, scopes, as)
  PROVE  /\ \E g \in Grant : g.issuer = at[r].server /\ grants' = Append(grants, g)
         /\ Len(grants) + 1 \in Token'
         /\ fresh' \subseteq Token' /\ valid' \subseteq Token'
<1> DEFINE g == [issuer |-> at[r].server, scopes |-> scopes, client |-> as]
<1>1. g \in Grant
  <2>1. at[r] \in [issuer : Issuers, server : Issuers]
    BY DEF AuthTypeOK, CallTypeOK
  <2> QED
    BY <2>1 DEF Grant
<1>2. grants' = Append(grants, g)
  BY DEF Granted
<1>3. grants \in Seq(Grant) /\ Len(grants') = Len(grants) + 1
  BY <1>1, <1>2 DEF AuthTypeOK, WorldTypeOK
<1>4. Len(grants) + 1 \in Token' /\ Token \subseteq Token'
  BY <1>3 DEF Token
<1>5. fresh' \subseteq Token' /\ valid' \subseteq Token'
  BY <1>4 DEF Granted, AuthTypeOK, WorldTypeOK
<1> QED
  BY <1>1, <1>2, <1>4, <1>5

\* What is asked of a token endpoint is granted within what was asked.
LEMMA PostTypes ==
  ASSUME AuthTypeOK, NEW r \in Requests, at[r] # None,
         NEW request \in Asking, PostTokenRequest(r, request)
  PROVE  /\ \E g \in Grant : g.issuer = at[r].server /\ grants' = Append(grants, g)
         /\ Len(grants) + 1 \in Token'
         /\ fresh' \subseteq Token' /\ valid' \subseteq Token'
<1>1. request.client \in Clients /\ request.scopes \subseteq Scopes
  BY DEF Asking
<1>2. PICK s \in MayGrant(request.scopes) : Granted(r, s, request.client)
  BY DEF PostTokenRequest
<1>3. s \subseteq Scopes
  BY <1>1 DEF MayGrant
<1> QED
  BY <1>1, <1>2, <1>3, GrantedTypes

\* A refresh, if it is granted, and what it leaves to be kept.
LEMMA RenewedSteps ==
  ASSUME AuthTypeOK, NEW r \in Requests, at[r] # None, got[r] # None, got[r].refresh # None,
         Renewed(r, got[r].refresh)
  PROVE  /\ \E g \in Grant : g.issuer = at[r].server /\ grants' = Append(grants, g)
         /\ fresh' \subseteq Token' /\ valid' \subseteq Token' /\ spent' \subseteq Token'
         /\ \E kept \in Stored' : /\ got' = [got EXCEPT ![r] = kept]
                                  /\ kept.token = Len(grants) + 1
                                  /\ kept.refresh \in {Len(grants) + 1, got[r].refresh}
<1> DEFINE old == got[r].refresh
           request == [client |-> RefreshClient(r), scopes |-> ScopesOf(got[r].token)]
           kept == [token   |-> Len(grants) + 1,
                    refresh |-> IF world.rotates THEN Len(grants) + 1 ELSE old]
<1>1. got[r] \in Stored /\ got[r].token \in Token /\ old \in Token
  BY DEF AuthTypeOK, CallTypeOK, Stored
<1>2. grants[old] \in Grant
  BY <1>1 DEF AuthTypeOK, WorldTypeOK, Token
<1>3. request \in Asking
  BY <1>1, <1>2, ScopesAreScopes DEF Renewed, Asking, Grant
<1>4. PostTokenRequest(r, request)
  BY DEF Renewed
<1>5. /\ \E g \in Grant : g.issuer = at[r].server /\ grants' = Append(grants, g)
      /\ Len(grants) + 1 \in Token'
      /\ fresh' \subseteq Token' /\ valid' \subseteq Token'
  BY <1>3, <1>4, PostTypes
<1>6. Token \subseteq Token'
  BY <1>5, TokensStay
<1>7. spent' \subseteq Token'
  BY <1>1, <1>6 DEF Renewed, AuthTypeOK, WorldTypeOK
<1>8. kept \in Stored' /\ got' = [got EXCEPT ![r] = kept]
  BY <1>1, <1>5, <1>6 DEF Renewed, Stored
<1> QED
  BY <1>5, <1>7, <1>8

\* The world after a grant.
LEMMA WorldGrows ==
  ASSUME AuthTypeOK, NEW g \in Grant, grants' = Append(grants, g),
         fresh' \subseteq Token', valid' \subseteq Token', spent' \subseteq Token',
         UNCHANGED <<world, issuer, upsets>>
  PROVE  WorldTypeOK'
<1>1. grants' \in Seq(Grant)
  BY TokensStay
<1> QED
  BY <1>1 DEF AuthTypeOK, WorldTypeOK

\* A refresh adds a grant, or nothing.
LEMMA RefreshTypes ==
  ASSUME AuthTypeOK, NEW r \in Requests, Refresh(r), StepTrue(r)
  PROVE  AuthTypeOK'
<1>1. /\ UNCHANGED <<world, issuer, upsets, sessionVars, prompts, refused>>
      /\ UNCHANGED <<bearer, status, challenge, wanted, at, asking, line>>
      /\ pc[r] = "refreshing"
      /\ pc' = [pc EXCEPT ![r] = "keeping"] \/ pc' = [pc EXCEPT ![r] = "clearing"]
  BY DEF Refresh, Goto
<1>2. at[r] # None /\ got[r] # None /\ got[r].refresh # None
  BY <1>1 DEF StepTrue
<1>3. WorldTypeOK' /\ Token \subseteq Token' /\ Stored \subseteq Stored'
      /\ got' \in [Requests -> Stored' \cup {None}]
  <2>1. CASE Renewed(r, got[r].refresh)
    <3>1. PICK g \in Grant : grants' = Append(grants, g)
      BY <1>2, <2>1, RenewedSteps
    <3>2. Token \subseteq Token' /\ Stored \subseteq Stored'
      BY <3>1, TokensStay
    <3>3. fresh' \subseteq Token' /\ valid' \subseteq Token' /\ spent' \subseteq Token'
      BY <1>2, <2>1, RenewedSteps
    <3>4. WorldTypeOK'
      BY <1>1, <3>1, <3>3, WorldGrows
    <3>5. \E kept \in Stored' : got' = [got EXCEPT ![r] = kept]
      BY <1>2, <2>1, RenewedSteps
    <3> QED
      BY <3>2, <3>4, <3>5 DEF AuthTypeOK, CallTypeOK
  <2>2. CASE UNCHANGED <<grants, fresh, valid, spent, got>>
    BY <1>1, <2>2, TokensStay DEF AuthTypeOK, CallTypeOK, WorldTypeOK, Token
  <2> QED
    BY <2>1, <2>2 DEF Refresh
<1>4. SessionTypeOK'
  BY <1>1, <1>3 DEF AuthTypeOK, SessionTypeOK, sessionVars
<1>5. CallTypeOK'
  BY <1>1, <1>3 DEF AuthTypeOK, CallTypeOK
<1>6. refused' \in [Requests -> SUBSET Token']
  BY <1>1, <1>3 DEF AuthTypeOK
<1> QED
  BY <1>1, <1>3, <1>4, <1>5, <1>6 DEF AuthTypeOK

\* An exchange adds a grant, or ends the attempt.
LEMMA ExchangeTypes ==
  ASSUME AuthTypeOK, NEW r \in Requests, Exchange(r), StepTrue(r)
  PROVE  AuthTypeOK'
<1>1. /\ UNCHANGED <<world, issuer, spent, upsets, sessionVars, prompts, refused>>
      /\ pc[r] = "exchanging" /\ at[r] # None /\ asking[r] # None
  BY DEF Exchange, End, Goto, StepTrue
<1>2. CASE /\ Goto(r, "exchanging", "keeping")
           /\ PostTokenRequest(r, asking[r])
           /\ \E refreshable \in BOOLEAN :
                got' = [got EXCEPT ![r] =
                          [token   |-> Len(grants) + 1,
                           refresh |-> IF refreshable THEN Len(grants) + 1 ELSE None]]
           /\ UNCHANGED <<bearer, status, challenge, wanted, at, asking, line>>
  <2>1. asking[r] \in Asking
    BY <1>1 DEF AuthTypeOK, CallTypeOK
  <2>2. /\ \E g \in Grant : g.issuer = at[r].server /\ grants' = Append(grants, g)
        /\ Len(grants) + 1 \in Token'
        /\ fresh' \subseteq Token' /\ valid' \subseteq Token'
    BY <1>1, <1>2, <2>1, PostTypes
  <2>3. Token \subseteq Token' /\ Stored \subseteq Stored'
    BY <2>2, TokensStay
  <2>4. WorldTypeOK'
    BY <1>1, <2>2, <2>3, WorldGrows DEF AuthTypeOK, WorldTypeOK
  <2>5. got' \in [Requests -> Stored' \cup {None}]
    BY <1>2, <2>2, <2>3 DEF AuthTypeOK, CallTypeOK, Stored
  <2>6. SessionTypeOK' /\ CallTypeOK'
    BY <1>1, <1>2, <2>3, <2>5 DEF AuthTypeOK, SessionTypeOK, CallTypeOK, sessionVars
  <2>7. refused' \in [Requests -> SUBSET Token']
    BY <1>1, <2>3 DEF AuthTypeOK
  <2> QED
    BY <1>1, <1>2, <2>4, <2>6, <2>7 DEF AuthTypeOK, Goto
<1>3. CASE End(r, "exchanging") /\ UNCHANGED <<grants, fresh, valid>>
  <2>1. UNCHANGED worldVars
    BY <1>1, <1>3 DEF worldVars
  <2>2. WorldTypeOK' /\ SessionTypeOK' /\ Token' = Token
    BY <1>1, <2>1, QuietTypes
  <2>3. CallTypeOK'
    BY <1>3, ForgetTypes DEF End
  <2> QED
    BY <1>1, <1>3, <2>2, <2>3 DEF AuthTypeOK, End, Goto
<1> QED
  BY <1>2, <1>3 DEF Exchange

\* Steps that only move a request on leave every type alone.
LEMMA MovedTypes ==
  ASSUME AuthTypeOK, NEW r \in Requests, NEW from, NEW to \in Stages, Goto(r, from, to),
         UNCHANGED <<worldVars, sessionVars, callVars, prompts, refused>>
  PROVE  AuthTypeOK'
<1>1. WorldTypeOK' /\ SessionTypeOK' /\ Token' = Token /\ Stored' = Stored
  BY QuietTypes
<1>2. CallTypeOK'
  BY <1>1 DEF AuthTypeOK, CallTypeOK, callVars
<1> QED
  BY <1>1, <1>2 DEF AuthTypeOK, Goto

\* Steps that end an attempt, and touch nothing else, keep every type.
LEMMA EndTypes ==
  ASSUME AuthTypeOK, NEW r \in Requests, NEW from, End(r, from),
         UNCHANGED <<worldVars, sessionVars, prompts, refused>>
  PROVE  AuthTypeOK'
<1>1. WorldTypeOK' /\ SessionTypeOK' /\ Token' = Token /\ Stored' = Stored
  BY QuietTypes
<1>2. CallTypeOK'
  BY ForgetTypes DEF End, worldVars
<1> QED
  BY <1>1, <1>2 DEF AuthTypeOK, End, Goto

\* A token is taken out of the store.
LEMMA ClearTypes ==
  ASSUME AuthTypeOK, NEW r \in Requests, Clear(r), StepTrue(r)
  PROVE  AuthTypeOK'
<1> USE DEF Clear, worldVars, callVars
<1>1. WorldTypeOK' /\ CallTypeOK' /\ Token' = Token /\ Stored' = Stored
  BY DEF AuthTypeOK, WorldTypeOK, CallTypeOK, Token, Stored
<1>2. SessionTypeOK'
  BY <1>1 DEF AuthTypeOK, SessionTypeOK
<1> QED
  BY <1>1, <1>2 DEF AuthTypeOK, Goto

\* Who the user is sent as, and for what.
LEMMA UrlTypes ==
  ASSUME AuthTypeOK, NEW r \in Requests, NEW as \in Clients
  PROVE  AuthorizationUrl(r, as) \in Asking
<1>1. Asked(r) \subseteq Scopes
  BY NeedsAreScopes DEF Asked, AuthTypeOK, CallTypeOK
<1> QED
  BY <1>1 DEF AuthorizationUrl, Asking

\* A prompt keeps the types of calls.
LEMMA PromptTypes ==
  ASSUME AuthTypeOK, NEW r \in Requests, NEW from, NEW as \in Clients, Prompt(r, from, as),
         UNCHANGED worldVars
  PROVE  CallTypeOK' /\ pc' = [pc EXCEPT ![r] = "waiting"] /\ prompts' \in Nat
<1>1. asking' \in [Requests -> Asking \cup {None}] /\ line' \in [Requests -> {"quiet", "silent"}]
  BY UrlTypes DEF AuthTypeOK, CallTypeOK, Prompt
<1>2. Token' = Token /\ Stored' = Stored
  BY DEF worldVars, Token, Stored
<1>3. CallTypeOK'
  BY <1>1, <1>2 DEF AuthTypeOK, CallTypeOK, Prompt
<1> QED
  BY <1>3 DEF AuthTypeOK, Prompt, Goto

\* A client is found, asked for, or there is none.
LEMMA RegisterTypes ==
  ASSUME AuthTypeOK, NEW r \in Requests, Register(r), StepTrue(r)
  PROVE  AuthTypeOK'
<1>1. UNCHANGED <<worldVars, sessionVars, refused>> /\ Key(r) \in Issuers
  BY DEF Register, StepTrue, Key, AuthTypeOK, CallTypeOK
<1>2. WorldTypeOK' /\ SessionTypeOK' /\ Token' = Token
  BY <1>1, QuietTypes
<1>3. CASE \E as \in Clients : Prompt(r, "registering", as)
  <2>1. CallTypeOK' /\ pc' = [pc EXCEPT ![r] = "waiting"] /\ prompts' \in Nat
    BY <1>1, <1>3, PromptTypes
  <2> QED
    BY <1>1, <1>2, <2>1 DEF AuthTypeOK
<1>4. CASE Goto(r, "registering", "applying") /\ UNCHANGED <<callVars, prompts>>
  BY <1>1, <1>4, MovedTypes
<1>5. CASE End(r, "registering") /\ UNCHANGED prompts
  BY <1>1, <1>5, EndTypes
<1>6. /\ "pre_registered" \in Clients /\ "document" \in Clients
      /\ clients[Key(r)] # None => clients[Key(r)] \in Clients
  BY <1>1 DEF Clients, AuthTypeOK, SessionTypeOK
<1> QED
  BY <1>3, <1>4, <1>5, <1>6 DEF Register

\* A registration is kept, or the attempt ends.
LEMMA ApplyTypes ==
  ASSUME AuthTypeOK, NEW r \in Requests, Apply(r), StepTrue(r)
  PROVE  AuthTypeOK'
<1>1. UNCHANGED <<worldVars, held, upgrades, store, refused>>
  BY DEF Apply
<1>2. CASE Prompt(r, "applying", r) /\ clients' = [clients EXCEPT ![Key(r)] = r]
  <2>1. CallTypeOK' /\ pc' = [pc EXCEPT ![r] = "waiting"] /\ prompts' \in Nat
    BY <1>1, <1>2, PromptTypes DEF Clients
  <2>2. WorldTypeOK' /\ Token' = Token /\ Stored' = Stored
    BY <1>1 DEF AuthTypeOK, WorldTypeOK, worldVars, Token, Stored
  <2>3. SessionTypeOK'
    BY <1>1, <1>2, <2>2 DEF AuthTypeOK, SessionTypeOK
  <2> QED
    BY <1>1, <2>1, <2>2, <2>3 DEF AuthTypeOK
<1>3. CASE End(r, "applying") /\ UNCHANGED <<prompts, clients>>
  BY <1>1, <1>3, EndTypes DEF sessionVars
<1> QED
  BY <1>2, <1>3 DEF Apply

\* A connection to the listener is accepted, or goes.
LEMMA LineTypes ==
  ASSUME AuthTypeOK, NEW r \in Requests, Preconnect(r) \/ HangUp(r)
  PROVE  AuthTypeOK'
<1>1. /\ UNCHANGED <<worldVars, sessionVars, prompts, refused>>
      /\ UNCHANGED <<bearer, status, challenge, wanted, at, got, asking>>
  BY DEF Preconnect, HangUp
<1>2. WorldTypeOK' /\ SessionTypeOK' /\ Token' = Token /\ Stored' = Stored
  BY <1>1, QuietTypes
<1>3. line' = [line EXCEPT ![r] = "silent"] \/ line' = [line EXCEPT ![r] = "quiet"]
  BY DEF Preconnect, HangUp
<1>4. CallTypeOK'
  BY <1>1, <1>2, <1>3 DEF AuthTypeOK, CallTypeOK
<1>5. pc' = pc \/ pc' = [pc EXCEPT ![r] = "joining"]
  BY DEF Preconnect, HangUp
<1> QED
  BY <1>1, <1>2, <1>4, <1>5 DEF AuthTypeOK

\* The wait for the browser ends, one way or the other.
LEMMA CallbackTypes ==
  ASSUME AuthTypeOK, NEW r \in Requests, Callback(r) \/ TimeOut(r) \/ Join(r)
  PROVE  AuthTypeOK'
<1>1. CASE End(r, "waiting") \/ End(r, "joining")
  BY <1>1, EndTypes DEF Callback, TimeOut, Join
<1>2. CASE /\ Goto(r, "waiting", "exchanging") \/ Goto(r, "waiting", "joining")
           /\ UNCHANGED callVars
  BY <1>2, MovedTypes DEF Callback, TimeOut, Join
<1> QED
  BY <1>1, <1>2 DEF Callback, TimeOut, Join

\* A token is put into the store.
LEMMA KeepTypes ==
  ASSUME AuthTypeOK, NEW r \in Requests, Keep(r), StepTrue(r)
  PROVE  AuthTypeOK'
<1> USE DEF Keep, worldVars, callVars
<1>1. WorldTypeOK' /\ CallTypeOK' /\ Token' = Token /\ Stored' = Stored
  BY DEF AuthTypeOK, WorldTypeOK, CallTypeOK, Token, Stored
<1>2. SessionTypeOK'
  BY <1>1 DEF AuthTypeOK, SessionTypeOK, CallTypeOK
<1> QED
  BY <1>1, <1>2 DEF AuthTypeOK, Goto

\* The session takes the token of the attempt.
LEMMA HoldTypes ==
  ASSUME AuthTypeOK, NEW r \in Requests, Hold(r), StepTrue(r)
  PROVE  AuthTypeOK'
<1> USE DEF Hold
<1>1. WorldTypeOK' /\ Token' = Token /\ Stored' = Stored
  BY DEF AuthTypeOK, WorldTypeOK, worldVars, Token, Stored
<1>2. got[r].token \in Token
  BY DEF AuthTypeOK, CallTypeOK, StepTrue, Goto, Stored
<1>3. SessionTypeOK'
  BY <1>1, <1>2 DEF AuthTypeOK, SessionTypeOK
<1>4. CallTypeOK'
  BY ForgetTypes DEF worldVars
<1> QED
  BY <1>1, <1>3, <1>4 DEF AuthTypeOK, Goto

\* Tokens expire and are revoked, and the resource moves.
LEMMA UpsetTypes ==
  ASSUME AuthTypeOK,
         (\E t \in Token : Expire(t) \/ Revoke(t)) \/ (\E i \in Issuers : Migrate(i))
  PROVE  AuthTypeOK'
<1>1. /\ UNCHANGED <<world, grants, spent, sessionVars, pc, callVars, prompts, refused>>
      /\ fresh' \subseteq fresh /\ valid' \subseteq valid /\ issuer' \in Issuers
      /\ Upset
  BY DEF Expire, Revoke, Migrate, AuthTypeOK, WorldTypeOK
<1>2. upsets' \in 0 .. MaxUpsets
  <2>1. world.upsets \in 0 .. MaxUpsets
    BY DEF AuthTypeOK, WorldTypeOK, Worlds
  <2> QED
    BY <1>1, <2>1 DEF Upset, AuthTypeOK, WorldTypeOK
<1>3. Token' = Token /\ Stored' = Stored
  BY <1>1 DEF Token, Stored
<1>4. WorldTypeOK'
  BY <1>1, <1>2, <1>3 DEF AuthTypeOK, WorldTypeOK
<1>5. SessionTypeOK' /\ CallTypeOK'
  BY <1>1, <1>3 DEF AuthTypeOK, SessionTypeOK, CallTypeOK, sessionVars, callVars
<1> QED
  BY <1>1, <1>3, <1>4, <1>5 DEF AuthTypeOK

-----------------------------------------------------------------------------
(* Tokens stay home. *)

\* The other attempts are where they were.
Apart(r) ==
  \A s \in Requests \ {r} :
    pc'[s] = pc[s] /\ at'[s] = at[s] /\ got'[s] = got[s] /\ asking'[s] = asking[s]

Grows == UNCHANGED grants \/ \E g \in Grant : grants' = Append(grants, g)

\* What is kept stays at home, whatever is granted.
LEMMA HomeStays ==
  ASSUME AuthTypeOK, Grows, NEW key, NEW kept \in Stored, Home(key, kept)
  PROVE  Home(key, kept)'
<1>1. \A t \in Token : grants'[t] = grants[t]
  BY TokensStay DEF Grows
<1>2. kept.token \in Token /\ kept.refresh \in Token \cup {None}
  BY DEF Stored
<1> QED
  BY <1>1, <1>2 DEF Home

\* A store nobody touches stays home.
LEMMA StoreStaysHome ==
  ASSUME AuthInv, Grows, UNCHANGED store
  PROVE  StoreHome'
<1> SUFFICES ASSUME NEW i \in Issuers, store[i] # None PROVE Home(i, store[i])'
  BY DEF StoreHome
<1>1. store[i] \in Stored /\ Home(i, store[i])
  BY DEF AuthInv, AuthTypeOK, SessionTypeOK, TokensStayHome, StoreHome
<1>2. \A kept \in Stored : Home(i, kept) => Home(i, kept)'
  BY HomeStays DEF AuthInv
<1> QED
  BY <1>1, <1>2 DEF Home

\* A step of one attempt: it is enough to look at that one and at the store.
LEMMA OneAttempt ==
  ASSUME AuthInv, AuthTypeOK', NEW r \in Requests, Grows, Apart(r),
         StoreHome', StepTrue(r)', AttemptHome(r)'
  PROVE  AuthInv'
<1> SUFFICES ASSUME NEW s \in Requests, s # r
             PROVE  StepTrue(s)' /\ AttemptHome(s)'
  BY DEF AuthInv, TokensStayHome, StepsTrue
<1>1. pc'[s] = pc[s] /\ at'[s] = at[s] /\ got'[s] = got[s] /\ asking'[s] = asking[s]
  BY DEF Apart
<1>2. StepTrue(s)'
  BY <1>1 DEF AuthInv, StepsTrue, StepTrue
<1>3. AttemptHome(s)'
  <2> SUFFICES ASSUME pc[s] \in {"refreshing", "keeping", "holding"}
               PROVE  Home(Key(s), got[s])'
    BY <1>1 DEF AttemptHome
  <2>1. got[s] \in Stored /\ Home(at[s].issuer, got[s])
    BY DEF AuthInv, StepsTrue, StepTrue, TokensStayHome, AttemptHome, Key, AuthTypeOK, CallTypeOK
  <2>2. \A key, kept : kept \in Stored /\ Home(key, kept) => Home(key, kept)'
    BY HomeStays DEF AuthInv
  <2> QED
    BY <1>1, <2>1, <2>2 DEF Key, Home
<1> QED
  BY <1>2, <1>3

\* Ending is safe.
LEMMA EndIsSafe ==
  ASSUME AuthInv, AuthTypeOK', NEW r \in Requests, NEW from, End(r, from), UNCHANGED <<grants, store>>
  PROVE  AuthInv'
<1>1. Apart(r) /\ pc'[r] = "ended" /\ at'[r] = None
  BY DEF End, Goto, Forget, Apart, AuthInv, AuthTypeOK, CallTypeOK
<1>2. StepTrue(r)' /\ AttemptHome(r)'
  BY <1>1 DEF StepTrue, AttemptHome
<1> QED
  BY <1>1, <1>2, StoreStaysHome, OneAttempt DEF Grows

\* A step that takes no token is safe if what the next one needs is there.
LEMMA MoveIsSafe ==
  ASSUME AuthInv, AuthTypeOK', NEW r \in Requests, NEW to \in Stages,
         pc' = [pc EXCEPT ![r] = to], UNCHANGED <<grants, store, at, got>>,
         \A s \in Requests \ {r} : asking'[s] = asking[s],
         to \notin {"refreshing", "keeping", "holding"},
         to \in {"looking", "clearing", "registering", "applying", "waiting", "joining", "exchanging"}
           => at[r] # None,
         to \in {"waiting", "exchanging"} => asking'[r] # None
  PROVE  AuthInv'
<1>1. Apart(r) /\ pc'[r] = to
  BY DEF Apart, AuthInv, AuthTypeOK
<1>2. StepTrue(r)' /\ AttemptHome(r)'
  BY <1>1 DEF StepTrue, AttemptHome, AuthInv, StepsTrue
<1> QED
  BY <1>1, <1>2, StoreStaysHome, OneAttempt DEF Grows

\* Up to the metadata, nothing that is kept is touched.
LEMMA RequestStep ==
  ASSUME AuthInv, AuthTypeOK', NEW r \in Requests,
         Send(r) \/ Serve(r) \/ Reject(r) \/ Forbid(r) \/ Count(r) \/ Widen(r) \/ Discover(r)
  PROVE  AuthInv'
<1>1. UNCHANGED <<grants, store>>
  BY DEF Send, Serve, Reject, Forbid, Refuse, Count, Widen, Discover, worldVars, sessionVars
<1>2. CASE \E from \in Stages : End(r, from)
  BY <1>1, <1>2, EndIsSafe
<1>3. CASE /\ \E to \in {"sent", "challenged", "widening", "discovering"} :
                pc' = [pc EXCEPT ![r] = to]
           /\ UNCHANGED <<at, got, asking>>
  BY <1>1, <1>3, MoveIsSafe
<1>4. CASE Discover(r)
  <2>1. CASE End(r, "discovering")
    BY <1>2, <2>1
  <2>2. CASE /\ Goto(r, "discovering", "looking") /\ UNCHANGED <<got, asking>>
             /\ \E found \in Metadata :
                  found.server = found.issuer /\ at' = [at EXCEPT ![r] = found]
    <3>1. PICK found \in Metadata : found.server = found.issuer /\ at' = [at EXCEPT ![r] = found]
      BY <2>2
    <3>2. found # None
      BY DiscoveryAssumption DEF Metadata
    <3>3. Apart(r) /\ pc'[r] = "looking" /\ at'[r] = found
      BY <2>2, <3>1 DEF Goto, Apart, AuthInv, AuthTypeOK, CallTypeOK
    <3>4. StepTrue(r)' /\ AttemptHome(r)'
      BY <3>1, <3>2, <3>3 DEF StepTrue, AttemptHome
    <3> QED
      BY <1>1, <3>3, <3>4, StoreStaysHome, OneAttempt DEF Grows
  <2> QED
    BY <1>4, <2>1, <2>2, DiscoverSteps DEF AuthInv
<1>5. CASE Send(r) \/ Serve(r) \/ Count(r) \/ Widen(r)
  BY <1>2, <1>3, <1>5 DEF Send, Serve, Count, Widen, End, Goto, callVars
<1>6. CASE Reject(r) \/ Forbid(r)
  <2>1. \E code \in {401, 403, 500} : Refuse(r, code)
    BY <1>6 DEF Reject, Forbid
  <2>2. End(r, "sent") \/ (Goto(r, "sent", "challenged") /\ UNCHANGED <<at, got, asking>>)
    BY <2>1 DEF Refuse
  <2> QED
    BY <1>2, <1>3, <2>2 DEF Goto
<1> QED
  BY <1>4, <1>5, <1>6

\* A token looked up under the issuer of the metadata is that issuer's.
LEMMA LookStep ==
  ASSUME AuthInv, AuthTypeOK', NEW r \in Requests, Look(r)
  PROVE  AuthInv'
<1>1. UNCHANGED <<grants, store, at, asking>> /\ pc[r] = "looking" /\ at[r] # None
  BY DEF Look, Goto, worldVars, sessionVars, AuthInv, StepsTrue, StepTrue
<1>2. CASE UNCHANGED got /\ (Goto(r, "looking", "clearing") \/ Goto(r, "looking", "registering"))
  BY <1>1, <1>2, MoveIsSafe DEF Goto
<1>3. CASE /\ got' = [got EXCEPT ![r] = Kept(r)] /\ Kept(r) # None
           /\ \/ Goto(r, "looking", "holding")
              \/ Goto(r, "looking", "refreshing") /\ Kept(r).refresh # None
  <2>1. /\ Apart(r) /\ got'[r] = Kept(r) /\ pc'[r] \in {"holding", "refreshing"}
        /\ pc'[r] = "refreshing" => Kept(r).refresh # None
    BY <1>1, <1>3 DEF Goto, Apart, AuthInv, AuthTypeOK, CallTypeOK
  <2>2. StepTrue(r)'
    BY <1>1, <1>3, <2>1 DEF StepTrue, AuthInv, StepsTrue
  <2>3. Key(r) \in Issuers /\ Home(Key(r), Kept(r))
    BY <1>1, <1>3 DEF Key, Kept, AuthInv, AuthTypeOK, CallTypeOK, TokensStayHome, StoreHome
  <2>4. AttemptHome(r)'
    BY <1>1, <2>1, <2>3 DEF AttemptHome, Home, Key
  <2> QED
    BY <1>1, <2>1, <2>2, <2>4, StoreStaysHome, OneAttempt DEF Grows
<1> QED
  BY <1>2, <1>3 DEF Look, Covers

\* A refresh is granted by the server the metadata names, and its issuer is the one asked.
LEMMA RefreshStep ==
  ASSUME AuthInv, AuthTypeOK', NEW r \in Requests, Refresh(r)
  PROVE  AuthInv'
<1>1. UNCHANGED <<store, at, asking>> /\ pc[r] = "refreshing"
  BY DEF Refresh, Goto, sessionVars
<1>2. /\ at[r] # None /\ at[r].server = Key(r) /\ got[r] # None /\ got[r].refresh # None
      /\ Home(Key(r), got[r]) /\ AuthTypeOK
  BY <1>1 DEF AuthInv, StepsTrue, StepTrue, Key, TokensStayHome, AttemptHome
<1>3. CASE Goto(r, "refreshing", "clearing") /\ UNCHANGED <<grants, got>>
  BY <1>1, <1>2, <1>3, MoveIsSafe DEF Goto
<1>4. CASE Goto(r, "refreshing", "keeping") /\ Renewed(r, got[r].refresh)
  <2>1. PICK g \in Grant : g.issuer = at[r].server /\ grants' = Append(grants, g)
    BY <1>2, <1>4, RenewedSteps
  <2>2. PICK kept \in Stored' : /\ got' = [got EXCEPT ![r] = kept]
                                /\ kept.token = Len(grants) + 1
                                /\ kept.refresh \in {Len(grants) + 1, got[r].refresh}
    BY <1>2, <1>4, RenewedSteps
  <2>3. grants \in Seq(Grant) /\ got[r].refresh \in Token
    BY <1>2 DEF AuthTypeOK, WorldTypeOK, CallTypeOK, Stored
  <2>4. /\ grants'[Len(grants) + 1] = g
        /\ grants'[got[r].refresh] = grants[got[r].refresh]
    BY <2>1, <2>3 DEF Token
  <2>5. Apart(r) /\ pc'[r] = "keeping" /\ got'[r] = kept
    BY <1>1, <1>2, <1>4, <2>2 DEF Goto, Apart, AuthTypeOK, CallTypeOK
  <2>6. kept # None
    BY <2>2 DEF Stored, Token
  <2>7. StepTrue(r)'
    BY <1>1, <1>2, <2>5, <2>6 DEF StepTrue, Key
  <2>8. AttemptHome(r)'
    BY <1>1, <1>2, <2>1, <2>2, <2>4, <2>5 DEF AttemptHome, Home, Key
  <2> QED
    BY <1>1, <2>1, <2>5, <2>7, <2>8, StoreStaysHome, OneAttempt DEF Grows
<1> QED
  BY <1>3, <1>4 DEF Refresh

\* So is the exchange of a code.
LEMMA ExchangeStep ==
  ASSUME AuthInv, AuthTypeOK', NEW r \in Requests, Exchange(r)
  PROVE  AuthInv'
<1>1. UNCHANGED store /\ pc[r] = "exchanging"
  BY DEF Exchange, End, Goto, sessionVars
<1>2. at[r] # None /\ at[r].server = Key(r) /\ asking[r] \in Asking /\ AuthTypeOK
  BY <1>1 DEF AuthInv, StepsTrue, StepTrue, Key, AuthTypeOK, CallTypeOK
<1>3. CASE End(r, "exchanging") /\ UNCHANGED grants
  BY <1>1, <1>3, EndIsSafe
<1>4. CASE /\ Goto(r, "exchanging", "keeping")
           /\ PostTokenRequest(r, asking[r])
           /\ \E refreshable \in BOOLEAN :
                got' = [got EXCEPT ![r] =
                          [token   |-> Len(grants) + 1,
                           refresh |-> IF refreshable THEN Len(grants) + 1 ELSE None]]
           /\ UNCHANGED <<at, asking>>
  <2>1. PICK g \in Grant : g.issuer = at[r].server /\ grants' = Append(grants, g)
    BY <1>2, <1>4, PostTypes
  <2>2. PICK refreshable \in BOOLEAN :
          got' = [got EXCEPT ![r] =
                    [token   |-> Len(grants) + 1,
                     refresh |-> IF refreshable THEN Len(grants) + 1 ELSE None]]
    BY <1>4
  <2>3. grants'[Len(grants) + 1] = g /\ grants' \in Seq(Grant) /\ Len(grants) \in Nat
    BY <1>2, <2>1 DEF AuthTypeOK, WorldTypeOK
  <2>4. /\ Apart(r) /\ pc'[r] = "keeping"
        /\ got'[r] = [token   |-> Len(grants) + 1,
                      refresh |-> IF refreshable THEN Len(grants) + 1 ELSE None]
    BY <1>2, <1>4, <2>2 DEF Goto, Apart, AuthTypeOK, CallTypeOK
  <2>5. got'[r] # None
    BY <2>3, <2>4
  <2>6. StepTrue(r)'
    BY <1>2, <1>4, <2>4, <2>5 DEF StepTrue, Key
  <2>7. AttemptHome(r)'
    BY <1>2, <1>4, <2>1, <2>3, <2>4 DEF AttemptHome, Home, Key
  <2> QED
    BY <1>1, <2>1, <2>4, <2>6, <2>7, StoreStaysHome, OneAttempt DEF Grows
<1> QED
  BY <1>3, <1>4 DEF Exchange

\* The flow through the browser has no token yet.
LEMMA FlowStep ==
  ASSUME AuthInv, AuthTypeOK', NEW r \in Requests,
         \/ Register(r) \/ Apply(r) \/ Callback(r) \/ TimeOut(r) \/ Join(r)
         \/ Preconnect(r) \/ HangUp(r)
  PROVE  AuthInv'
<1>1. UNCHANGED <<grants, store>>
  BY DEF Register, Apply, Callback, TimeOut, Join, Preconnect, HangUp, worldVars, sessionVars
<1>2. CASE \E from \in Stages : End(r, from)
  BY <1>1, <1>2, EndIsSafe
<1>3. CASE \E from \in {"registering", "applying"}, as \in Clients : Prompt(r, from, as)
  <2>1. PICK from \in {"registering", "applying"}, as \in Clients : Prompt(r, from, as)
    BY <1>3
  <2>2. /\ pc[r] = from /\ pc' = [pc EXCEPT ![r] = "waiting"] /\ UNCHANGED <<at, got>>
        /\ asking' = [asking EXCEPT ![r] = AuthorizationUrl(r, as)]
    BY <2>1 DEF Prompt, Goto
  <2>3. at[r] # None
    BY <2>2 DEF AuthInv, StepsTrue, StepTrue
  <2>4. /\ asking'[r] # None
        /\ \A s \in Requests \ {r} : asking'[s] = asking[s]
    <3>1. AuthorizationUrl(r, as) # None
      <4>1. AuthorizationUrl(r, as) \in Asking
        BY UrlTypes DEF AuthInv
      <4> QED
        BY <4>1
    <3>2. asking \in [Requests -> Asking \cup {None}]
      BY DEF AuthInv, AuthTypeOK, CallTypeOK
    <3> QED
      BY <2>2, <3>1, <3>2
  <2> QED
    BY <1>1, <2>2, <2>3, <2>4, MoveIsSafe
<1>4. CASE /\ \E to \in {"applying", "exchanging", "joining"} :
                /\ pc[r] = IF to = "applying" THEN "registering" ELSE "waiting"
                /\ pc' = [pc EXCEPT ![r] = to]
           /\ UNCHANGED <<at, got, asking>>
  <2>1. PICK to \in {"applying", "exchanging", "joining"} :
          /\ pc[r] = IF to = "applying" THEN "registering" ELSE "waiting"
          /\ pc' = [pc EXCEPT ![r] = to]
    BY <1>4
  <2>2. at[r] # None /\ (to = "exchanging" => asking[r] # None)
    BY <2>1 DEF AuthInv, StepsTrue, StepTrue
  <2> QED
    BY <1>1, <1>4, <2>1, <2>2, MoveIsSafe
<1>5. CASE UNCHANGED <<pc, at, got, asking>>
  <2>1. Apart(r) /\ StepTrue(r)' /\ AttemptHome(r)'
    BY <1>1, <1>5 DEF Apart, StepTrue, AttemptHome, Home, Key, AuthInv, StepsTrue, TokensStayHome
  <2> QED
    BY <1>1, <2>1, StoreStaysHome, OneAttempt DEF Grows
<1>6. CASE Register(r) \/ Apply(r)
  <2>1. /\ {"pre_registered", "document", r} \subseteq Clients
        /\ Register(r) /\ clients[Key(r)] # None => clients[Key(r)] \in Clients
    BY DEF Register, Clients, Key, AuthInv, StepsTrue, StepTrue, AuthTypeOK, SessionTypeOK,
           CallTypeOK
  <2> QED
    BY <1>2, <1>3, <1>4, <1>6, <2>1 DEF Register, Apply, Goto, callVars
<1>7. CASE Callback(r) \/ TimeOut(r) \/ Join(r)
  BY <1>2, <1>4, <1>7 DEF Callback, TimeOut, Join, Goto, callVars
<1>8. CASE Preconnect(r) \/ HangUp(r)
  BY <1>4, <1>5, <1>8 DEF Preconnect, HangUp
<1> QED
  BY <1>6, <1>7, <1>8

\* What is put into the store under an issuer is its own.
LEMMA StoreStep ==
  ASSUME AuthInv, AuthTypeOK', NEW r \in Requests, Clear(r) \/ Keep(r) \/ Hold(r)
  PROVE  AuthInv'
<1>1. UNCHANGED grants
  BY DEF Clear, Keep, Hold, worldVars
<1>2. CASE Clear(r)
  <2>1. StoreHome'
    BY <1>1, <1>2 DEF Clear, StoreHome, Home, AuthInv, AuthTypeOK, SessionTypeOK, TokensStayHome
  <2>2. /\ Apart(r) /\ pc'[r] = "registering" /\ at[r] # None
        /\ UNCHANGED <<at, got, asking>>
    BY <1>2 DEF Clear, Goto, callVars, Apart, AuthInv, AuthTypeOK, StepsTrue, StepTrue
  <2>3. StepTrue(r)' /\ AttemptHome(r)'
    BY <2>2 DEF StepTrue, AttemptHome, AuthInv, StepsTrue
  <2> QED
    BY <1>1, <2>1, <2>2, <2>3, OneAttempt DEF Grows
<1>3. CASE Keep(r)
  <2>1. /\ pc[r] = "keeping" /\ pc' = [pc EXCEPT ![r] = "holding"]
        /\ UNCHANGED <<at, got, asking>> /\ store' = [store EXCEPT ![Key(r)] = got[r]]
    BY <1>3 DEF Keep, Goto, callVars
  <2>2. Home(Key(r), got[r]) /\ at[r] # None /\ got[r] # None
    BY <2>1 DEF AuthInv, TokensStayHome, AttemptHome, StepsTrue, StepTrue
  <2>3. StoreHome'
    BY <1>1, <2>1, <2>2 DEF StoreHome, Home, AuthInv, AuthTypeOK, SessionTypeOK, TokensStayHome
  <2>4. Apart(r) /\ pc'[r] = "holding"
    BY <2>1 DEF Apart, AuthInv, AuthTypeOK
  <2>5. StepTrue(r)' /\ AttemptHome(r)'
    BY <1>1, <2>1, <2>2, <2>4 DEF StepTrue, AttemptHome, Home, Key, AuthInv, StepsTrue
  <2> QED
    BY <1>1, <2>3, <2>4, <2>5, OneAttempt DEF Grows
<1>4. CASE Hold(r)
  <2>1. Apart(r) /\ pc'[r] = "retrying" /\ at'[r] = None /\ UNCHANGED store
    BY <1>4 DEF Hold, Goto, Forget, Apart, AuthInv, AuthTypeOK, CallTypeOK
  <2>2. StepTrue(r)' /\ AttemptHome(r)'
    BY <2>1 DEF StepTrue, AttemptHome
  <2> QED
    BY <1>1, <2>1, <2>2, StoreStaysHome, OneAttempt DEF Grows
<1> QED
  BY <1>2, <1>3, <1>4

\* Every step keeps the types.
LEMMA TypesStep ==
  ASSUME AuthInv, AuthNext
  PROVE  AuthTypeOK'
<1>1. AuthTypeOK /\ \A r \in Requests : StepTrue(r)
  BY DEF AuthInv, StepsTrue
<1>2. ASSUME NEW r \in Requests, Working(r)
      PROVE  AuthTypeOK'
  BY <1>1, <1>2, SendTypes, CountTypes, WidenTypes, DiscoverTypes, LookTypes, RefreshTypes,
     ClearTypes, RegisterTypes, ApplyTypes, CallbackTypes, ExchangeTypes, KeepTypes, HoldTypes
     DEF Working
<1>3. ASSUME NEW r \in Requests, Answering(r)
      PROVE  AuthTypeOK'
  BY <1>1, <1>3, ServeTypes, RejectTypes, ForbidTypes DEF Answering
<1> QED
  BY <1>1, <1>2, <1>3, LineTypes, UpsetTypes DEF AuthNext

\* What holds at the start is kept by every step.
LEMMA InvStep ==
  ASSUME AuthInv, [AuthNext]_authVars
  PROVE  AuthInv'
<1>1. CASE UNCHANGED authVars
  BY <1>1 DEF authVars, worldVars, sessionVars, callVars, AuthInv, AuthTypeOK, WorldTypeOK,
              SessionTypeOK, CallTypeOK, Token, Stored, TokensStayHome, StoreHome,
              AttemptHome, Home, Key, StepsTrue, StepTrue
<1>2. CASE AuthNext
  <2>1. AuthTypeOK'
    BY <1>2, TypesStep
  <2>2. ASSUME NEW r \in Requests, Working(r) \/ Answering(r) \/ Preconnect(r) \/ HangUp(r)
        PROVE  AuthInv'
    BY <2>1, <2>2, RequestStep, LookStep, RefreshStep, ExchangeStep, FlowStep, StoreStep
       DEF Working, Answering
  <2>3. CASE (\E t \in Token : Expire(t) \/ Revoke(t)) \/ (\E i \in Issuers : Migrate(i))
    <3>1. UNCHANGED <<grants, sessionVars, pc, callVars>>
      BY <2>3 DEF Expire, Revoke, Migrate
    <3> QED
      BY <2>1, <3>1 DEF sessionVars, callVars, AuthInv, TokensStayHome, StoreHome,
                        AttemptHome, Home, Key, StepsTrue, StepTrue
  <2> QED
    BY <1>2, <2>2, <2>3 DEF AuthNext
<1> QED
  BY <1>1, <1>2

\* The invariant holds at the start: what is stored is the first issuer's.
LEMMA InitInv == AuthInit => AuthInv
<1> SUFFICES ASSUME AuthInit PROVE AuthInv
  OBVIOUS
<1>1. AuthTypeOK
  BY InitTypes
<1>2. StoreHome
  BY DEF AuthInit, StoreHome, Home
<1>3. \A r \in Requests : StepTrue(r) /\ AttemptHome(r)
  BY DEF AuthInit, StepTrue, AttemptHome
<1> QED
  BY <1>1, <1>2, <1>3 DEF AuthInv, TokensStayHome, StepsTrue

-----------------------------------------------------------------------------
(* The user is asked no more than the budget and one prompt per request. *)

\* Stages of an attempt that was let through and has not asked the user yet.
Before == {"widening", "discovering", "looking", "refreshing", "clearing", "registering",
           "applying"}

\* A step of one request brings no prospect when it had one, or is past asking.
LEMMA NoNewProspect ==
  ASSUME AuthTypeOK, NEW r \in Requests, NEW to, pc' = [pc EXCEPT ![r] = to],
         held' = held \/ held' # None,
         \/ to \in Before /\ pc[r] \in Before
         \/ to \in {"sent", "challenged"} /\ UNCHANGED held /\ Prospect(r)
         \/ to \in {"sent", "challenged"} /\ held' # None
         \/ to \notin Before \cup {"idle", "sent", "challenged"}
  PROVE  Prospects' \subseteq Prospects
<1>1. pc'[r] = to /\ \A s \in Requests \ {r} : pc'[s] = pc[s]
  BY DEF AuthTypeOK
<1>2. \A s \in Requests \ {r} : Prospect(s)' => Prospect(s)
  BY <1>1 DEF Prospect
<1>3. Prospect(r)' => Prospect(r)
  BY <1>1 DEF Prospect, Before
<1> QED
  BY <1>2, <1>3 DEF Prospects

\* How many prospects there are is a number, and no more when there are fewer.
LEMMA FewerProspects ==
  ASSUME NEW r \in Requests
  PROVE  /\ IsFiniteSet(Prospects) /\ Cardinality(Prospects) \in Nat
         /\ Cardinality(Prospects)' \in Nat
         /\ Prospects' \subseteq Prospects => Cardinality(Prospects)' <= Cardinality(Prospects)
         /\ Prospects' \subseteq Prospects \cup {r} =>
              Cardinality(Prospects)' <= Cardinality(Prospects) + 1
         /\ r \in Prospects /\ Prospects' \subseteq Prospects \ {r} =>
              Cardinality(Prospects)' + 1 <= Cardinality(Prospects)
<1>1. Prospects \subseteq Requests /\ Prospects' \subseteq Requests
  BY DEF Prospects
<1>2. IsFiniteSet(Prospects) /\ IsFiniteSet(Prospects')
  BY <1>1, FS_Subset
<1>3. /\ Cardinality(Prospects) \in Nat /\ Cardinality(Prospects)' \in Nat
      /\ Cardinality(Prospects \cup {r}) \in Nat /\ Cardinality(Prospects \ {r}) \in Nat
  BY <1>2, FS_CardinalityType, FS_AddElement, FS_RemoveElement
<1>4. ASSUME Prospects' \subseteq Prospects
      PROVE  Cardinality(Prospects)' <= Cardinality(Prospects)
  BY <1>2, <1>4, FS_Subset
<1>5. ASSUME Prospects' \subseteq Prospects \cup {r}
      PROVE  Cardinality(Prospects)' <= Cardinality(Prospects) + 1
  <2>1. IsFiniteSet(Prospects \cup {r}) /\
        Cardinality(Prospects \cup {r}) <= Cardinality(Prospects) + 1
    <3>1. Cardinality(Prospects \cup {r}) =
            IF r \in Prospects THEN Cardinality(Prospects) ELSE Cardinality(Prospects) + 1
      BY <1>2, FS_AddElement, Zenon
    <3>2. IsFiniteSet(Prospects \cup {r})
      BY <1>2, FS_AddElement, Zenon
    <3> QED
      BY <1>3, <3>1, <3>2
  <2>2. Cardinality(Prospects)' <= Cardinality(Prospects \cup {r})
    BY <1>5, <2>1, FS_Subset
  <2> QED
    BY <1>3, <2>1, <2>2
<1>6. ASSUME r \in Prospects, Prospects' \subseteq Prospects \ {r}
      PROVE  Cardinality(Prospects)' + 1 <= Cardinality(Prospects)
  <2>1. IsFiniteSet(Prospects \ {r}) /\ Cardinality(Prospects \ {r}) = Cardinality(Prospects) - 1
    BY <1>2, <1>6, FS_RemoveElement
  <2>2. Cardinality(Prospects)' <= Cardinality(Prospects \ {r})
    BY <1>6, <2>1, FS_Subset
  <2> QED
    BY <1>3, <2>1, <2>2
<1> QED
  BY <1>2, <1>3, <1>4, <1>5, <1>6

Tally == prompts + Cardinality(Prospects) + BudgetLeft <= MaxUpgrades + Cardinality(Requests)

\* The tally stands while prospects only go, when one of them becomes a prompt, and
\* when the budget buys one.
LEMMA TallyStands ==
  ASSUME AuthTypeOK, Tally, NEW r \in Requests,
         \/ /\ UNCHANGED prompts /\ upgrades' \in {upgrades, upgrades + 1}
            /\ Prospects' \subseteq Prospects
         \/ /\ prompts' = prompts + 1 /\ UNCHANGED upgrades
            /\ r \in Prospects /\ Prospects' \subseteq Prospects \ {r}
         \/ /\ UNCHANGED prompts /\ upgrades' = upgrades + 1 /\ ~BudgetSpent
            /\ Prospects' \subseteq Prospects \cup {r}
  PROVE  Tally'
<1> DEFINE n == Cardinality(Prospects)
           c == Cardinality(Requests)
<1>1. /\ n \in Nat /\ n' \in Nat
      /\ Prospects' \subseteq Prospects => n' <= n
      /\ Prospects' \subseteq Prospects \cup {r} => n' <= n + 1
      /\ r \in Prospects /\ Prospects' \subseteq Prospects \ {r} => n' + 1 <= n
  BY FewerProspects
<1>2. c \in Nat /\ prompts \in Nat /\ upgrades \in Nat
  BY FS_CardinalityType DEF AuthTypeOK, SessionTypeOK
<1>3. prompts + n + BudgetLeft <= MaxUpgrades + c
  BY DEF Tally
<1> HIDE DEF n, c
<1>4. \/ UNCHANGED prompts /\ upgrades' \in {upgrades, upgrades + 1} /\ n' <= n
      \/ prompts' = prompts + 1 /\ UNCHANGED upgrades /\ n' + 1 <= n
      \/ UNCHANGED prompts /\ upgrades' = upgrades + 1 /\ ~BudgetSpent /\ n' <= n + 1
  BY <1>1
<1>5. /\ BudgetLeft \in Nat /\ BudgetLeft' \in Nat
      /\ upgrades' \in {upgrades, upgrades + 1} => BudgetLeft' <= BudgetLeft
      /\ upgrades' = upgrades + 1 /\ ~BudgetSpent => BudgetLeft' + 1 = BudgetLeft
  <2>1. upgrades' \in {upgrades, upgrades + 1}
    BY <1>4
  <2> QED
    BY <1>2, <2>1, BudgetShrinks
<1>6. prompts' \in Nat /\ MaxUpgrades + c \in Nat
  BY <1>2, <1>4
<1>7. prompts' + n' + BudgetLeft' <= MaxUpgrades + c
  <2>1. \/ prompts' = prompts /\ n' <= n /\ BudgetLeft' <= BudgetLeft
        \/ prompts' = prompts + 1 /\ n' + 1 <= n /\ BudgetLeft' <= BudgetLeft
        \/ prompts' = prompts /\ n' <= n + 1 /\ BudgetLeft' + 1 = BudgetLeft
    <3>1. UNCHANGED upgrades => upgrades' \in {upgrades, upgrades + 1}
      OBVIOUS
    <3> QED
      BY <1>4, <1>5, <3>1, Zenon
  <2> DEFINE b == BudgetLeft
             bound == MaxUpgrades + c
  <2>2. /\ prompts \in Nat /\ n \in Nat /\ b \in Nat /\ bound \in Nat
        /\ prompts' \in Nat /\ n' \in Nat /\ b' \in Nat
        /\ prompts + n + b <= bound
    BY <1>1, <1>2, <1>3, <1>5, <1>6
  <2>3. \/ prompts' = prompts /\ n' <= n /\ b' <= b
        \/ prompts' = prompts + 1 /\ n' + 1 <= n /\ b' <= b
        \/ prompts' = prompts /\ n' <= n + 1 /\ b' + 1 = b
    BY <2>1
  <2> HIDE DEF b, bound
  <2>4. prompts' + n' + b' <= bound
    <3>1. PICK q, m, d \in Nat : q = prompts' /\ m = n' /\ d = b'
      BY <2>2
    <3>2. q + m + d <= bound
      <4>1. \/ q = prompts /\ m <= n /\ d <= b
            \/ q = prompts + 1 /\ m + 1 <= n /\ d <= b
            \/ q = prompts /\ m <= n + 1 /\ d + 1 = b
        BY <2>3, <3>1, Zenon
      <4> QED
        BY <2>2, <4>1, SumsStand
    <3> QED
      BY <3>1, <3>2, Zenon
  <2> QED
    BY <2>4 DEF b, bound
<1> QED
  BY <1>7 DEF Tally, n, c

\* The budget lets an attempt through, or ends it.
LEMMA CountTally ==
  ASSUME AuthTypeOK, Tally, NEW r \in Requests, Count(r)
  PROVE  Tally'
<1>1. /\ pc[r] = "challenged" /\ UNCHANGED <<held, prompts>>
      /\ \A s \in Requests \ {r} : pc'[s] = pc[s]
      /\ upgrades' \in {upgrades, upgrades + 1}
  BY DEF Count, End, Goto, AuthTypeOK
<1>2. CASE pc' = [pc EXCEPT ![r] = "ended"]
  <2>1. Prospects' \subseteq Prospects
    BY <1>1, <1>2, NoNewProspect DEF Before
  <2> QED
    BY <1>1, <2>1, TallyStands
<1>3. CASE pc' = [pc EXCEPT ![r] = "widening"] /\ held = None
  <2>1. Prospects' \subseteq Prospects
    BY <1>1, <1>3 DEF Prospects, Prospect
  <2> QED
    BY <1>1, <2>1, TallyStands
<1>4. CASE pc' = [pc EXCEPT ![r] = "widening"] /\ held # None
  <2>1. upgrades' = upgrades + 1 /\ ~BudgetSpent
    <3>1. pc'[r] = "widening"
      BY <1>4 DEF AuthTypeOK
    <3> QED
      BY <1>4, <3>1 DEF Count, Counts, End, Goto, AuthTypeOK
  <2>2. Prospects' \subseteq Prospects \cup {r}
    BY <1>1 DEF Prospects, Prospect
  <2> QED
    BY <1>1, <2>1, <2>2, TallyStands
<1> QED
  BY <1>2, <1>3, <1>4 DEF Count, End, Goto

\* A prompt is that of a prospect, which has none after it.
LEMMA PromptTally ==
  ASSUME AuthTypeOK, Tally, NEW r \in Requests, NEW from \in {"registering", "applying"},
         NEW as, Prompt(r, from, as), UNCHANGED <<held, upgrades>>
  PROVE  Tally'
<1>1. /\ pc[r] \in Before /\ pc' = [pc EXCEPT ![r] = "waiting"] /\ prompts' = prompts + 1
  BY DEF Prompt, Goto, Before
<1>2. r \in Prospects /\ Prospects' \subseteq Prospects \ {r}
  <2>1. pc'[r] = "waiting" /\ \A s \in Requests \ {r} : pc'[s] = pc[s]
    BY <1>1 DEF AuthTypeOK
  <2> QED
    BY <1>1, <2>1 DEF Prospects, Prospect, Before
<1> QED
  BY <1>1, <1>2, TallyStands

\* The other steps of a request ask nobody and buy nothing.
LEMMA OtherTally ==
  ASSUME AuthInv, ConsentInv, NEW r \in Requests,
         \/ Working(r) /\ ~Count(r)
         \/ Answering(r) \/ Preconnect(r) \/ HangUp(r)
  PROVE  Tally'
<1>1. AuthTypeOK /\ Tally /\ (pc[r] = "retrying" => held # None)
  BY DEF AuthInv, ConsentInv, Tally
<1>2. ASSUME UNCHANGED <<prompts, upgrades>>, Prospects' \subseteq Prospects
      PROVE  Tally'
  BY <1>1, <1>2, TallyStands
<1>3. CASE Send(r)
  <2>1. /\ UNCHANGED <<prompts, upgrades, held>> /\ pc' = [pc EXCEPT ![r] = "sent"]
        /\ Prospect(r) \/ held' # None
    BY <1>1, <1>3 DEF Send, Goto, sessionVars, Prospect
  <2> QED
    BY <1>1, <1>2, <2>1, NoNewProspect
<1>4. CASE Answering(r)
  <2>1. /\ pc[r] = "sent" /\ UNCHANGED <<prompts, upgrades, held>>
        /\ pc' = [pc EXCEPT ![r] = "challenged"] \/ pc' = [pc EXCEPT ![r] = "ended"]
    BY <1>4 DEF Answering, Serve, Reject, Forbid, Refuse, End, Goto, sessionVars
  <2>2. Prospect(r) \/ held' # None
    BY <2>1 DEF Prospect
  <2> QED
    BY <1>1, <1>2, <2>1, <2>2, NoNewProspect DEF Before
<1>5. CASE Widen(r) \/ Discover(r) \/ Look(r) \/ Refresh(r) \/ Clear(r)
  <2>1. /\ pc[r] \in Before /\ UNCHANGED <<prompts, upgrades, held>>
        /\ \E to \in Before \cup {"ended", "holding", "keeping"} : pc' = [pc EXCEPT ![r] = to]
    BY <1>5 DEF Widen, Discover, Look, Refresh, Clear, End, Goto, sessionVars, Before
  <2> QED
    BY <1>1, <1>2, <2>1, NoNewProspect DEF Before
<1>6. CASE Register(r) \/ Apply(r)
  <2>1. UNCHANGED <<upgrades, held>>
    BY <1>6 DEF Register, Apply, sessionVars
  <2>2. CASE \E from \in {"registering", "applying"} : \E as : Prompt(r, from, as)
    BY <1>1, <2>1, <2>2, PromptTally
  <2>3. CASE /\ UNCHANGED prompts /\ pc[r] \in Before
             /\ pc' = [pc EXCEPT ![r] = "applying"] \/ pc' = [pc EXCEPT ![r] = "ended"]
    <3>1. Prospects' \subseteq Prospects
      BY <1>1, <2>1, <2>3, NoNewProspect DEF Before
    <3> QED
      BY <1>2, <2>1, <2>3, <3>1
  <2> QED
    BY <1>6, <2>2, <2>3 DEF Register, Apply, End, Goto, Before
<1>7. CASE Callback(r) \/ TimeOut(r) \/ Join(r) \/ Exchange(r) \/ Keep(r)
  <2>1. /\ UNCHANGED <<prompts, upgrades, held>>
        /\ \E to \in {"exchanging", "joining", "keeping", "holding", "ended"} :
             pc' = [pc EXCEPT ![r] = to]
    BY <1>7 DEF Callback, TimeOut, Join, Exchange, Keep, End, Goto, sessionVars
  <2> QED
    BY <1>1, <1>2, <2>1, NoNewProspect DEF Before
<1>8. CASE Hold(r)
  <2>1. /\ UNCHANGED <<prompts, upgrades>> /\ pc' = [pc EXCEPT ![r] = "retrying"]
        /\ pc[r] = "holding" /\ held' = got[r].token
    BY <1>8 DEF Hold, Goto
  <2>2. held' # None
    BY <2>1 DEF AuthInv, StepsTrue, StepTrue, AuthTypeOK, CallTypeOK, Stored, Token
  <2> QED
    BY <1>1, <1>2, <2>1, <2>2, NoNewProspect DEF Before
<1>9. CASE Preconnect(r) \/ HangUp(r)
  <2>1. UNCHANGED <<prompts, upgrades, held>>
    BY <1>9 DEF Preconnect, HangUp, sessionVars
  <2>2. CASE pc' = [pc EXCEPT ![r] = "joining"]
    BY <1>1, <1>2, <2>1, <2>2, NoNewProspect DEF Before
  <2>3. CASE UNCHANGED pc
    <3>1. Prospects' \subseteq Prospects
      BY <2>1, <2>3 DEF Prospects, Prospect
    <3> QED
      BY <1>2, <2>1, <3>1
  <2> QED
    BY <1>9, <2>2, <2>3 DEF Preconnect, HangUp
<1> QED
  BY <1>3, <1>4, <1>5, <1>6, <1>7, <1>8, <1>9 DEF Working

\* Every step keeps the tally, and who retries has a token.
LEMMA ConsentStep ==
  ASSUME AuthInv, ConsentInv, [AuthNext]_authVars
  PROVE  ConsentInv'
<1>1. AuthTypeOK /\ Tally
  BY DEF AuthInv, ConsentInv, Tally
<1>2. ASSUME NEW r \in Requests, Working(r) \/ Answering(r) \/ Preconnect(r) \/ HangUp(r)
      PROVE  Tally'
  BY <1>1, <1>2, CountTally, OtherTally
<1>3. CASE UNCHANGED <<pc, held, upgrades, prompts>>
  BY <1>3 DEF ConsentInv, Prospects, Prospect, BudgetLeft, BudgetSpent
<1>4. ASSUME NEW r \in Requests, Working(r) \/ Answering(r) \/ Preconnect(r) \/ HangUp(r),
             NEW s \in Requests, pc'[s] = "retrying"
      PROVE  held' # None
  <2>1. CASE Hold(r)
    <3>1. pc[r] = "holding" /\ held' = got[r].token
      BY <2>1 DEF Hold, Goto
    <3> QED
      BY <3>1 DEF AuthInv, StepsTrue, StepTrue, AuthTypeOK, CallTypeOK, Stored, Token
  <2>2. CASE ~Hold(r)
    <3>1. UNCHANGED held
      BY <1>4, <2>2 DEF Working, Answering, Send, Count, Widen, Discover, Look, Refresh, Clear,
         Register, Apply, Callback, TimeOut, Join, Exchange, Keep, Serve, Reject, Forbid,
         Refuse, Preconnect, HangUp, sessionVars
    <3>2. UNCHANGED pc \/ \E to \in Stages \ {"retrying"} : pc' = [pc EXCEPT ![r] = to]
      BY <1>4, <2>2 DEF Working, Answering, Send, Count, Widen, Discover, Look, Refresh, Clear,
         Register, Apply, Callback, TimeOut, Join, Exchange, Keep, Serve, Reject, Forbid,
         Refuse, Preconnect, HangUp, Prompt, End, Goto
    <3>3. pc[s] = "retrying"
      BY <1>1, <1>4, <3>2 DEF AuthTypeOK
    <3> QED
      BY <3>1, <3>3 DEF ConsentInv
  <2> QED
    BY <2>1, <2>2
<1>5. CASE \E r \in Requests : Working(r) \/ Answering(r) \/ Preconnect(r) \/ HangUp(r)
  BY <1>2, <1>4, <1>5 DEF ConsentInv, Tally
<1>6. CASE (\E t \in Token : Expire(t) \/ Revoke(t)) \/ (\E i \in Issuers : Migrate(i))
  BY <1>3, <1>6 DEF Expire, Revoke, Migrate, sessionVars
<1>7. CASE UNCHANGED authVars
  BY <1>3, <1>7 DEF authVars, sessionVars
<1> QED
  BY <1>5, <1>6, <1>7 DEF AuthNext

\* At the start every request may come to a prompt, and the budget is whole.
LEMMA InitConsent == AuthInit => ConsentInv
<1> SUFFICES ASSUME AuthInit PROVE ConsentInv
  OBVIOUS
<1>1. Prospects = Requests
  BY DEF AuthInit, Prospects, Prospect
<1>2. prompts = 0 /\ upgrades = 0 /\ \A r \in Requests : pc[r] = "idle"
  BY DEF AuthInit
<1>3. Cardinality(Requests) \in Nat
  BY FS_CardinalityType
<1>4. BudgetLeft = MaxUpgrades
  BY <1>2 DEF BudgetLeft, BudgetSpent
<1> QED
  BY <1>1, <1>2, <1>3, <1>4 DEF ConsentInv

-----------------------------------------------------------------------------
(* A step-up is never destructive. *)

\* Where an attempt knows the scopes it wants.
Wanting == {"discovering", "looking", "refreshing", "clearing", "registering", "applying",
            "waiting", "joining", "exchanging", "keeping", "holding"}

\* The world stays what it is, tokens are only added, and only an attempt that ends
\* well changes what is held.
LEMMA Lasting ==
  ASSUME AuthInv, AuthNext
  PROVE  /\ UNCHANGED world /\ Grows
         /\ UNCHANGED held \/ \E r \in Requests : Hold(r)
<1>1. ASSUME NEW r \in Requests, Refresh(r)
      PROVE  Grows
  <2>1. pc[r] = "refreshing" /\ (UNCHANGED grants \/ Renewed(r, got[r].refresh))
    BY <1>1 DEF Refresh, Goto
  <2>2. at[r] # None /\ got[r] # None /\ got[r].refresh # None
    BY <2>1 DEF AuthInv, StepsTrue, StepTrue
  <2> QED
    BY <2>1, <2>2, RenewedSteps DEF AuthInv, Grows
<1>2. ASSUME NEW r \in Requests, Exchange(r)
      PROVE  Grows
  <2>1. pc[r] = "exchanging" /\ (UNCHANGED grants \/ PostTokenRequest(r, asking[r]))
    BY <1>2 DEF Exchange, End, Goto
  <2>2. at[r] # None /\ asking[r] \in Asking
    BY <2>1 DEF AuthInv, StepsTrue, StepTrue, AuthTypeOK, CallTypeOK
  <2> QED
    BY <2>1, <2>2, PostTypes DEF AuthInv, Grows
<1>3. ASSUME NEW r \in Requests, Working(r) \/ Answering(r) \/ Preconnect(r) \/ HangUp(r),
             ~Refresh(r), ~Exchange(r)
      PROVE  UNCHANGED <<world, grants>> /\ (UNCHANGED held \/ Hold(r))
  BY <1>3 DEF Working, Answering, Send, Count, Widen, Discover, Look, Clear, Register, Apply,
     Callback, TimeOut, Join, Keep, Hold, Serve, Reject, Forbid, Refuse, Preconnect, HangUp,
     worldVars, sessionVars
<1>4. ASSUME NEW r \in Requests, Refresh(r) \/ Exchange(r)
      PROVE  UNCHANGED <<world, held>>
  BY <1>4 DEF Refresh, Exchange, sessionVars
<1>5. CASE (\E t \in Token : Expire(t) \/ Revoke(t)) \/ (\E i \in Issuers : Migrate(i))
  BY <1>5 DEF Expire, Revoke, Migrate, sessionVars, Grows
<1> QED
  BY <1>1, <1>2, <1>3, <1>4, <1>5 DEF AuthNext, Grows

\* What is unchanged is held, or was, has the scopes it had.
LEMMA SameScopes ==
  ASSUME AuthTypeOK, Grows, NEW t \in Token \cup {None}
  PROVE  ScopesOf(t)' = ScopesOf(t)
<1>1. t # None => grants'[t] = grants[t]
  BY TokensStay DEF Grows
<1> QED
  BY <1>1 DEF ScopesOf

\* While requests follow one another a step of one finds the others at rest.
LEMMA OneAtATime ==
  ASSUME AuthTypeOK, InTurn, NEW r \in Requests, NEW to \in Stages, pc' = [pc EXCEPT ![r] = to],
         Active(r) \/ \A s \in Requests \ {r} : ~Active(s)
  PROVE  InTurn' /\ \A s \in Requests \ {r} : Widened(s)'
<1>1. pc'[r] = to /\ \A s \in Requests \ {r} : pc'[s] = pc[s]
  BY DEF AuthTypeOK
<1>2. \A s \in Requests \ {r} : pc'[s] \in {"idle", "ended"}
  BY <1>1 DEF InTurn, Active
<1> QED
  BY <1>1, <1>2 DEF InTurn, Active, Widened

\* Steps that change neither what is held, wanted nor granted.
LEMMA WidenedStays ==
  ASSUME AuthTypeOK, NEW r \in Requests, NEW to \in Stages, pc' = [pc EXCEPT ![r] = to],
         to \in Wanting => /\ Widened(r) /\ pc[r] \in Wanting
                           /\ UNCHANGED <<held, wanted, grants>>,
         to \in {"waiting", "exchanging"} => wanted[r] \subseteq asking'[r].scopes,
         to \in {"refreshing", "keeping", "holding"} => wanted[r] \subseteq ScopesOf(got'[r].token)
  PROVE  Widened(r)'
<1>1. pc'[r] = to
  BY DEF AuthTypeOK
<1>2. CASE to \notin Wanting
  BY <1>1, <1>2 DEF Widened, Wanting
<1>3. CASE to \in Wanting
  <2>1. ScopesOf(held)' = ScopesOf(held) /\ wanted' = wanted
    BY <1>3 DEF ScopesOf
  <2>2. ScopesOf(got'[r].token) = ScopesOf(got[r].token)'
    BY <1>3 DEF ScopesOf
  <2> QED
    BY <1>1, <1>3, <2>1, <2>2 DEF Widened, Wanting
<1> QED
  BY <1>2, <1>3

\* A grant of a server that grants what it is asked for has the scopes asked for.
LEMMA FairGrant ==
  ASSUME AuthTypeOK, world.grantor # "stingy", NEW r \in Requests, NEW request,
         PostTokenRequest(r, request)
  PROVE  grants'[Len(grants) + 1].scopes = request.scopes
<1>1. PICK s \in MayGrant(request.scopes) : Granted(r, s, request.client)
  BY DEF PostTokenRequest
<1>2. s = request.scopes
  BY <1>1 DEF MayGrant
<1>3. grants \in Seq(Grant)
  BY DEF AuthTypeOK, WorldTypeOK
<1>4. PICK g : grants' = Append(grants, g) /\ g.scopes = request.scopes
  BY <1>1, <1>2 DEF Granted
<1>5. grants'[Len(grants) + 1] = g
  BY <1>3, <1>4
<1> QED
  BY <1>4, <1>5

\* A new token keeps what is held within what its attempt wanted.
LEMMA GrantWidens ==
  ASSUME AuthInv, Grows, world.grantor # "stingy", NEW r \in Requests, Widened(r),
         pc[r] \in {"refreshing", "exchanging"}, pc' = [pc EXCEPT ![r] = "keeping"],
         UNCHANGED <<held, wanted>>,
         NEW request, PostTokenRequest(r, request), wanted[r] \subseteq request.scopes,
         got'[r].token = Len(grants) + 1
  PROVE  Widened(r)'
<1>1. pc'[r] = "keeping" /\ ScopesOf(held) \subseteq wanted[r] /\ AuthTypeOK
  BY DEF AuthInv, AuthTypeOK, Widened
<1>2. ScopesOf(held)' = ScopesOf(held)
  <2>1. held \in Token \cup {None}
    BY <1>1 DEF AuthTypeOK, SessionTypeOK
  <2>2. \A t \in Token \cup {None} : ScopesOf(t)' = ScopesOf(t)
    BY <1>1, SameScopes
  <2> QED
    BY <2>1, <2>2 DEF ScopesOf
<1>3. ScopesOf(got[r].token)' = request.scopes
  <2>1. Len(grants) + 1 # None
    BY <1>1 DEF AuthTypeOK, WorldTypeOK
  <2> QED
    BY <1>1, <2>1, FairGrant DEF ScopesOf
<1> QED
  BY <1>1, <1>2, <1>3 DEF Widened

\* What each step of an attempt does for what it wants.
LEMMA AttemptWidens ==
  ASSUME AuthInv, Grows, world.grantor # "stingy", NEW r \in Requests, Widened(r),
         Working(r) \/ Answering(r) \/ Preconnect(r) \/ HangUp(r)
  PROVE  Widened(r)'
<1>1. AuthTypeOK /\ StepTrue(r)
  BY DEF AuthInv, StepsTrue
<1>2. CASE \E to \in Stages \ Wanting : pc' = [pc EXCEPT ![r] = to]
  BY <1>1, <1>2, WidenedStays DEF Wanting
<1>3. ASSUME NEW from \in Wanting, Goto(r, from, "ended")
      PROVE  Widened(r)'
  BY <1>2, <1>3 DEF Goto, Wanting
<1>4. CASE Send(r) \/ Answering(r) \/ Count(r) \/ Join(r) \/ Hold(r)
  BY <1>2, <1>4 DEF Send, Answering, Serve, Reject, Forbid, Refuse, Count, Join, Hold, End,
     Goto, Wanting
<1>5. CASE Widen(r)
  <2>1. /\ pc'[r] = "discovering" /\ wanted'[r] = ScopesOf(held) \cup challenge[r]
        /\ ScopesOf(held)' = ScopesOf(held)
    BY <1>1, <1>5 DEF Widen, Goto, Union, ScopesOf, worldVars, sessionVars, AuthTypeOK, CallTypeOK
  <2> QED
    BY <2>1 DEF Widened
<1>6. CASE /\ \E to \in {"looking", "clearing", "registering", "applying", "joining"} :
                pc' = [pc EXCEPT ![r] = to]
           /\ pc[r] \in Wanting /\ UNCHANGED <<held, wanted, grants>>
  BY <1>1, <1>6, WidenedStays
<1>7. CASE Discover(r) \/ Clear(r) \/ TimeOut(r)
  BY <1>2, <1>6, <1>7 DEF Discover, Clear, TimeOut, End, Goto, Wanting, worldVars, sessionVars,
     callVars
<1>8. CASE Look(r)
  <2>1. UNCHANGED <<held, wanted, grants>> /\ pc[r] = "looking"
    BY <1>8 DEF Look, Goto, worldVars, sessionVars
  <2>2. CASE /\ Covers(r) /\ got' = [got EXCEPT ![r] = Kept(r)]
             /\ pc' = [pc EXCEPT ![r] = "holding"] \/ pc' = [pc EXCEPT ![r] = "refreshing"]
    <3>1. wanted[r] \subseteq ScopesOf(got'[r].token)
      BY <1>1, <2>2 DEF Covers, AuthTypeOK, CallTypeOK
    <3> QED
      BY <1>1, <2>1, <2>2, <3>1, WidenedStays DEF Wanting
  <2>3. CASE pc' = [pc EXCEPT ![r] = "clearing"] \/ pc' = [pc EXCEPT ![r] = "registering"]
    BY <1>6, <2>1, <2>3 DEF Wanting
  <2> QED
    BY <1>8, <2>2, <2>3 DEF Look, Goto
<1>9. CASE Refresh(r)
  <2>1. UNCHANGED <<held, wanted>> /\ pc[r] = "refreshing" /\ at[r] # None /\ got[r] # None
    BY <1>1, <1>9 DEF Refresh, Goto, sessionVars, StepTrue
  <2>2. CASE pc' = [pc EXCEPT ![r] = "clearing"] /\ UNCHANGED grants
    BY <1>6, <2>1, <2>2 DEF Wanting
  <2>3. CASE pc' = [pc EXCEPT ![r] = "keeping"] /\ Renewed(r, got[r].refresh)
    <3> DEFINE request == [client |-> RefreshClient(r), scopes |-> ScopesOf(got[r].token)]
    <3>1. /\ PostTokenRequest(r, request) /\ got'[r].token = Len(grants) + 1
      BY <1>1, <2>3 DEF Renewed, AuthTypeOK, CallTypeOK
    <3>2. wanted[r] \subseteq request.scopes
      BY <2>1 DEF Widened
    <3> HIDE DEF request
    <3> QED
      BY <2>1, <2>3, <3>1, <3>2, GrantWidens
  <2> QED
    BY <1>9, <2>2, <2>3 DEF Refresh, Goto
<1>10. CASE Register(r) \/ Apply(r)
  <2>1. UNCHANGED <<held, grants>> /\ pc[r] \in {"registering", "applying"}
    BY <1>10 DEF Register, Apply, Prompt, End, Goto, worldVars, sessionVars
  <2>2. CASE \E from, as : Prompt(r, from, as)
    <3>1. PICK from, as : Prompt(r, from, as)
      BY <2>2
    <3>2. /\ pc' = [pc EXCEPT ![r] = "waiting"] /\ UNCHANGED wanted
          /\ asking'[r] = AuthorizationUrl(r, as)
      BY <1>1, <3>1 DEF Prompt, Goto, AuthTypeOK, CallTypeOK
    <3>3. wanted[r] \subseteq asking'[r].scopes
      BY <3>2 DEF AuthorizationUrl, Asked
    <3> QED
      BY <1>1, <2>1, <3>2, <3>3, WidenedStays DEF Wanting
  <2>3. CASE pc' = [pc EXCEPT ![r] = "applying"] /\ UNCHANGED wanted
    BY <1>6, <2>1, <2>3 DEF Wanting
  <2>4. CASE pc' = [pc EXCEPT ![r] = "ended"]
    BY <1>2, <2>4 DEF Wanting
  <2> QED
    BY <1>10, <2>2, <2>3, <2>4 DEF Register, Apply, End, Goto, callVars
<1>11. CASE Callback(r)
  <2>1. CASE pc' = [pc EXCEPT ![r] = "exchanging"] /\ UNCHANGED callVars
    <3>1. UNCHANGED <<held, wanted, grants, asking>> /\ pc[r] = "waiting"
      BY <1>11, <2>1 DEF Callback, End, Goto, worldVars, sessionVars, callVars
    <3>2. wanted[r] \subseteq asking'[r].scopes
      BY <3>1 DEF Widened
    <3> QED
      BY <1>1, <2>1, <3>1, <3>2, WidenedStays DEF Wanting
  <2>2. CASE pc' = [pc EXCEPT ![r] = "ended"]
    BY <1>2, <2>2 DEF Wanting
  <2> QED
    BY <1>11, <2>1, <2>2 DEF Callback, End, Goto
<1>12. CASE Exchange(r)
  <2>1. UNCHANGED held /\ pc[r] = "exchanging" /\ at[r] # None
    BY <1>1, <1>12 DEF Exchange, End, Goto, sessionVars, StepTrue
  <2>2. CASE /\ pc' = [pc EXCEPT ![r] = "keeping"] /\ UNCHANGED wanted
             /\ PostTokenRequest(r, asking[r]) /\ got'[r].token = Len(grants) + 1
    <3>1. wanted[r] \subseteq asking[r].scopes
      BY <2>1 DEF Widened
    <3> QED
      BY <2>1, <2>2, <3>1, GrantWidens
  <2>3. CASE pc' = [pc EXCEPT ![r] = "ended"]
    BY <1>2, <2>3 DEF Wanting
  <2> QED
    BY <1>1, <1>12, <2>2, <2>3 DEF Exchange, End, Goto, AuthTypeOK, CallTypeOK
<1>13. CASE Keep(r)
  <2>1. /\ UNCHANGED <<held, wanted, grants, got>> /\ pc[r] = "keeping"
        /\ pc' = [pc EXCEPT ![r] = "holding"]
    BY <1>13 DEF Keep, Goto, worldVars, callVars
  <2>2. wanted[r] \subseteq ScopesOf(got'[r].token)
    BY <2>1 DEF Widened
  <2> QED
    BY <1>1, <2>1, <2>2, WidenedStays DEF Wanting
<1>14. CASE Preconnect(r) \/ HangUp(r)
  <2>1. UNCHANGED <<held, wanted, grants, got, asking>> /\ pc[r] = "waiting"
    BY <1>14 DEF Preconnect, HangUp, worldVars, sessionVars
  <2>2. CASE UNCHANGED pc
    BY <2>1, <2>2 DEF Widened, ScopesOf
  <2>3. CASE pc' = [pc EXCEPT ![r] = "joining"]
    BY <1>6, <2>1, <2>3 DEF Wanting
  <2> QED
    BY <1>14, <2>2, <2>3 DEF Preconnect, HangUp
<1> QED
  BY <1>4, <1>5, <1>7, <1>8, <1>9, <1>10, <1>11, <1>12, <1>13, <1>14 DEF Working

\* A step of a request is one of its own, or finds the others at rest.
LEMMA StepsInTurn ==
  ASSUME AuthTypeOK, ~world.overlap, InTurn, NEW r \in Requests,
         Working(r) \/ Answering(r) \/ Preconnect(r) \/ HangUp(r)
  PROVE  \/ UNCHANGED pc /\ Active(r)
         \/ InTurn' /\ \A s \in Requests \ {r} : Widened(s)'
<1>1. Active(r) \/ \A s \in Requests \ {r} : ~Active(s)
  BY DEF Working, Answering, Send, Count, Widen, Discover, Look, Refresh, Clear, Register, Apply,
     Callback, TimeOut, Join, Exchange, Keep, Hold, Serve, Reject, Forbid, Refuse, Preconnect,
     HangUp, Prompt, End, Goto, Active
<1>2. (UNCHANGED pc /\ (Preconnect(r) \/ HangUp(r))) \/ \E to \in Stages : pc' = [pc EXCEPT ![r] = to]
  BY DEF Working, Answering, Send, Count, Widen, Discover, Look, Refresh, Clear, Register, Apply,
     Callback, TimeOut, Join, Exchange, Keep, Hold, Serve, Reject, Forbid, Refuse, Preconnect,
     HangUp, Prompt, End, Goto
<1>3. Preconnect(r) \/ HangUp(r) => Active(r)
  BY DEF Preconnect, HangUp, Active
<1> QED
  BY <1>1, <1>2, <1>3, OneAtATime

\* Every step keeps requests in turn, and attempts as wide as what is held.
LEMMA WidenedStep ==
  ASSUME AuthInv, WidenedInv, [AuthNext]_authVars
  PROVE  WidenedInv'
<1>1. AuthTypeOK
  BY DEF AuthInv
<1>2. CASE UNCHANGED <<world, pc, held, wanted, asking, got, grants>>
  BY <1>2 DEF WidenedInv, InTurn, Active, Widened, ScopesOf
<1>3. CASE UNCHANGED authVars
  BY <1>2, <1>3 DEF authVars, worldVars, sessionVars, callVars
<1>4. CASE (\E t \in Token : Expire(t) \/ Revoke(t)) \/ (\E i \in Issuers : Migrate(i))
  BY <1>2, <1>4 DEF Expire, Revoke, Migrate, sessionVars, callVars
<1>5. ASSUME AuthNext, NEW r \in Requests, Working(r) \/ Answering(r) \/ Preconnect(r) \/ HangUp(r),
             ~world.overlap
      PROVE  InTurn' /\ (world.grantor # "stingy" => \A s \in Requests : Widened(s)')
  <2>1. InTurn /\ Grows /\ (world.grantor # "stingy" => \A s \in Requests : Widened(s))
    BY <1>5, Lasting DEF WidenedInv
  <2>2. world.grantor # "stingy" => Widened(r)'
    BY <1>5, <2>1, AttemptWidens
  <2>3. CASE UNCHANGED pc /\ Active(r)
    <3>1. InTurn' /\ \A s \in Requests \ {r} : ~Active(s)'
      BY <2>1, <2>3 DEF InTurn, Active
    <3> QED
      BY <2>2, <3>1 DEF Widened, Active
  <2>4. CASE InTurn' /\ \A s \in Requests \ {r} : Widened(s)'
    BY <2>2, <2>4
  <2> QED
    BY <1>1, <1>5, <2>1, <2>3, <2>4, StepsInTurn
<1>6. CASE AuthNext /\ \E r \in Requests : Working(r) \/ Answering(r) \/ Preconnect(r) \/ HangUp(r)
  <2>1. UNCHANGED world
    BY <1>6, Lasting
  <2> QED
    BY <1>5, <1>6, <2>1 DEF WidenedInv
<1> QED
  BY <1>3, <1>4, <1>6 DEF AuthNext

\* At the start nobody is under way.
LEMMA InitWidened == AuthInit => WidenedInv
  BY DEF AuthInit, WidenedInv, InTurn, Active, Widened

-----------------------------------------------------------------------------
(* Theorems. *)

\* The types, where tokens are, and what each attempt has, hold of every reachable
\* state.
THEOREM AuthConsistent == AuthSpec => []AuthInv
  BY InitInv, InvStep, PTL DEF AuthSpec

\* No token or refresh token is ever kept, refreshed or used under an issuer that
\* did not grant it (flow.rs:106-110, session.rs:140).
THEOREM TokensAtHome == AuthSpec => []TokensStayHome
<1>1. AuthInv => TokensStayHome
  BY DEF AuthInv
<1> QED
  BY <1>1, AuthConsistent, PTL

\* However requests overlap and servers challenge, the user is sent to a server at
\* most once for each request and once for each unit of the budget
\* (session.rs:101-113).
THEOREM ConsentIsBounded == AuthSpec => []ConsentBounded
<1>1. AuthInv /\ ConsentInv => ConsentBounded
  <2> SUFFICES ASSUME AuthInv, ConsentInv PROVE ConsentBounded
    OBVIOUS
  <2>1. /\ Cardinality(Prospects) \in Nat /\ Cardinality(Requests) \in Nat
        /\ prompts \in Nat /\ BudgetLeft \in Nat
    BY FS_Subset, FS_CardinalityType DEF Prospects, BudgetLeft, BudgetSpent, AuthInv,
       AuthTypeOK, SessionTypeOK
  <2>2. prompts + Cardinality(Prospects) + BudgetLeft <= MaxUpgrades + Cardinality(Requests)
    BY DEF ConsentInv
  <2> QED
    BY <2>1, <2>2 DEF ConsentBounded
<1> QED
  BY <1>1, AuthConsistent, InitConsent, ConsentStep, PTL DEF AuthSpec

\* While requests follow one another and the server grants what it is asked for, no
\* step leaves the session with less than it held (session.rs:115-122).
THEOREM NoStepNarrows == AuthSpec => NeverNarrowed
<1>1. ASSUME AuthInv, WidenedInv, AuthNext,
             ~world.overlap, world.grantor # "stingy", held # None
      PROVE  ScopesOf(held) \subseteq (ScopesOf(held))'
  <2>1. AuthTypeOK /\ Grows
    BY <1>1, Lasting DEF AuthInv
  <2>2. \A t \in Token \cup {None} : ScopesOf(t)' = ScopesOf(t)
    BY <2>1, SameScopes
  <2>3. CASE UNCHANGED held
    <3>1. held \in Token
      BY <1>1, <2>1 DEF AuthTypeOK, SessionTypeOK
    <3> QED
      BY <2>2, <2>3, <3>1 DEF ScopesOf
  <2>4. CASE \E r \in Requests : Hold(r)
    <3>1. PICK r \in Requests : Hold(r)
      BY <2>4
    <3>2. pc[r] = "holding" /\ held' = got[r].token /\ Widened(r) /\ got[r] \in Stored
      BY <1>1, <3>1 DEF Hold, Goto, WidenedInv, AuthInv, StepsTrue, StepTrue, AuthTypeOK, CallTypeOK
    <3>3. ScopesOf(held) \subseteq ScopesOf(got[r].token)
      BY <3>2 DEF Widened
    <3>4. ScopesOf(held)' = ScopesOf(got[r].token)
      BY <2>2, <3>2 DEF ScopesOf, Stored
    <3> QED
      BY <3>3, <3>4
  <2> QED
    BY <1>1, <2>3, <2>4, Lasting
<1>2. ASSUME AuthInv, WidenedInv, [AuthNext]_authVars
      PROVE  [~world.overlap /\ world.grantor # "stingy" /\ held # None =>
                ScopesOf(held) \subseteq (ScopesOf(held))']_authVars
  BY <1>1, <1>2
<1> QED
  BY <1>2, AuthConsistent, InitWidened, WidenedStep, PTL DEF AuthSpec, NeverNarrowed

=============================================================================
