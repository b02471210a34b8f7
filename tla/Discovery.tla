-------------------------------- MODULE Discovery --------------------------------
(***************************************************************************)
(* Where an authorization begins: the metadata of the resource, and then   *)
(* that of the authorization server it names (auth/discovery.rs, and       *)
(* fetch_resource_metadata and fetch_server_metadata in auth/flow.rs).     *)
(*                                                                         *)
(* A URL is a host and the segments of a path.  A web is what is published *)
(* where: documents of resources and of issuers, by URL.                   *)
(***************************************************************************)
EXTENDS Naturals, SequencesExt

CONSTANTS
  Server,  \* the URL of the MCP server
  Issuers, \* authorization servers the resource has had
  UrlOf,   \* the URL of each
  Webs,    \* what may be published while the resource is at an issuer
  Hinted,  \* places a challenge may name in resource_metadata, or None
  None

ASSUME DiscoveryAssumption ==
  /\ Issuers \subseteq DOMAIN UrlOf /\ Issuers \subseteq DOMAIN Webs
  /\ None \notin [issuer : Issuers, server : Issuers]
  /\ \A i \in Issuers : \A web \in Webs[i] : DOMAIN web = {"resources", "issuers"}

AtRoot(url, name)   == [url EXCEPT !.path = <<name>>]
Inserted(url, name) == [url EXCEPT !.path = <<name>> \o @]
Appended(url, name) == [url EXCEPT !.path = Append(@, name)]

\* The document of the very path comes before one of the whole host.
ResourceCandidates ==
  (IF Server.path = <<>> THEN <<>> ELSE <<Inserted(Server, "oauth-protected-resource")>>)
  \o <<AtRoot(Server, "oauth-protected-resource")>>

\* RFC 8414 inserts its segment before the path, OpenID Connect appends its own,
\* and servers do both.
ServerCandidates(url) ==
  <<Inserted(url, "oauth-authorization-server"), Inserted(url, "openid-configuration")>>
  \o (IF url.path = <<>> THEN <<>> ELSE <<Appended(url, "openid-configuration")>>)

\* A resource names issuers, and what is published at a well-known place of an
\* issuer is published by it (TLS), whatever it declares.
ASSUME WebsAssumption ==
  \A i \in Issuers : \A web \in Webs[i] :
    /\ \A u \in DOMAIN web.resources : web.resources[u].servers \in Seq(Issuers)
    /\ \A named \in Issuers : \A u \in Range(ServerCandidates(UrlOf[named])) \cap DOMAIN web.issuers :
         /\ web.issuers[u] \in [issuer : Issuers, server : Issuers]
         /\ web.issuers[u].server = named

\* The first place with a document.
FirstServed(documents, candidates) ==
  LET served == {k \in DOMAIN candidates : candidates[k] \in DOMAIN documents}
  IN IF served = {} THEN None
     ELSE documents[candidates[CHOOSE k \in served : \A n \in served : k <= n]]

\* Where a challenge says to look, nowhere else is.
ResourceMetadata(web, hint) ==
  FirstServed(web.resources, IF hint = None THEN ResourceCandidates ELSE <<hint>>)

\* A document covers the server when it is declared for it, or for a path above
\* it on the same host.
ResourceMatches(declared) ==
  declared.host = Server.host /\ IsPrefix(declared.path, Server.path)

\* Fault: whatever issuer a document declares.
AnyIssuer(declared, expected) == TRUE

IssuerMatches(declared, expected) == declared = expected

\* The first document found decides; one that declares another issuer is refused,
\* and no further place is tried.
ServerMetadata(web, named) ==
  LET found == FirstServed(web.issuers, ServerCandidates(UrlOf[named]))
  IN IF found = None THEN None
     ELSE IF IssuerMatches(found.issuer, named) THEN found ELSE None

\* authorize(), up to the metadata it goes on with.
Discovered(web, hint) ==
  LET resource == ResourceMetadata(web, hint)
  IN IF resource = None THEN None
     ELSE IF ~ResourceMatches(resource.resource) \/ resource.servers = <<>> THEN None
     ELSE ServerMetadata(web, Head(resource.servers))

\* What can come of it while the resource is at an issuer.
Discoveries == [i \in Issuers |-> {Discovered(web, hint) : web \in Webs[i], hint \in Hinted}]
=============================================================================
