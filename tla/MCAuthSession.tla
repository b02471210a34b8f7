----------------------------- MODULE MCAuthSession -----------------------------
(* Two requests, together or in turn, with one or two scopes, and two           *)
(* authorization servers, one of which takes neither documents nor clients.     *)
EXTENDS AuthSession

CONSTANTS r1, r2, s1, s2, i1, i2

MCRequests  == {r1, r2}
MCScopes    == {s1, s2}
MCIssuers   == {i1, i2}
MCDocuments == {i2}
MCEndpoints == {i1}

\* Documents at every well-known place, and one that a challenge names.
MCServer == [host |-> "mcp", path |-> <<"mcp">>]
MCUrlOf  == (i1 :> [host |-> "as1", path |-> <<"tenant">>]) @@ (i2 :> [host |-> "as2", path |-> <<>>])
Elsewhere == [host |-> "docs", path |-> <<"resource">>]
MCHinted == {None, Elsewhere}

\* For the server, everything on its host, its neighbour, another host, or nobody.
Covering(i) ==
  {[resource |-> u, servers |-> <<i>>] :
     u \in {MCServer, [host |-> "mcp", path |-> <<>>], [host |-> "mcp", path |-> <<"admin">>],
           [host |-> "else", path |-> <<"mcp">>]}}
  \cup {[resource |-> MCServer, servers |-> <<>>]}

\* What is published under i: its metadata, or one that speaks for another.
Declaring(i) == {[issuer |-> j, server |-> i] : j \in MCIssuers}

Places(i) == {ResourceCandidates[1], ResourceCandidates[2], Elsewhere}
Wells(i)  == {ServerCandidates(MCUrlOf[i])[k] : k \in DOMAIN ServerCandidates(MCUrlOf[i])}

\* One document of each kind, at any place or at none.
MCWebs ==
  [i \in MCIssuers |->
    {[resources |-> u :> d, issuers |-> v :> e] :
       u \in Places(i), d \in Covering(i), v \in Wells(i), e \in Declaring(i)}
    \cup {[resources |-> u :> d, issuers |-> <<>>] : u \in Places(i), d \in Covering(i)}]

In(overlap, n1, n2, offers, grantor, rotates, identity) ==
  [overlap |-> overlap, needs |-> (r1 :> n1) @@ (r2 :> n2), offers |-> offers,
   grantor |-> grantor, rotates |-> rotates, names |-> rotates, identity |-> identity,
   upsets |-> IF overlap \/ grantor = "stingy" THEN 0 ELSE MaxUpsets]

MCSituations ==
  {In(FALSE, {s1}, {s2}, {}, "fair", TRUE, "document"),
   In(FALSE, {s1}, {s2}, {s1, s2}, "stingy", TRUE, "pre_registered"),
   In(FALSE, {s1}, {s2}, {}, "contrary", FALSE, "pre_registered"),
   In(TRUE, {s1}, {}, {}, "fair", TRUE, "unknown")}

=============================================================================
