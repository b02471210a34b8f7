------------------------------- MODULE MCExchange -------------------------------
(* Two deployments of two tools: "search", whose mirrored parameter moves to   *)
(* another header in the second, and "ask", which converses.                   *)
EXTENDS Exchange, TLC

CONSTANTS c1, c2, c3, other, here, elsewhere

MCCalls == {c1, c2, c3}
MCSlots == {c1, c2, c3, other}
MCTools == {"search", "ask"}
MCPrompts == {"greeting"}
MCOptional == {"roots"}

Note(name, path) ==
  [name |-> name, path |-> path, reachable |-> TRUE, token |-> TRUE, type |-> "string"]

Search(header) == [schema |-> {Note(header, "p")}, interactive |-> FALSE, requires |-> {}]
AskTool == [schema |-> {}, interactive |-> TRUE, requires |-> {"elicitation"}]

MCDeployments == << [search |-> Search("x"), ask |-> AskTool],
                    [search |-> Search("y"), ask |-> AskTool] >>

Args(v) == [p |-> v]
Listing == [method |-> List, name |-> None, args |-> Args("absent")]
Searching == [method |-> Call, name |-> "search", args |-> Args("spaced")]
Asking == [method |-> Call, name |-> "ask", args |-> Args("null")]
MCWanted == (c1 :> {Listing, Asking}) @@ (c2 :> {Searching}) @@ (c3 :> {Listing})

MCResults == {None, [questions |-> {"form"}, stateful |-> FALSE],
              [questions |-> {"form", "roots"}, stateful |-> TRUE],
              [questions |-> {}, stateful |-> FALSE]}

MCLoopback == {here}
MCAllowedHosts == [any |-> FALSE, also |-> {}]

MCOverridden == {"completion/complete"}

NameIn(m) == CASE m = Call -> "ask" [] m = Render -> "greeting" [] OTHER -> None

\* A request of another peer: what it says of its version in the header and in
\* the body, its method in the header and in the body.
Peer(hv, bv, hm, m, id) ==
  [door |-> Posted, method |-> m, id |-> id, accepts |-> TRUE,
   headers |-> [version |-> hv, method |-> hm, name |-> IF NameIn(m) = None THEN None ELSE Encode(NameIn(m)),
                params |-> {}],
   body |-> [version |-> bv, capabilities |-> IF bv = None THEN None ELSE IF bv = "future" THEN {"elicitation"} ELSE {},
             name |-> NameIn(m), args |-> Args("absent"),
             answers |-> {}, state |-> None]]

Modern(m, id) == Peer("modern", "modern", m, m, id)
Legacy(m, id) == Peer("legacy", None, None, m, id)

MCRequests ==
  {Modern("ping", TRUE), Modern(Render, TRUE), Modern("notifications/initialized", FALSE), Modern(Call, TRUE),
   Modern("nonsense", TRUE), Modern(Listen, TRUE), Modern("completion/complete", TRUE),
   Peer("modern", "modern", List, Call, TRUE), Peer("modern", "future", Call, Call, TRUE),
   Peer("future", "future", Call, Call, TRUE), Peer("modern", None, List, List, TRUE),
   Peer(None, "modern", None, List, TRUE),
   Legacy("initialize", TRUE), Legacy("logging/setLevel", TRUE), Legacy("resources/subscribe", TRUE),
   Legacy(Call, TRUE), Legacy("nonsense", FALSE), Legacy(None, FALSE)}
  \cup {[Modern(Call, TRUE) EXCEPT !.door = d] : d \in
          {[Posted EXCEPT !.origin = "null"], [Posted EXCEPT !.origin = elsewhere],
           [Posted EXCEPT !.origin = here, !.host = elsewhere], [Posted EXCEPT !.path = "/"],
           [Posted EXCEPT !.verb = "DELETE"], [Posted EXCEPT !.verb = "GET"],
           [Posted EXCEPT !.legible = FALSE]}}

=============================================================================
