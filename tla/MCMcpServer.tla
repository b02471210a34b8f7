------------------------------ MODULE MCMcpServer ------------------------------
(* Two messages at a time, of every kind the dispatch tells apart; templates  *)
(* whose literals also come inside a value, and a resource one of them would  *)
(* match.                                                                     *)
EXTENDS McpServer

CONSTANTS s1, s2, a, b, x, v, w

MCSlots       == {s1, s2}
MCLevels      == 1 .. 3
MCLateTools   == <<"later">> :> TRUE
MCLateUris    == {<<a, x>>}
MCLateMethods == {"tools/list"}
MCLatePrompts == <<"greets">> :> [requires |-> {"who"}, raw |-> TRUE]

MCBuilt ==
  [tools      |-> <<"talks">> :> [interactive |-> TRUE, requires |-> {}]
                  @@ <<"asks">> :> [interactive |-> TRUE, requires |-> {"elicitation"}],
   fixed      |-> {},
   templated  |-> TRUE,
   prompts    |-> <<"greets">> :> [requires |-> {"who"}, raw |-> FALSE],
   completer  |-> TRUE,
   overridden |-> {}]

Var(name) == <<Open, name, Close>>

MCPatterns == << <<a>> \o Var(v), Var(v) \o <<x>>, Var(v) \o Var(w), Var(v) \o <<Slash>> \o Var(w),
                 <<b, Open, x>>, Var(v) \o <<Slash, Slash>> \o Var(v) >>

M(method) ==
  [method |-> method, members |-> {"id", "method"}, batch |-> None, version |-> "none",
   name |-> <<>>, arguments |-> {},
   level |-> None, capabilities |-> {}, state |-> "none"]
New(m) == [m EXCEPT !.version = "new"]

MCUris == {<<a, x>>, <<b, x>>, <<b, x, x>>, <<b, Slash, x>>,
           <<b, Slash, b, Slash>>, <<b, Open, x>>, <<b, Slash, Slash, x>>}

Anything ==
  {[M("tools/call") EXCEPT !.name = n] : n \in {<<"talks">>, <<"later">>}}
  \cup {New([M("tools/call") EXCEPT !.name = <<"talks">>, !.level = l]) : l \in {None, 2}}
  \cup {New([M("tools/call") EXCEPT !.name = <<"asks">>, !.capabilities = c]) :
          c \in {{}, {"elicitation"}}}
  \cup {[M("resources/read") EXCEPT !.name = u] : u \in MCUris}
  \cup {[M("logging/setLevel") EXCEPT !.level = l] : l \in {1, 3, Odd}}
  \cup {M("initialize"), M("tools/list"), M("server/discover"),
        M("completion/complete"), M("subscriptions/listen"), M("notifications/initialized"), New(M("tools/list")),
        New(M("prompts/list")), New([M("tools/list") EXCEPT !.state = "forged"]),
        [M("tools/list") EXCEPT !.version = "future"], M("resources/subscribe")}
  \cup {[M("prompts/get") EXCEPT !.name = <<"greets">>, !.arguments = g] : g \in {{}, {"who"}}}
  \cup {[M("resources/subscribe") EXCEPT !.name = <<a>>],
        [M("resources/unsubscribe") EXCEPT !.name = <<a>>],
        New([M("resources/subscribe") EXCEPT !.name = <<a>>, !.members = {"method"}]),
        New([M("logging/setLevel") EXCEPT !.level = 3])}
  \cup {[M(n) EXCEPT !.members = {"method"}] : n \in {"notifications/initialized", "notifications/cancelled"}}

\* What has no method: answers, batches, and what is neither.
Other ==
  {[M(None) EXCEPT !.members = o] : o \in {{"id", "result"}, {"id", "error"}, {"id", "result", "error"}}}
  \cup {[M(None) EXCEPT !.members = {}, !.batch = o] :
          o \in {{}, {{"method"}, {"id", "method"}}, {{"method"}, {"id", "result"}}, {{"id"}}}}

\* One message of any kind, and one of those that change what it may see.
MCMessages ==
  s1 :> (Anything \cup Other) @@ s2 :> ({[M("logging/setLevel") EXCEPT !.level = l] : l \in {1, 3}}
                      \cup {[M("tools/call") EXCEPT !.name = <<"talks">>], M("initialize")})
=============================================================================
