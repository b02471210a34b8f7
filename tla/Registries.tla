------------------------------- MODULE Registries -------------------------------
(***************************************************************************)
(* What a server was registered with and how a request is resolved against *)
(* it: tools, resources and URI templates, prompts, completions, and the   *)
(* shape of the result each comes to (server/tools, server/resources,      *)
(* server/prompts.rs, server/completion.rs, server/caching.rs).            *)
(*                                                                         *)
(* A URI, a pattern and the name of a variable are sequences of characters.*)
(***************************************************************************)
EXTENDS Naturals, SequencesExt

CONSTANTS
  Patterns,  \* the URI templates as written, in the order they were registered
  Uris,      \* URIs asked for
  Slash,     \* the character a template's variable never spans
  Open,      \* the braces around the name of a variable
  Close,
  MaxValues, \* completions sent in one answer, 100 in the code
  NoResult   \* of a lookup that finds nothing

\* What a sequence is made of, and all texts are.
Chars(s) == {s[i] : i \in DOMAIN s}
Characters == UNION {Chars(text) : text \in Uris \cup Chars(Patterns)}

ASSUME RegistriesAssumption ==
  /\ MaxValues \in Nat /\ Open # Close
  /\ Uris \subseteq Seq(Characters) /\ Patterns \in Seq(Seq(Characters))

-----------------------------------------------------------------------------
(* URI templates: sequences of literals and variables. *)

Literal(text)  == [kind |-> "literal", text |-> text]
Variable(name) == [kind |-> "variable", name |-> name]

\* The first brace from a place on, with the first closing one after it.
First(pattern, i, char) ==
  {k \in i .. Len(pattern) : pattern[k] = char /\ \A j \in i .. k - 1 : pattern[j] # char}
Braces(pattern, i) ==
  {oc \in First(pattern, i, Open) \X (i .. Len(pattern)) : oc[2] \in First(pattern, oc[1], Close)}

Text(pattern, i, k) == IF i > k THEN <<>> ELSE <<Literal(SubSeq(pattern, i, k))>>

\* UriTemplate::parse, from each place of a pattern on: text up to a brace, the
\* name up to the next closing one, and so on; a brace never closed is text.
Parse(pattern) ==
  LET pieces[i \in 1 .. Len(pattern) + 1] ==
        IF Braces(pattern, i) = {} THEN Text(pattern, i, Len(pattern))
        ELSE LET oc == CHOOSE b \in Braces(pattern, i) : TRUE
             IN Text(pattern, i, oc[1] - 1) \o <<Variable(SubSeq(pattern, oc[1] + 1, oc[2] - 1))>>
                  \o pieces[oc[2] + 1]
  IN pieces[1]

Templates == [i \in DOMAIN Patterns |-> Parse(Patterns[i])]

\* str::find.
Places(text, rest) ==
  {k \in 0 .. Len(rest) : /\ k + Len(text) <= Len(rest)
                          /\ SubSeq(rest, k + 1, k + Len(text)) = text}

\* How far piece i of a template runs when it is a variable: up to the first
\* place of the literal after it, or to the end.  A variable next to another,
\* or before a literal that does not come, has nowhere to end.
Ends(template, i, rest) ==
  IF i = Len(template) THEN {Len(rest)}
  ELSE IF template[i + 1].kind = "variable" THEN {}
  ELSE LET places == Places(template[i + 1].text, rest)
       IN {k \in places : \A p \in places : k <= p}

\* BTreeMap::insert: a name used twice stands for what it was given last.
Bind(bound, name, text) ==
  [v \in DOMAIN bound \cup {name} |-> IF v = name THEN text ELSE bound[v]]

\* What is left of a URI, and what was bound, after one more piece; NoResult
\* from the first piece that does not fit.
Consume(template, got, i) ==
  LET piece == template[i]
  IN IF got = NoResult THEN NoResult
     ELSE IF piece.kind = "literal"
     THEN IF IsPrefix(piece.text, got.rest)
          THEN [got EXCEPT !.rest = SubSeq(@, Len(piece.text) + 1, Len(@))] ELSE NoResult
     ELSE LET fits == {k \in Ends(template, i, got.rest) :
                         k > 0 /\ Slash \notin Chars(SubSeq(got.rest, 1, k))}
          IN IF fits = {} THEN NoResult
             ELSE LET k == CHOOSE f \in fits : TRUE
                  IN [rest  |-> SubSeq(got.rest, k + 1, Len(got.rest)),
                      bound |-> Bind(got.bound, piece.name, SubSeq(got.rest, 1, k))]

Walk(template, uri) ==
  LET walk[i \in 0 .. Len(template)] ==
        IF i = 0 THEN [rest |-> uri, bound |-> <<>>]
        ELSE LET got == walk[i - 1] IN Consume(template, got, i)
  IN walk[Len(template)]

\* Fault: what the last piece leaves over is not looked at.
MatchPrefix(template, uri) ==
  LET got == Walk(template, uri) IN IF got = NoResult THEN NoResult ELSE got.bound

\* The variables a URI binds when all of it fits.
MatchUri(template, uri) ==
  LET got == Walk(template, uri)
  IN IF got = NoResult THEN NoResult ELSE IF got.rest # <<>> THEN NoResult ELSE got.bound

-----------------------------------------------------------------------------
(* Resolving a request. *)

\* What the templates make of a URI: the first that matches reads it.
ByTemplate ==
  [uri \in Uris |->
    LET matching == {i \in DOMAIN Templates : MatchUri(Templates[i], uri) # NoResult}
    IN IF matching = {} THEN NoResult
       ELSE LET i == CHOOSE m \in matching : \A n \in matching : m <= n
            IN [by |-> "template", template |-> Templates[i],
                bound |-> MatchUri(Templates[i], uri)]]

\* Whose handler reads a URI: a resource registered for it comes before them.
Reader(registered, uri) ==
  IF uri \in registered.fixed THEN [by |-> "resource"]
  ELSE IF registered.templated /\ uri \in Uris THEN ByTemplate[uri] ELSE NoResult

\* A prompt runs only with every argument it requires.
Renders(registered, name, arguments) ==
  name \in DOMAIN registered.prompts /\ registered.prompts[name].requires \subseteq arguments

\* result_for(): as many completions as are sent at a time, how many there are
\* and whether that is more.
CompletionOf(n) ==
  [sent |-> IF n < MaxValues THEN n ELSE MaxValues, total |-> n, more |-> n > MaxValues]

-----------------------------------------------------------------------------
(* Results. *)

\* A result before it is finished, for values that were completed or none.
Shaped(type, completion) == [type |-> type, hints |-> FALSE, completion |-> completion]

\* What a handler's return is made into: content it wraps, unless the handler
\* asks for input; the completions that are sent; an error it wraps as content.
ResultOf(returned) ==
  Shaped(IF returned.as = "input_required" THEN "input_required" ELSE "none",
         IF returned.found = NoResult THEN NoResult ELSE CompletionOf(returned.found))

Cacheable == {"server/discover", "tools/list", "prompts/list", "resources/list",
              "resources/templates/list", "resources/read"}

\* CachePolicy::stamp: a result that still needs input must not be reused.
Stamp(method, result) ==
  IF method \in Cacheable /\ result.type \in {"none", "complete"}
  THEN [result EXCEPT !.hints = TRUE] ELSE result

\* finish_response: hints first, then the type of a result that has none.
Finished(method, result) ==
  LET stamped == Stamp(method, result)
  IN IF stamped.type = "none" THEN [stamped EXCEPT !.type = "complete"] ELSE stamped
=============================================================================
