# A verification of chuk-mcp-rs

TLA+ modules for the parts of chuk-mcp-rs in which several tasks, peers or
timers meet, the TLC configurations that check them on small instances, and
theorems TLAPS checks for instances of any size. Paths below are under
`crates/chuk-mcp/src/` unless they say otherwise.

## The system

chuk-mcp-rs is a Rust library for the Model Context Protocol, client and
server, with Python bindings. It speaks two eras of the protocol: the legacy
one (a handshake with `initialize`, sessions, a server that may push requests)
and the modern one (`server/discover`, every request self-contained).

| part | state | operations | where it is hard |
|---|---|---|---|
| questions to the client (`server/pending.rs`, `server/context.rs`) | a counter and a table of oneshot senders | issue, send, hear or time out, forget; resolve on a POST | question and answer are two HTTP requests on two tasks; timeouts, hang-ups, repeated and late answers |
| calls on an event stream (`server/http/handler.rs`, `http/response.rs`) | one task and one unbounded channel per call | accept, notify, ask, return, send the result | clones of the context outlive the handler; the client may leave or stay silent |
| subscriptions (`server/listeners.rs`) | a registry of listeners | open, fan out with pruning, close all | acknowledgement, registration, changes and closing race |
| era routing (`transports/http_dual.rs`, `http_modern.rs`, `protocol/era/`) | the era cache, the GET stream's flag, one task per message | resolve, modern exchange, re-issue, fallback, legacy exchange, record | verdicts written by tasks that read the cache long before; expiry; retries |
| connecting (`connect/`) | the stage of `connect()` | probe, handshake, `set_era` | the transport's tasks are still recording while `set_era` runs |
| a client request (`protocol/messages/send_message.rs`) | a read stream behind a mutex, a cancellation token | write, lock, receive, answer a pushed request, cancel, time out | calls share one stream; futures are dropped at any await |
| client operations (`client/`, the class of the Python bindings) | era, identity, input handler; in Python a mutex | call, list, ping, rounds of input, close | a handler that calls the client it answers for; raw calls around it |
| server dispatch and registries (`server/`) | tools, resources, templates, prompts, subscriptions, log level, sessions | dispatch a message, register, serve stdio | many combinations of era, headers and body; registration while serving; a mutex around the Python server |
| HTTP validation, origin (`server/http/validate.rs`, `origin.rs`, `protocol/envelope.rs`, `header_params.rs`) | none | mirror on one side, compare on the other | the two sides must agree on every name, value and encoding, over a redeployment |
| multi-round-trip requests (`client/input/`, `protocol/mrtr/`) | the rounds of a call | ask, answer, repeat | bounded rounds, state carried by the client |
| the three stateful transports (`transports/stdio.rs`, `stdio_dual.rs`, `sse.rs`, `http.rs`, `http_listen.rs`) | bounded channels, tasks, a child or streams, hints for resuming | write, read, post, resume, settle, close | full channels, dying peers, streams cut short, wake-ups nobody hears |
| authorization client (`auth/`) | one token, one store, one budget | discover, reuse, refresh, register, authorize, step up | concurrent challenges, stale tokens, a resource that changes its issuer |

A tool handler on the server asks through its call's stream; the client answers
by a POST that dispatch turns over to the table. On the client, every operation
is one `send_message`, or one per round of input, over a pair of channels. The
transport takes messages off the outgoing one (the dual HTTP transport routes
each by a task of its own) and puts what comes back on the incoming one, where
the call holding the read stream's mutex finds it. `connect()` uses the same
path for its handshake and afterwards tells the transport what it found. An
HTTP transport that is refused over its token goes through the authorization
session and sends again.

## What is modelled

| module | models | correspondence |
|---|---|---|
| `ClientQuestions` | the promise of a server that asks questions | abstract: a question is idle, open or ended, has a number, and perhaps the post that answered it |
| `PendingRequests` | `PendingRequests`, `CallContext::request`, `resolve` | `next`, `waiting` are the struct's fields; `pc`, `num`, `slot`, `outcome` the locals of each `request()` and its receiver; `ppc`, `sender` those of each `resolve()`. `Number` and `Register` are the two halves of `issue` (an atomic, then the lock); `Claim` and `Deliver` those of `resolve` (under the lock, then the send) |
| `StreamedCalls` | `stream()` and the contexts it hands out | extends `PendingRequests`; `phase` is the spawned task, `helper` a clone of the context somebody else holds, `stream` the unbounded channel |
| `Listeners` | `Listeners` and the request that opens one | `open` is the registry; `Acknowledge` and `Enter` the two halves of `open()`; `Change` is `fan_out` with its `retain`; `CloseAll` is `close_all` |
| `EraRouting` | `route()` and both exchanges | `cache` is the endpoint's entry, `opened` what `LegacyListener::ensure` did, `pc` and `seen` the task routing each message, `answers` what it put on the incoming channel |
| `Settling` | `connect_http` over `EraRouting` | `stage` is where `connect()` is, `Adopt` is `set_era`, `session` the transport's session id |
| `CancellationToken` | the token | one step per access to the flag or to the `Notify` |
| `SendMessage` | `send_message_with_options`, `await_response`, `answer_inbound` | extends `CancellationToken`; `outbox` is the bounded channel to the transport, `holder` the mutex, `inbox` the read stream, `pc` and `asking` the locals of each call |
| `Client` | `McpClient`, `call_with_input`, and the Python class with its mutex | extends `SendMessage`, one call of it per round; `inner` and `queue` are the Python mutex, `within` the operation whose input handler made another, `gone` the client taken out by `close()` |
| `Registries` | registration, and what a request is resolved against | operators over `registered`; templates are parsed and matched character by character of a small alphabet, since what a template binds is the property |
| `McpServer` | `dispatch`, the legacy and modern handlers, `serve`, sessions, the Python server | extends `Registries`; `call` is each message from taking to answer, `owned` what the stateful lifecycle keeps, `serving` and `lock` the loop of `run_stdio` and the Python mutex |
| `RequestHeaders` | what a modern request mirrors and what the server reads of it | operators: encode, decode, promote parameters, compare |
| `ServerPost` | a POST, from Host and Origin to its status | extends `RequestHeaders`; `Open`, `Dispatch`, `Returned`, `Cut` are the stages of the handler, `Redeploy` a server started anew with other tools |
| `InputRounds` | `call_with_input` alone | a call's `round`, what it `sends` and what it was `asked` |
| `Exchange` | the client's modern transport against `ServerPost` | instantiates `InputRounds`; `known` is `ToolSchemas`, `attempt` the re-issues of a broken stream |
| `Transport` | the promise of the `Transport` trait | abstract: how often the peer turned a request away, how often it took it, how often its call was told |
| `ClientStreams` | `message_channel` and the calls above a transport | bounded `outgoing` and `incoming`, the tasks that hold a sender |
| `Stdio`, `SseTransport`, `LegacyHttp` | one transport each | extend `ClientStreams`; the tasks of the transport, its peer, `close()`; `Stdio` with `stdio_dual.rs`'s settling and its one retry, `SseTransport` with a POST apart from its arrival, `LegacyHttp` with the re-sends of a challenged request, its GET stream and resume hints |
| `Transports` | a client over any of the three | one of them runs; each refines `Transport` |
| `Discovery` | `discovery.rs` and the fetches of `flow.rs` | operators over what is published where |
| `AuthSession` | `AuthSession::handle_response`, `flow::authorize`, refresh, registration, the callback | extends `Discovery`; `held` and `upgrades` are the session's fields, `store` and `clients` the token store's, `pc` the task of each challenged request |

The `MC...` modules give each of them small sets. Definitions preceded by
"Fault" are wrong on purpose: each is a plausible bug of a definition after
it and is used by nothing. They record what a property is there to catch.

Data is abstract throughout. An id is a number, a notification a topic, an
answer one of the few kinds a caller can tell apart, a scope or a token an
element of a set. Peers are taken by what they do: "modern", "legacy" (bare
400, 404 or 405 to a modern request) and "lenient", a legacy server that
answers modern requests with JSON-RPC over a 200, which is what `set_era`'s
comment describes.

## What the runs check

Runs that pass:

- `PendingRequests.cfg`: `OwnAnswerOnly`, an answer reaches the question whose
  id it names and one only; `NothingLeftBehind`, the table holds nothing but
  questions in progress and those whose future was dropped; `NeverDisowned`, no
  question loses its sender to another (the code's "the client never answered"
  cannot happen); `EveryAskEnds`; and `ImplementsQuestions`, the refinement of
  `ClientQuestions`.
- `StreamedCalls.cfg`: `ResultComesLast` for handlers that kept their context;
  `NoQuestionOutlivesItsCall`; `StreamCloses`, a silent client cannot hold a
  call open.
- `Listeners.cfg`: `HearsExactlyWhatItAskedFor`, between registration and end
  every wanted change, once and in order, and nothing else;
  `AcknowledgedFirstClosedLast`; `EndsWithAResult`, no stream of a client that
  still reads ends otherwise.
- `EraRouting.cfg`: `EraIsTrue`, no failure or race makes the cache hold an era
  the peer did not show; `OneStreamBeforeLegacy`; `OneExchangeTells`, a
  caller hears of the last exchange of its request and of no other, and is left
  without a word only by a peer that took that last issue; `OncePerIssue`; `FallbackNeverRepeats` (with nothing in front of the server);
  `EveryRequestSettles`.
- `Settling.cfg`: `SettledAgrees`, client and transport agree about a peer of
  one era; `SettlingEnds`.
- `Client.cfg`: `OneReader`, one call holds the read stream and gives it back;
  `OwnValue`, what an operation returns is the answer to its own last request;
  `MadeInTurn`, the operations of the Python class implement
  `SendMessage!SendSpec` with calls that do not overlap, so that the theorem
  about those (`InTurnNoneStolen`) carries over; `EveryOperationEnds`, each operation, held up
  by two waits at most, its own or that of the one ahead of it at the Python
  mutex: a modern server's question is with the input handler, or the channel to
  the transport is full before a request is sent.
- `McpServer.cfg`: `LogsOnlyAsAsked`; `ReadsWhatWasNamed`, what a template that
  names no variable twice binds expands to the URI that was named; `AnswersFit`, the shape of a result and
  who gets one; `ModernLeavesNoTrace`; `EveryMessageEnds`, with the two ways a
  Python server can be held for ever as its exceptions.
- `AuthSession.cfg`: `TokensStayHome`; `ConsentBounded`; `NeverNarrowed`, a
  step-up never loses scope; `EveryChallengeEnds`.
- `Transports.cfg`: `SpeaksTheSettledEra`, the stdio task that stamps messages
  against the handshake that changes its mind; `KeepsThePromise`, each of the
  three transports implements `Transport`; `DeadChildIsNoticed`;
  `ResumedUnlessOvertaken`, an event stream that ended early is asked for by the
  GET stream, unless that stream ends first and leaves an id of its own.
- `Exchange.cfg`: `OwnRequestsPass`, what the crate's client mirrors is what the
  crate's server reads, unless the tools changed in between; `RefusalIsSeen`;
  `CarriesTheLastRound`; `EveryExchangeEnds`.

Runs that end in a counterexample, each to a statement of the repository:

- `TokenWakeup.cfg`: a cancellation between a waiter's look at the flag and its
  sleep wakes nobody (`send_message.rs:63-68`).
- `AuthReplay.cfg`: a token that was rejected while the client's clock takes it
  for live is found in the store and sent again until the budget is spent
  (`store.rs:97-99` against `flow.rs:114`).

### Other disagreements met while modelling, without a run

On the server:

- `resolve` returns true for a caller whose timeout has just fired
  (`pending.rs:50`); a clone of a context puts events behind the result
  (`handler.rs:159`).
- A change between a listener's acknowledgement and its registration is missed
  (`listeners.rs:173` against 15-17), and a listener whose client left stays
  until a change it wants is sent (`listeners.rs:195`).
- A refusal decided before the dispatch looks at the headers only
  (`handler.rs:119`), while the dispatch goes by the body's version; a call that
  streams has its 200 sent before a refusal of the dispatch
  (`handler.rs:143` against `validate.rs:86-90`).
- `initialize` creates a session each time and echoes any version; nothing
  deletes a session or lets it expire (`session.rs`, `protocol_handler.rs`).
- An unknown notification is answered with an error of id "" by
  `protocol_handler.rs:120-126`, which `legacy_server.rs:91-94` of the
  conformance server avoids; a batch handed to the loop of a stdio server gets
  no answer.
- A request, with an id, for `notifications/initialized` is left without an
  answer (`protocol_handler.rs:113`), where one for an unknown method gets an
  error.
- A custom handler is reached before the version check, the state validator and
  `finish_response` (`server/mod.rs:94-97` against `dispatch.rs:48-58`).
- `Origin: null` is refused also under `AllowedHosts::Any`, which `origin.rs`
  documents as "Answer regardless of `Host` and `Origin`".
- Two variables of one name in a template: the later overwrites the earlier
  (`template.rs:92`), so `{v}//{v}` matches a URI it does not expand to;
  `ReadsWhatWasNamed` leaves such templates out.
- In Python every message waits for the mutex that `run_stdio` holds as long as
  it serves (`chuk-mcp-python/src/server.rs:179-184`).

On the client:

- -32022 does not invalidate the cached era: nothing calls `observe_error`
  (`http_dual.rs:30-32`). A transport failure starts a legacy handshake, since
  it comes to `settle` as a JSON-RPC error (`settle.rs:23-26`). A late record,
  or a 2xx after expiry, turns a legacy endpoint modern
  (`http_dual.rs:285-297`). With the era expired, the answer to a pushed request
  is rejected by the client's own transport (`send_message.rs:79-82`).
- Behind a gateway that answers with a bare 404, the re-issue of a request the
  server already acted on falls back and is sent once more
  (`http_dual.rs:25-27`; `FallbackNeverRepeats` needs `~gateway`). A session id
  minted on an `initialize` that went down the modern path is not kept
  (`http_dual.rs:216`; `SettledAgrees` claims it only of a legacy peer that
  refuses modern requests).
- A response a stream carries twice is forwarded twice
  (`http_modern.rs:622-624`, 676-689), and a 2xx body that is a message of
  another kind counts as a completed exchange, though it answers nobody
  (`http_modern.rs:560-566`): the task of such a request ends, which is all
  `EveryRequestSettles` says, and its caller waits for its own timer.
- The timeout of a request does not cover its write (`send_message.rs:149-160`).
  Behind a child that stops reading (`stdio.rs:262`) the channel fills, and then
  a call waits in its write without limit.
- A timeout drops the answering of a pushed request (`send_message.rs:254`). A
  client with an input handler declares elicitation, yet a `list_*` or ping call
  that holds the stream refuses a pushed one (`client/mod.rs:322-326`).
- In Python the timeout of a raw call is ignored (`streams.rs`), and a timeout
  is raised as a plain `McpError` though the crate calls it retryable.
- The resume point of a stream cut short is one field, which the GET stream's
  own end overwrites (`http_listen.rs:86-91`). A wake-up that comes while the GET
  is on its way is heard by nobody, and one that comes as the GET stream ends
  may lose to that end (`http_listen.rs:202-209`); if the stream then leaves an id
  of its own, the point is lost, against "resumed by the listener rather than
  lost" (`http_listen.rs:64-70`). `ResumedUnlessOvertaken` names the exception.
- Closing the legacy HTTP transport leaves its listener running (`http.rs:607`).
- That a challenged request may be sent again rests on the peer having turned it
  away unread, which `http_modern.rs:378-380` says and `http.rs:216-236` takes for
  granted too: nothing checks it. The models assume it of a 401 or 403.
- SSE: `start()` may sleep through the announcement (`sse.rs:154`), and the end
  of the stream is noticed by nobody while the poster lives (`sse.rs:220`).
- stdio: the progress token goes into `_meta` first and the modern metadata
  replaces it (`stdio.rs:83` and `inject_meta`); the version the retry settled
  on is overwritten (`stdio_dual.rs:154-160`); a mode of "legacy" leaves metadata
  set by a profile in place.
- Authorization: a refusal of the application's handler is looked at only after
  the callback timed out (`auth/mod.rs:72-74`); the budget counts every 401 to a
  bearer and is never reset; of two step-ups at once the later write wins; a
  document of another issuer is said to be "discarded" (`flow.rs:177-179`), and
  no further place is tried.

### Bounds

| run | instance | why it is enough |
|---|---|---|
| `PendingRequests` | two questions, two posts, two calls, ids -1 to 2 | two questions share the table; a post answers, repeats, comes late, names nothing (-1), or an id never issued (2) |
| `StreamedCalls` | one call, two questions, one post, one notification (`MaxNotes`), ids -1 to 1 | each question is the handler's or the helper's, and one stays unanswered; calls share only the table |
| `Listeners` | two subscriptions, two topics, three changes (`MaxChanges`), symmetric in the subscriptions | every pair of filters; a change before, between and after the registrations |
| `EraRouting` | two requests, one reply, one re-issue (`MaxRetries`), a response that comes up to twice (`MaxFinals`) | two are enough to race for a verdict; an issue that is followed by another and one that is the last; a response repeated or not; the cache may expire at any time and any number of times |
| `Settling` | the handshake and one request, no re-issues, a response that comes once | what re-issues and repeats do is in `EraRouting`; here the verdicts of three tasks meet `set_era` |
| `Client` | a tool call of up to two rounds (8 in the code), another operation or a raw call, `close()`; one pushed request, one cancellation; a channel to the transport of one message (`Cap`, 100 in the code) | the channel is full when the transport has not taken the last message; a round that is followed by another and one that is the last; a handler that makes the other operation; a close between any two steps |
| `McpServer` | two messages: one of any kind, and one of those that change what the first may see; six templates over an alphabet of three characters, the slash and a brace, one that uses a name twice; three levels | the state two messages share is the registries, the level, the subscriptions and the sessions; the templates begin, end and are divided by literals that also come inside a value |
| `AuthSession` | two requests, two scopes, two issuers, one step-up (`MaxUpgrades`), one expiry, revocation or migration (`MaxUpsets`), four situations | requests with different needs, together or in turn; one issuer takes documents and the other registrations; documents at every well-known place |
| `Transports` | the handshake and two calls, channels of one message (`Cap`, 100 in the code), one permit, two lines of noise (`MaxNoise`), one challenge of a request (`MaxChallenges`) | a channel that is full with one message is full in every state the real one is full in; the second call finds what the first left |
| `Exchange` | three calls, one request of another peer, two deployments, three rounds (`MaxInputRounds`, 8 in the code), one re-issue | a call listed under one deployment and made under the other; a first, a middle and a last round; every refusal the two doors know |
| `TokenWakeup`, `AuthReplay` | one waiter and one cancellation; the instance of `AuthSession` | a counterexample needs no more |

Every configuration turns deadlock checking off: the models stop when every
question, request or call has ended, as the system does.

### Fairness

Weak fairness of the steps of a task that can go on: tokio polls a task that
was woken. Timers are steps of the same tasks. Where a task may be kept busy
(a receive loop a server floods), the timer has strong fairness: tokio's
cooperative budget suspends such a receive, and the timeout is looked at then;
the read stream's mutex is a fair queue. Nothing is assumed of clients,
servers, users and handlers that still ask, nor, in `Client`, that the transport
takes what is written to it, with these exceptions:

- a handler that has stopped asking returns (`CallsFairness`,
  `ServerFairSpec`): a tool that computes for ever is not the server's to stop;
- in `Exchange`, the application's input handler returns or the call's timer
  fires; neither the network nor the server is relied on;
- in `Transports`, the calls and the transport's tasks are polled, and the GET
  stream of the legacy transport is cut by the HTTP client's own timer; no timer
  of a call is relied on, which is what `DeadChildIsNoticed` is about;
- in `AuthSession`, a server answers or its connection fails; a connection to
  the callback listener, once accepted, is used or closed in the end, since the
  code reads it under no limit of its own. Another may always come first, so the
  callback and its timeout have strong fairness.

## What is proved

`StreamedCalls_proofs`, `Settling_proofs`, `Listeners_proofs`, `Client_proofs`,
`Transports_proofs`, `Exchange_proofs`, `McpServer_proofs` and
`AuthSession_proofs` hold the proofs; the first, the second and the fourth also
those of the modules theirs extends (`PendingRequests`, `EraRouting`,
`SendMessage`). Every invariant and action property the runs check is a theorem
there.

Everything holds for any finite or infinite sets of questions, posts, calls,
messages, subscriptions, topics, URIs, sequences of templates, tools, deployments, levels and scopes, and any
bounds. Assumed of the constants is

- that sentinels are outside the sets they mark (`NoneAssumption`,
  `SlotAssumption`, `TopicsAssumption`, `CallersAssumption`, `ChannelAssumption`,
  `NoneIsNoRecord`, `NamesAssumption`, `McpServerAssumption`) and that ids,
  levels and bounds are numbers, some of them not 0 (`IdsAssumption`,
  `EraAssumption`, `AuthAssumption`, `PermitsAssumption`, `ClientAssumption`,
  `RegistriesAssumption`, `ExchangeAssumption`), and that URIs and patterns are
  sequences of characters, with two different braces (`RegistriesAssumption`);
- of what is sent, that a message is a request, a reply or a notification and
  one of them only (`KindsAssumption`), that the handshake is two requests and a
  notification (`HandshakeAssumption`, `StdioAssumption`), that a call of a tool, a prompt or a
  resource has a name (`NamesAssumption`), and that each request of an operation
  is a call of its own (`ClientAssumption`);
- of a server, that its deployments are a sequence, of known tools
  (`ServerAssumption`), and that the client asks where it is served
  (`ExchangeAssumption`);
- of the web, that a well-known place under an issuer's URL is served by that
  issuer, whatever it says there (`WebsAssumption`; TLS is what makes it so).

In each module the properties are not inductive alone, and an invariant that is
says what else they need; these invariants are theorems and in no run.

- `Consistent`: `Spec => []IInv`. That no question is disowned needs ids to be
  unique (`IdsTrue`) and below the counter; that an answer reaches its own
  question needs the table to hold each sender under its question's id
  (`TableTrue`), a sender taken out of the table to be in one resolver's hands
  and nowhere else (`SendersTrue`), and a filled slot to come from the post that
  took the sender (`SlotsTrue`). From it `OwnAnswers`, `TableIsTidy`,
  `NobodyDisowned`.
- `Implements`: `Spec => ImplementsQuestions`. `Number` is `Open`, `Hear` of a
  post is `Answer`, giving up is `GiveUp`, `Claim` and `Ignore` are `Arrive`,
  the rest stutters.
- `CallsConsistent`: `CallsSpec => []CallsInv`, from `CallsUsePendingRequests`
  (every step of a streamed call is a step of `PendingRequests` or leaves it
  alone) and two facts of its own: a question in progress has a task that asks
  it (`AskersTrue`), and no result is queued before its task is done. From it
  `ResultLast`, `NoQuestionLeft`.
- `EraConsistent`: `EraSpec => []EraInv`. That the cache is true needs the tasks
  about to write it to hold evidence (`VerdictsTrue`), which they have because
  only an unpinned transport tries a peer it does not know (`SeenTrue`); that no
  message is acted on twice needs what each has cost so far, by where its task
  is, and that a legacy peer has not acted on what is still being tried as
  modern (`CountsTrue`). While a message is being tried its peer has acted once for
  each issue given up, so a task that ends without a word ends at a peer that
  acted on the last one. From it `EraTrue`, `OneStream`, `OneExchange`, `OneExecution`, `FallbackIsForUnknown`, `FallbackIsSafe`.
- `SettlingConsistent`: `SettleSpec => []SettleInv`. With `set_era` a second
  writer the cache is no longer only what the peer showed, so `EraIsTrue` fails
  and the rest of `EraInv` (`RoutingInv`, which never reads the cache's truth)
  is what a connected client keeps; beside it stand what the cache may hold
  instead (`CacheTrue`) and what the stage of `connect()` rests on: the result
  of a discovery, an open GET stream, the session that was minted
  (`StageTrue`). From it `EraIsAgreed` and `OneStreamForAll`.
- `ListenersConsistent`: `LSpec => []LInv`. Streams are framed and end with a
  result because an open one has its acknowledgement and no result, and one not
  open yet has at most the acknowledgement (`StagesTrue`). That a subscriber
  misses nothing needs it to be registered from the change it has counted from
  to the one it has ended at, and to be in the registry in between
  (`RegistryTrue`): one fan-out then adds one change to the history and, in the
  same step, to every stream that wants it. From it `FramedStreams`,
  `NoStreamJustStops`, `NothingMissed`.
- `SendConsistent`: `SendSpec => []SInv`. A response reaches its own call or
  none because each waits in the stream once, for a call that has neither
  received nor lost it (`MailTrue`); calls made in turn lose none they wait for
  because a response in the stream is to a call that was sent, and one call is
  in flight (`CallsTrue`). What waits in the channel to the transport is of calls
  that were made (`OutboxTrue`), and room is all that a write asks for. From it `OneReaderAtATime`, `ResponsesAreOwn`,
  `InTurnNoneStolen`.
- `ClientSends`: `ClientSpec => SendSpec`, so that all of that holds of a
  client's requests. It needs `OperationsConsistent` (which operation is at
  which request, who holds the mutex of the Python class and who waits for it).
  On both rests `RequestsConsistent`: a request in flight is the one its
  operation is at, and those before it were answered. From it `ValuesAreOwn`
  and, the mutex being held from the first request to the last,
  `PythonMakesInTurn`.
- `TransportsConsistent`: `TransportsSpec => []PlacesInv`. A request is taken by
  the peer at most once because it is in one place until then, the channel, the hands of
  one task, or the pipe (`QueuedOnce`, `HandedOnce`), whichever transport runs;
  a call is told only what was said of a request the peer has because every
  message on its way back vouches for one (`Evident`). From it `PromiseIsKept`,
  the refinement of `Transport` by all three: taking a message off the channel
  stutters, and turning it away, giving it and telling the call are the abstract
  steps. A challenge leaves the request with the task that sends it, not yet taken
  (`TurnsAway`), so only what was turned away is shown to the peer again. What the
  writer of a stdio child stamps goes by the phase of the settling
  (`EraSettling`), from which `EraIsSpoken`.
- `ExchangeConsistent`: `ExchangeSpec => []ExchangeInv`. A server takes what the
  client encodes because a POST still has the shape its envelope was given
  (`Enveloped`), the parameters mirrored in it are those of the deployment that
  was listed last when it was built (`KnownTrue`), and the dispatch and the
  check of the headers compare the same things; the lemma is that mirroring and
  comparing agree on every schema and every argument (`Mirroring`,
  `Agreeing`). A round carries the answers of the one before because a call has
  one request out, queued or posted, with what its round sends (`RoundTrue`);
  refusals are seen because nothing ran before the dispatch (`Stands`). From it
  `OwnRequestsAreTaken`, `RefusalsAreSeen`, `RoundsCarryOn`.
- `McpServerConsistent`: `ServerSpec => []McpServerInv`. What a call may log is
  settled when it is handed over and every level set later is only lower or
  leaves it alone (`FloorHolds`); that answers fit is a fact about what dispatch
  and finishing make of any message (`Unanswered`, `Finishing`, `Replying`).
  From it `LogsAreAsAsked`, `AnswersAlwaysFit`, `ModernIsTraceless`. `LockHolds`
  adds who holds the mutex of the Python class. From it `PythonTakesTurns` and
  `RegisteredBetween`: nothing is registered while a message is under way, so
  what dispatch looked up is still there when its handler returns.
- `TemplatesReadRight`: `ServerSpec => []ReadsWhatWasNamed`. What reads for a call
  is what the registries said when it was dispatched, and nothing has been
  registered since (`ReadsTrue`, on `LockTrue`). What they said is a fact about
  three recursive functions, `Parse`, `Walk` and the library's `FlattenSeq`. Each
  is first shown to be defined (`PiecesExist`, `WalkExists`, `FlatExists`); then
  a pattern is parsed into pieces (`Parsing`), a piece that fits takes one text
  off what is left of the URI (`Consuming`), and after any number of them the
  texts and the rest are the URI (`WalkStep`, `Matching`). The inductions are
  over sets of numbers (`Induction`), from the well-foundedness of `<`, since no
  prover here instantiates a theorem about a predicate. `ParsingKeepsPattern` says
  of `Parse` alone that its pieces, with the variables in braces again, are the
  pattern: by induction from its end (`Backwards`), place by place
  (`WritingPlaces`).
- `AuthConsistent`: `AuthSpec => []AuthInv`. Tokens stay with their issuer
  because the metadata an attempt works with is an issuer's own
  (`DiscoveryIsHome`: whatever is published, the first document found decides
  and must declare the issuer that was named), because every step after the
  discovery still has that metadata and the token or registration it needs
  (`StepTrue`), and because what is put in the store is put under the issuer the
  grant came from. From it `TokensAtHome`. `ConsentIsBounded` counts: the
  prompts so far, the requests that may still come to one and what is left of
  the budget never add up to more than the bound (`ConsentInv`, for a finite set
  of requests). `NoStepNarrows` needs what is held to be within what the attempt
  wants, asks for and gets, step by step, while one request at a time is
  authorized (`WidenedInv`).

Only model-checked: all liveness, which the prover does not reach.

Proving changed what is modelled three times. That every request gets an answer
(`AnswersFit`) is false of one with an id and the method
`notifications/initialized`, which no instance had: the property says so now
and the instance has one. And `Dispatched` was a `CASE` whose guards overlap,
which means a first match to TLC and no particular one to a proof; it is the
sequence of early returns that `handle_message_with` is. That what a template
binds expands to the URI (`ReadsWhatWasNamed`) is false of a template that names
a variable twice, which no instance had: the property leaves those out now
(`NamesOnce`) and the instance has one.

## Not modelled, and the plan

What is left is a proof that the calls of `Exchange` take only the steps of
`InputRounds`, which it instantiates.
The dual HTTP transport does not refine `Transport`, and is not to: a request
whose stream broke is issued again, up to `MaxRetries` times, and so given to the
peer more than once. What it keeps is `OncePerIssue` and `OneExchangeTells`, both
proved of `EraRouting`.

Left out for good: serialisation and what a listing lists, which are data; the
conversion of values in the Python bindings, and the classes there that only
wrap a transport; PKCE and the text of URLs and headers; activity, expiry and
deletion of sessions, which nothing in the server calls; the programs under
`bin/`, `benches/` and `examples/`; authentication servers, HTTP and TLS
themselves, which belong to libraries.

In what is modelled, left out: the permits of the dual and modern HTTP
transports (their instances have fewer messages than
`max_concurrent_requests`; those of the legacy one are in `LegacyHttp`); the
waiting of `ready()`, a bounded wait for the GET stream that decides nothing;
identity and limits of a connection; the one callback port a registration is
bound to, so a registration kept from an earlier process always works; and the
failures to bind the callback listener and to parse the authorization endpoint,
which end an authorization as the failures that are modelled do.
