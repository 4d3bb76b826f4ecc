# tiksrv in TLA+

tiksrv is a TCP server that lets clients use a MikroTik router through plugins.
This directory models its core logic in TLA+, checks the models with TLC and
proves theorems about them with TLAPS. Paths below are relative to the
repository's root; `eztik/` stands for `src/plugins/eztik/`.

## The system

One thread runs everything: `tcp_listener::start` calls `io_context::run` and
every other piece of code is a completion handler or something a handler calls.
A handler runs to its end before the next one starts. What is hard is therefore
not data races but the order in which handlers run, what has changed between
the moment an operation is started and the moment its handler runs, and which
objects are still there by then.

| Component | Code | State | Operations | Talks to |
|---|---|---|---|---|
| Listener | `src/net/*/tcp_listener.*` | running flag, next client id | start, stop, accept | server (`on_accept`) |
| Client connection | `src/net/*/tcp_client.*`, `read_state_machine.*` | socket, read state, header, send queue | start, read header/body, respond, close, on_error | server (`on_request`, `on_error`) |
| Server | `src/app/*/server.*` | command table | add_command, on_accept, on_error, on_request | commands, hooks |
| Hooks | `src/services/*/hooks_manager.*` | hooks per group | create_group, register_hook, run_hooks | sessions service |
| Startup | `src/app/src/app.cpp`, `services_manager.*` | services, plugins, options | load services, plugins, configuration; run | everything |
| Plugin loading | `src/interop/*/plugin_loader.*` | library handle, plugin | load, load_all | startup |
| Commands | `eztik/commands`, `src/plugins/core` | session of the last request | execute | sessions service, API, client |
| Sessions service | `eztik/services` | session and close callback per client id | create, close, on_close, the disconnection hook | API, commands |
| RouterOS API | `eztik/routeros/*/api.*` | socket, logged_in, tag counter, callbacks by tag, send queue | open, login, send, read, close | router, session |
| Sentences | `eztik/routeros/*/sentence.*`, `api_read_state_machine.*` | read state, current sentence | encode, read length, read word, classify | API |
| Password hashing | `eztik/routeros/*/util.*`, `login2` | the challenge's and the digest's bytes | check, decode, hash, encode | API |
| Configuration | `src/config`, `config_manager.*` | options and where their values come from | parse, store | startup, plugins |
| Logging, error codes | `src/log`, `error.*` | none that the program reads | output only | startup |

How they interact: a client's bytes become requests (`tcp_client`), each
request is handed to the command with its id (`server::on_request`), the eztik
commands find the client's session in the sessions service and hand a sentence
to its API connection with a callback, the callback answers the client
(`tcp_client::respond`, which posts). When a client's connection fails,
`server::on_error` runs the disconnection hooks, and the sessions service's
hook closes the client's session. When the router's connection fails,
`api::on_error` has the session's entry closed.

### What makes each component correct

- Client connection: requests reach the server once and in order, one read is
  under way exactly while the connection is open, the disconnection hook runs
  once, every answer's callback runs once.
- Sessions service: one session per client at most, none for a client that has
  gone; every `api_open` is answered once at most and in the end; a session is
  ready exactly when its API is open and logged in.
- API: every sentence's callback is called until it says it is done; a reply
  finds its callback; what is aborted is reported once.
- Sentences: decoding inverts encoding for every length; a sentence is handed
  on exactly at its terminating empty word.
- Password hashing: what is hashed is what the router wrote, what is sent is the
  digest, and it throws for nothing but a character that is no digit.
- Startup: nothing is used before it is made; the plugin that serves a client is
  the one that hears of its loss; an option has the value that the command line
  gives it; stopping works from every point the start can fail at.
- Client ids: a client finds its own session under its id.

## Modules

| Module | Models or proves |
|---|---|
| `Sessions` | clients, the three eztik commands and the echo command, sessions service, API connection by whole sentences, the queue of the io_context |
| `SessionTable` | the abstract promise of the sessions service, implemented by `Sessions` |
| `MCSessions` | symmetry for TLC |
| `SessionsProofs` | two inductive invariants of `Sessions`, their theorems and the refinement of `SessionTable` |
| `RepliesProofs` | a third invariant, of the answers, and the theorems about what each request is answered |
| `TcpClient` | one client connection byte by byte: requests, answers, failures, hooks |
| `Connection` | the abstract promise of a connection, implemented by `TcpClient` |
| `TcpClientProofs` | the hooks and the send queue, types, reads, answers, and the refinement of `Connection` |
| `RequestsProofs` | that requests are the client's messages |
| `Headers` | the bytes of the two headers, with the theorem about them |
| `WordLength` | the length that precedes a word: `encode_length` and its reading |
| `ApiReader` | an API connection byte by byte and tag by tag |
| `SentenceApi` | an API connection by whole sentences, implemented by `ApiReader` |
| `ApiReaderProofs` | that reading a length inverts writing it, where the reader stands in the stream, the theorems about `ApiReader` and the refinement of `SentenceApi` |
| `Challenge`, `MCChallenge` | the answer to the router's challenge, and characters for TLC |
| `ChallengeProofs` | theorems about `Challenge` |
| `Server` | the life of the process: start, configuration, plugins, listener, dispatch, ids, end |
| `ServerProofs` | theorems about `Server` |

### Sessions

`ready` is the queue of the io_context: completion handlers and posted
functions in the order they will run. The `Environment` actions append
completions to it: a client's request or failure, a finished connect, a
finished send, a sentence read from the router, a broken connection. The
`RunHandler` actions take the head and do everything that handler does, the
destruction of sessions that it leaves without an owner (`Finish`) included.
The other variables are the program's: `table` is `sessions_service::sessions_`,
`conn` the API sockets, `loggedIn` the `logged_in_` flags, `held` the `session_`
member of each command, `outbox` the `async_send` operations under way. `stage`
says where each callback given to `api::send` is kept: in a posted function, in
the send operation or its completion handler, in `read_cbs_`, or nowhere.
`owed` is what the router may still say, `replies` a history of what each
request was answered, `aborted` that an assertion has ended the process.

A session is named by the `api_open` request that created it, since a session's
own id is its client's and does not tell two of them apart: that the code
cannot either is what several of the properties are about.

The queue is first in, first out because asio's is, and because closing a
socket completes its pending operations at the queue's tail. The order of the
two completions of one exchange (the send's first, the reply's after) follows
from asio's reactor, which completes writes before reads.

The network is not lossy (it is TCP); what fails is a connect, a send or a
read, each at any time. `addressParses` is an input: with an address in option
`eztik.ros_ip` that does not parse, `api::open` fails inside the request. The
router is honest in that it answers only sentences it has been sent, with at
most `MaxRows` sentences before the last. An invalid, untagged, unknown or fatal
sentence has the effect of `RouterBreaks`, because the code treats it as it
treats a read error. What is left is what fails an assertion of the reader (a
second tag, a word of 2^14 bytes or more, a length of zero in more than one
byte) and so ends the process: it concerns no session more than another, and
`ApiReader` has it.

What it may answer to a command is a row, another response without parameters
(`blank`), `!trap`, `!done`, and `!done` with parameters (`ret`). The
distinction is the code's: `api_send` keeps its callback until a response that
has no parameters, whatever its type, so a `blank` ends a command early and a
`ret` does not end it at all. To the first login sentence it may answer a
challenge or 32 characters that are no digits (`garbled`), for which
`hash_password` throws inside the callback and `api` closes.

`Referenced` is the reference count of a session. A login's callback owns its
session, so a session whose connection ends while the login waits is not
destroyed, though closed: `read_cbs_` is not emptied. A command's `session_` owns
the last session it served, so the connection of a client that has gone may stay
open and logged in: `OutlivesItsClient` says that nothing else keeps one.

### SessionTable

What a client may rely on: its entry in the table is empty, being opened, usable
or dead, and what moves it. A session that has been accepted may be displaced or
ended by a callback that is late, and `Wedge` is the step that leaves a dead
entry behind. `ImplementsTable` is the refinement, with each entry's state
computed from `table`, `conn` and `loggedIn`.

### TcpClient, Connection and Headers

The client's bytes are records of a message and a position, so that a body that
is cut wrongly or read from the wrong message shows. `wanted` is the read under
way, `sending` the `async_send` operations, and the same `ready` queue holds the
completions. `header` is the header in the read context, `hooks` how often
`server::on_error` has run. The commands are external here: one may answer while
it handles a request, a hook may while it runs (the session's close notice), and
any may later. A header is only ever wrong about its size by being too large,
since any four bytes are some size; `BodySizes` is chosen around the limit.
A send may be cut short: `async_send` is not `async_write`, and reports success.

`Connection` is what `Sessions` and `Server` take a connection to be: requests
while it is open, one report for each answer, failures as it closes or later.
`Headers` has the sixteen bytes of a header, `append_integer` and
`extract_integer` by their shifts.

### ApiReader, SentenceApi and WordLength

A word is its kind (a type, a tag, a parameter) and its size; in the stream it is
one item per byte of its length and one for its contents. The stream is what the
router has sent, `answers` and `reserved`, read from a place `next` (a sentence,
a word of it, an item of the word) that every read moves on: `ItemAt` is what
stands at a place, `After` the place behind it. `pending` is the read
under way with what its lambda captures, `sentence` the words read so far,
`callbacks` is `read_cbs_`. `handled` is a history of what `handle_response` got
and did. The router sends answers, sentences that are no answers, and reserved
control bytes, in any order; the session may close the API at any time. The
lengths are written with the `EncodeLength` that `sentence::encode` uses, and
read by the arithmetic of `on_reading_length`. A word without bytes has a length
of two bytes (`LengthOf`), since a single zero byte ends a sentence.

`aborted` is set where an assertion fails: `nread == mbytes` (in `RestOfLength`),
`buf.size() > 0` and `!tagged_` (both in `FailAssertion`). `AssertsForAReason`
says that only the words of the sentence that is next can do that, so that
nothing left over from an earlier one, or read in its place, ever does.

`SentenceApi` is the connection as `Sessions` has it: a sentence is handled in
one step, in order, while the connection is open, and can drop no callback but
one of a tag it carries.

### Challenge

One login reply from the check in `api::login` to the parameter of `login2`.
Each turn of the two loops is a step, `buf` and `out` are what they write, and
characters are bytes, since the mask that raises a letter also changes
characters that are none. MD5 is external: the digest is any.

### Server

The inputs are chosen in `Init`: the command line (plain, naming the port,
asking for help, wrong), whether the port is free, whether the plugins directory
exists, which files are in it, and the configuration file (good, setting options
of eztik, setting the port, wrong for the program, wrong for a plugin). A
directory may hold several copies of a plugin. `phase` walks through `main`, the
constructor of `tiksrv_app` and `run()`, and `cause` keeps the phase in which an
exception was thrown.

`bound` and `portOption` say where the bound port and the option's value came
from, `stored` whether eztik's options have values: a failed parse leaves them
without, and so does an option that two copies declare and the file sets, which
is ambiguous. Commands are exported a plugin at a time and the first with an id
stays; hooks are in the order of loading, and `run_hooks` moves the client into
the first, so that a second throws.

`accepting` and `lastId` are the listener's. A client is its serial number;
`IdOf` is the id that keys the sessions, which wraps at `IdLimit`. `sessions`
keeps who opened the session under an id; how a session opens and ends is
`Sessions`', of which `SessionEnds` is the effect here. So are the assertions
that what a router says may fail (`hotspot_user.hpp:17`, `api.cpp:148`,
`api_read_state_machine.cpp:21`, `sentence.cpp:118`): `SessionAsserts` ends the
process once a session has been opened, whether or not the table still has it.

The constructor's acceptor binds and listens already (`Bind`); `Listen` is the
second call of `listen()`, in `start()`, which throws if the system refuses it.

The way down is a step per destructor that can go wrong: the plugins, whose code
may be unmapped by then (`DestroyPlugins`, where the outcome is the dynamic
loader's), and the listener with its assertion (`DestroyServer`).

## Runs

| Run | Module, bounds | Shows |
|---|---|---|
| `sessions_one` | one client, any three requests (among open, send, a send that does not parse, load, echo, a command that does not exist), an address that parses or not, 1 sentence before the last, 3 completions waiting | the safety properties of one client's sessions, and the refinement of `SessionTable` |
| `sessions_two` | two clients that open and send, two requests each, no rows, 2 completions waiting, symmetric clients | clients do not disturb each other, although the commands retain sessions |
| `sessions_fair` | one client, any two of open, send and load, 1 sentence before the last | what is answered in the end |
| `sessions_load_trap` | violation | `hotspot_user.hpp:17` |
| `tcp_client` | header of 2 bytes, limit 2, bodies of 0 to 3, two messages, three answers | requests, hooks and answers, what is reported in the end, and the refinement of `Connection` |
| `api_reader` | tags modulo 2, three requests, two sentences, words of 0, 1, 128 and 2^14 bytes, one tag or two | reads, tags, closing, what fails an assertion, and the refinement of `SentenceApi` |
| `api_reader_fair` | one request, two sentences, words around 2^7 and 2^14 | every sentence is handled |
| `api_reader_long` | violation | `api.cpp:148` |
| `server` | any start, a directory with any of core, two copies of eztik and a file that does not load, two ids, three connections, an assertion at any time after the first session is opened | serving and hooks, ids, what ends the server and how, and that it keeps accepting |
| `server_stop` | violation | `tcp_listener.cpp:33` |
| `server_port` | violation | option `port` against the bound port |
| `challenge` | digests of 2 bytes, replies of 3, 4 and 5 characters at and beside the ends of the ranges of digits | what is hashed, what is sent, what throws |

Types are run where a wrong type is how a mistake in the code would show first:
in `ApiReader`, where a length read with the wrong number of bytes is no size of a
word, and in the largest model, `Sessions`. The other type invariants, and
`RouterLossIsSilent`, `OneAcceptWhileRunning`, `NothingQueued`,
`NothingServedAfterHooks`, `SuccessIsOnTheWire` and `CommandLineWins`, are stated
by theorems alone: `KeepsAccepting` fails where the one accept is lost,
`ImplementsConnection` has what `NothingServedAfterHooks` says of the connection,
and `ImplementsSentenceApi` that sentences are handled whole, once and in order.

Why the bounds are enough to be of use. Everything in `Sessions` that two
sessions of a client can do to each other needs two opens of it and one more
request, for the session displaced and the one that displaced it; three requests
allow that, and each of the interesting cases (a dead entry, a displaced
session, a close notice that is delivered, a success for a session that is not
in the table, a sentence for a callback that is gone, a session that leaks) has
been seen to be reached. What two clients share are the commands' `session_`
members, which two requests each are enough to pass back and forth. `MaxReady`
bounds how many completions wait, not what they are. In `TcpClient` two messages
are enough for a header that is stale or a body that is taken from the next
message, three answers for two sends under way and one being posted. In
`ApiReader` a tag wraps with the third request, which then meets the first one's
callback. A size of words stands for its form of the length; contents do not
matter to the reader. In `Server` three connections are enough for one that
fails, one that is dropped and one that is served, and the third has the first
one's id; two copies of eztik are enough for a hook that is not the first. In
`Challenge` two bytes are enough for a loop that stops early or writes a byte in
the wrong place.

Deadlock is not checked, since every one of these systems may come to rest: a
client or a router that says nothing more, a process or a computation that has
ended.

### Fairness

`WF(RunHandler)`: `io_context::run` runs what is ready, and every handler
returns. `WF` of the environment's completions is assumed only for the local
kernel: a connect ends (with a timeout at the latest), a send is taken or fails,
a read that has its bytes completes. Nothing is assumed of clients or of the
router: they may be silent for ever, and the liveness properties say so
(`SendSettles` allows a sentence to wait for the router alone). In `Server` the
start's steps and its handlers are fair, as they are ordinary code, and
connections are not.

## Theorems

Each theorem holds for all values of the constants that the module's assumption
allows. The assumptions (`SessionsAssumption`, `TcpClientAssumption`,
`ChallengeAssumption`, `ServerAssumption`, `ApiReaderAssumption`) say that the
bounds are natural numbers, that a value that stands for none is no other, that
a header and the client ids are not empty, and that a challenge is twice as long
as a digest; TLC evaluates them in the runs.

### Sessions

`IInv` gives `TypeCorrectness`, `NoSessionForTheGone` (a client that has gone has
no entry, whatever handlers of it are still queued) and
`OnlyLoggedInSessionsWedge`. The last two are not inductive: a handler that
erases or closes acts on the session that its queue entry names, so the
invariant has to say of every handler in the queue and every send under way that
it belongs to a session that may have it (`AllowedHandler`, `AllowedCall`), and
of every entry that its owner is its client (`OwnEntry`).

`PInv`, on top of it, says where each callback is. `Staged` and `NoneLost` tie
`stage` to the queue and the send operations in both directions; `Apart` and
`Underway` say that no two of them are for one callback; `LoginSteps` that a
login sends its sentences one after the other and is logged in last; `Unserved`
that a request in the queue has left no trace yet; `OpenIsHeld` that a session
with an open socket is referenced. Most handlers end in `Finish`, which may
destroy a session and cut off its sends: the lemma `FinishKeeps` says once what
a handler has to establish for that to keep `PInv`, with `EndKeeps` and
`OneMoves` for the handlers that end a callback or move it to its next stage.
From both invariants follow

- `LoginsAreAsserted`: the asserts in `sessions_service::create` hold;
- `RetainedByCommands`: what keeps the connection of a client that has gone is a
  command, by `OpenIsHeld`, since its entry is gone and its login is over;
- `EachCallbackInOnePlace`;
- `NoWordOfALostRouter`: a failing read posts nothing to the session's client;
- `EachClientAlone`: no handler of one client touches another's session, which
  needs that a session that a command lets go of is not in the table;
- `TableImplemented`: `Sessions` implements `SessionTable`, step by step, which
  needs that a session connects once, and is not logged in before its login.

`RepliesProofs` has the properties that speak of all that a request was answered,
posted or sent. None of them is inductive: whether a callback may answer depends on
what the other callbacks of the same request have said and may still say. Its
invariant `HInv`, on top of the other two, has three parts:

- `AInv` says how far each request's answers can have come. An `api_open` has none
  while it connects or logs in, and none but the success while its session is its
  client's (`OpenAnswers`); an `api_send` has none until its send has completed,
  and nothing final while its callback is kept (`SendAnswers`); a request that is
  not served yet has none.
- `BInv` relates the router to the callbacks. What the router owes for a call is
  behind the completion of its send (`SentFirst`), one sentence of a connection is
  read at a time (`OneReading`), a call's last one ends what is owed
  (`LastSentence`). A callback that is gone too early was ended by an answer that
  its request has had (`EndedEarly`), and one that is kept has an answer to come,
  or was passed `ret` (`Awaited`).
- `CInv` says which session of a client is the one in the table. It is the latest
  (`Latest`); the one of the first request stays until its connection ends
  (`FirstStays`), and what its login has left in the queue runs before a later
  session has connected (`FirstGoesFirst`). So it takes two earlier sessions to
  have a ready one closed by a stranger (`Notices`).

A handler is not proved to keep each part by itself. The proofs go through
`Account`, which says in terms common to all handlers what one
may do: which answers it posts (`May`), and how sockets, callbacks, entries and
logins move with them. `HandlerAccount` shows that every handler does that, except
the one that hands an answer over and the one that aborts; `AccountKeepsAnswers`,
`AccountKeepsReplies` and `AccountKeepsNotices` that whatever does that keeps a
part. `ArrivalKeeps` does the same for the environment, by what it may complete.
From `HInv` follow

- `EachOpenAnsweredOnce` and `EachSendAnswerEnds`, which are conjuncts of it;
- `LeaksAreSilent`: with `LoginSteps`, a session that is lost in its login is not
  logged in, hence in no command, and not in the table either;
- `EachReplyFindsItsCallback`: when a sentence is at the head of the queue, the
  completion of its send has been run;
- `NothingElseStrands` and `NoticesNeedTwoStaleOpens`.

### Client connection

`TcpClientProofs`: `HooksOnce`, `QueueAlwaysEmpty` and `NothingServed`, which are
inductive together with the range of `state`: `on_error` is reached only past
`is_open()`, where no hook has run yet, and leaves the state closed, which
nothing changes again.

For the rest it has one invariant, `JInv`, because its parts lean on each other:
that the wire is in order needs that every answer being sent is older than those
posted and younger than those on the wire (`Wiring`), and that needs that no
answer is in two places (`Places`, `Reporting`). With `Reads` (one read under way
or completed) and `Bytes` (what is read is of messages that were sent) it gives
`TypeCorrectness`, `OneRead`, `OnePlace`, `WireOrder`, `SuccessOnWire` and
`ConnectionImplemented`. That the types are part of it is not a formality: a
header's size is `sent[m]` of the message `m` that its bytes are of.

`RequestsProofs`: `RequestsWhole`. `KInv` says where the stream stands. A byte of
the stream determines those after it (`Flow`) up to the end of what was sent
(`Ends`), so it is enough to know the first: the first of a message when a header
is to be read, the first of its body when a body is (`Expected`).

`Headers`: `HeaderRoundTrip`, for all 32-bit values of the four fields.

### Words, challenges, the server

`ApiReaderProofs` begins with the lengths of words, for every one below 2^28:
`FirstByte` and `RoundTrip`, by cases on the four forms, each from the digits of
the length to base 256. The runs meet the lengths 0, 1, 127, 128, 16383 and 16384
only. One invariant, `IInv`, gives the rest, since none of the properties is
inductive: whether a sentence is given to the right callback depends on how its
words were read, that on where the reader stands in the stream, and that on every
read before. Its parts, in the order in which they lean on each other:

- `Aligned`: the read under way, or the one that has completed, is of what stands
  at its place in the stream, and no two reads are there at once;
- `Partial`, `Whole`, `Answered`: the words read so far are those of the sentence
  that is to be handled next, and what was handled is what the router sent, in
  order;
- `Sends`, `Registered`, `SentAfter`: a callback is kept under its tag once its
  send has completed, and that completion runs before the read of its answer;
- `Reasons`: why each drop of a callback and each closing happened.

From it follow `TypeCorrectness` (with parameters of any length below
2^28, where `RoundTrip` is what makes a decoded length one of a word), `OneRead`, `CallbacksAreDropped`,
`AnswersReachTheirCallbacks`, `NoSpuriousClose`, `WhatAsserts`, and `Implements`:
every step is a step of `SentenceApi` or none, the end of a sentence its `Handle`.
`WhatAsserts` needs `Aligned` and `Partial`, by which the words read so far and the
read that has completed are of the sentence that is next, and `LongWord`, that a length of three bytes or more is of 2^14 or
more.

`ChallengeProofs`, for digests of any size and any strings: `TypeCorrectness`,
`ChallengeHashed`, `DigestSent`, `OnlyDigitsThrow`, by an invariant that says of
each loop what its turns so far have written (`Progress`). That a turn does not
touch what the others wrote is that the places of two digits differ (`Apart`).

`ServerProofs`, for any directory, number of ids and number of connections: one
invariant gives `TypeCorrectness`, `OneAccept`, `ServingHook`,
`SessionsGoWithTheirClients`, `SharedIds`, `HowAServerEnds`, `WhatMainReports` and
`CommandLineKept`. `Start` and `End` say what is there by each phase, with
`FirstEztik` for the order of the plugins and their hooks; `Listener` that the
one accept is for the last client made; `Connected` that a client has at most one
handler in the queue and that sessions are of clients that are connected, which
leans on `Start`: only then does the hook that runs close the session that is
there. `Opened` says that a session is opened by an eztik whose options have values,
so that `HowAServerEnds` can tell the two ways apart: a server that has run ends by
an assertion only if it could open sessions, and by an exception only if several
copies of eztik or a file that did not parse are there to throw it. `Keyed` ties a session to the id of its client, from which `SharedIds`
follows by arithmetic.

### Model-checked only

The five liveness properties: `OpenSettles` and `SendSettles` of `Sessions`,
`AnswersReported` of `TcpClient`, `AnswersHandled` of `ApiReader` and
`KeepsAccepting` of `Server`. They need the fairness of `FairSpec`, and what is
ENABLED is beyond the prover. Every invariant, action property and refinement
that a passing run checks is stated by a theorem.

## What the checks found in the code

1. `api.cpp:148`: a word of 2^14 bytes or more ends the server (`api_reader_long`).
2. `hotspot_user.hpp:17`: a load that the router refuses ends the server
   (`sessions_load_trap`).
3. `tcp_listener.cpp:33`: a start that throws aborts instead of reporting
   (`server_stop`).
4. `server.hpp:34`: the configuration file's port is not listened on
   (`server_port`).

The models also contain, as behaviour the properties describe rather than deny:

- a failed send that leaves a client with a dead session until it disconnects
  (`WedgedOnlyAfterLogin` says that this is the only way);
- a router that is lost during a login or a command, after which the client is
  never answered (`RouterLossIsSilent`, `OpenSettles`), and the session of that
  login, which its own callback then keeps for good (`LeakIsSilent`);
- an `api_send` whose answer is `!done` with parameters, as an added item's
  `=ret=` is: its callback is kept for good (`OnlyRetStrands`); one that gets a
  row without parameters is ended by it, and the next row closes the API
  (`ReplyFindsCallback`, `SendAnswersEnd`);
- the close notice that is delivered only after two stale opens
  (`ClosedNoticeNeedsTwoStaleOpens`), and late callbacks that close or report on
  a newer session (`ImplementsTable` has the steps);
- two copies of eztik, with which the first client that leaves ends the server,
  a bad configuration file, after which the first `api_open` does, and a router
  whose words fail an assertion, which ends it for every client
  (`EndsOnlyThroughEztik`, `AssertsForAReason`);
- the connection of a client that has left, which stays logged in until another
  client uses the command that served it last (`OutlivesItsClient`);
- a load whose sentence cannot be sent, which is never answered;
- an answer that the socket takes in part, which is reported as sent;
- a process that ends by a signal where `main` would report an exception
  (`ReportsOnlyARunningServer`);
- clients whose ids have wrapped, one of which finds the other's session
  (`SharesOnlyAfterWrap`);
- a request without a body, which gets its header as one (`RequestsAsSent`);
- a sentence for a callback that has returned false, which closes the API
  (`ClosesForAReason`).

## Not modelled

Logging, the names of error codes and the build files have no state that the
program reads. The encoding of protobuf messages is left to whether a message
parses, boost::program_options to whether a file parses and which options it
sets, MD5 to a digest. The five-byte form of a length is left to its first byte:
the assertion of finding 1 comes first. Whether a plugin's destructor is still
there when it is called is a choice of `DestroyPlugins`, since no model of the
source can decide it. The branch of `services_manager::initialize` for an optional
service that fails to initialize has no service to run it: both that exist are
required and neither fails. `load_all` of `api_repository` has no caller.

## Plan

Done, in this order: `Sessions` with `SessionTable`; `TcpClient`; `WordLength` and
`ApiReader`; `Server`; the abstract connections `Connection` and `SentenceApi`;
`Challenge` and `Headers`; ids that wrap, copies of plugins and the way down in
`Server`; the proofs of `Server`, `TcpClient` and `Challenge`, and those of
`Sessions` up to its refinement; the proofs of `ApiReader` with its refinement of
`SentenceApi`; the answers of `Sessions` (`RepliesProofs`).

Next:

1. `Server` with `TcpClient` and `Sessions` in place of `ClientActs` and
   `SessionEnds`, by their abstract specifications.
