------------------------------ MODULE Sessions ------------------------------
(***************************************************************************)
(* RouterOS sessions of the eztik plugin, end to end: the requests of the   *)
(* connected clients, the commands api_open, api_send and hotspot load, the *)
(* table of sessions_service, each session's API connection to the router   *)
(* (read at the level of whole sentences) and the answers sent back.        *)
(*                                                                          *)
(* The server runs everything on one thread: each completion handler runs   *)
(* to its end before the next, in the order in which the operations         *)
(* completed or were posted.  `ready' is that queue of the io_context, an   *)
(* Environment action appends a completion to it and a Handler action runs  *)
(* the one at its head, with everything it calls.                           *)
(*                                                                          *)
(* A client is accepted at the start: one that has sent nothing has no      *)
(* effect.  Byte streams, tags and lengths are left to other modules.       *)
(***************************************************************************)
EXTENDS Naturals, Sequences, FiniteSets

CONSTANTS
  Clients,        \* the ids tcp_listener has given out
  Ops,            \* the kinds of request a client sends
  MaxReqs,        \* bound: requests per client
  MaxRows,        \* bound: non-final sentences the router sends per call
  MaxReady,       \* bound: the environment adds to fewer ready handlers
  NoSession

AllOps == {"open", "send", "badsend", "load", "echo", "unknown"}

Request == [client : Clients, op : Ops, n : 1..MaxReqs]

\* A session is named by the api_open request that created it.
Session == {r \in Request : r.op = "open"}

\* A callback given to api::send: by login(), for its two sentences, or by
\* the execute() of the command that serves request `req'.
Call ==
  {k \in [sess : Session, req : Request, step : {"login1", "login2", "user"}] :
     IF k.step = "user"
     THEN k.req.client = k.sess.client /\ k.req.op \in {"send", "load"}
     ELSE k.req = k.sess}

LoginCall(s, step) == [sess |-> s, req |-> s, step |-> step]
UserCall(s, r)     == [sess |-> s, req |-> r, step |-> "user"]

\* The commands that retain the last session they served.
Command == {"send", "load"}

CommandOf(op) == IF op = "load" THEN "load" ELSE "send"

\* What the router answers to a command: !re, or another response without a
\* parameter, !trap, !done, and !done with parameters, as =ret= of an added item.
Response == {"row", "blank", "trap", "done", "ret"}

\* To the first login sentence: 32 digits in =ret=, or 32 other characters, for
\* which hash_password throws.
Reply == Response \cup {"challenge", "garbled"}

\* What a client is answered: api_send passes each response on.
Code == Response \cup
        {"success", "data", "open_failed", "already_open", "pending",
         "not_open", "session_closed", "unknown_error", "invalid_request",
         "unknown_command"}

Handler ==
  [kind : {"request"}, req : Request] \cup
  [kind : {"lost"}, client : Clients] \cup
  [kind : {"respond"}, req : Request, code : Code] \cup
  [kind : {"connected"}, sess : Session, ok : BOOLEAN] \cup
  [kind : {"post"}, call : Call] \cup
  [kind : {"sent"}, call : Call, ok : BOOLEAN] \cup
  [kind : {"sentence"}, call : Call, reply : Reply] \cup
  [kind : {"broken"}, sess : Session]

ASSUME SessionsAssumption ==
  /\ Ops \subseteq AllOps
  /\ MaxReqs \in Nat
  /\ MaxRows \in Nat
  /\ MaxReady \in Nat
  /\ NoSession \notin Session

VARIABLES
  addressParses, \* option eztik.ros_ip is an IP address; no step changes it
  ready,      \* the completion handlers ready to run, oldest first
  live,       \* the clients whose tcp_client is open
  issued,     \* issued[c]: how many requests client c has sent
  table,      \* sessions_service::sessions_, NoSession where it has no entry
  conn,       \* conn[s]: the API socket of session s
  loggedIn,   \* the sessions whose api has logged_in_ set
  stage,      \* stage[k]: where the callback of call k is kept
  outbox,     \* outbox[s]: the async_send operations under way, oldest first
  owed,       \* owed[k]: sentences the router may still send for call k
  held,       \* held[m]: session_ of command m
  replies,    \* history: the codes sent to the client for each request
  aborted     \* an assertion has failed and the process is gone

vars == <<addressParses, ready, live, issued, table, conn, loggedIn, stage, outbox, owed,
          held, replies, aborted>>

ConnState == {"none", "connecting", "open", "closed"}

\* "posted": in a posted handler; "sending": in a send operation or its
\* completion handler; "waiting": in read_cbs_; "done": gone.
Stage == {"none", "posted", "sending", "waiting", "done"}

StateOK ==
  /\ ready \in Seq(Handler)
  /\ live \subseteq Clients
  /\ issued \in [Clients -> 0..MaxReqs]
  /\ table \in [Clients -> Session \cup {NoSession}]
  /\ conn \in [Session -> ConnState]
  /\ loggedIn \subseteq Session
  /\ stage \in [Call -> Stage]
  /\ outbox \in [Session -> Seq(Call)]
  /\ owed \in [Call -> 0..(MaxRows + 1)]
  /\ held \in [Command -> Session \cup {NoSession}]
  /\ replies \in [Request -> Seq(Code)]
  /\ aborted \in BOOLEAN

TypeOK == addressParses \in BOOLEAN /\ StateOK

Init ==
  /\ addressParses \in BOOLEAN
  /\ ready = <<>>
  /\ live = Clients
  /\ issued = [c \in Clients |-> 0]
  /\ table = [c \in Clients |-> NoSession]
  /\ conn = [s \in Session |-> "none"]
  /\ loggedIn = {}
  /\ stage = [k \in Call |-> "none"]
  /\ outbox = [s \in Session |-> <<>>]
  /\ owed = [k \in Call |-> 0]
  /\ held = [m \in Command |-> NoSession]
  /\ replies = [r \in Request |-> <<>>]
  /\ aborted = FALSE

-----------------------------------------------------------------------------
(* What the handlers are made of. *)

Has(c) == table[c] # NoSession

IsReady(s) == conn[s] = "open" /\ s \in loggedIn

HasReady(c) == Has(c) /\ IsReady(table[c])

\* tcp_client::respond posts; the answer is sent when the post runs.
Respond(r, code) == <<[kind |-> "respond", req |-> r, code |-> code]>>

\* sessions_service::close tells the client only if the session is ready.
CloseNotice_Always(c) ==
  IF Has(c) THEN Respond(table[c], "session_closed") ELSE <<>>

CloseNotice(c) ==
  IF HasReady(c) THEN Respond(table[c], "session_closed") ELSE <<>>

Erase_OnlyReady(c) == IF HasReady(c) THEN [table EXCEPT ![c] = NoSession] ELSE table
Erase_All(c)       == [d \in Clients |-> NoSession]

Erase(c) == [table EXCEPT ![c] = NoSession]

\* The callback of call k has run: it is kept in read_cbs_ if it returned true.
KeepCallback_Always(k, keep) == stage
KeepCallback_Never(k, keep)  == [stage EXCEPT ![k] = "done"]

KeepCallback(k, keep) == IF keep THEN stage ELSE [stage EXCEPT ![k] = "done"]

\* Closing a socket completes its pending sends with operation_aborted.
Abort_Dropped(calls) == <<>>

Abort(calls) ==
  [i \in 1..Len(calls) |-> [kind |-> "sent", call |-> calls[i], ok |-> FALSE]]

Pending(k) == stage[k] \notin {"none", "done"}

\* A shared_ptr to the session exists, besides the one in the handler of
\* async_connect: in the table, in a command, or in the callback of a login
\* sentence.
Referenced(s) ==
  \/ table[s.client] = s
  \/ \E m \in Command : held[m] = s
  \/ \E step \in {"login1", "login2"} : Pending(LoginCall(s, step))

\* The end of a handler that has chosen table', held' and stage' and would
\* leave the sockets and send operations as given: a session that nothing
\* references any more is destroyed, which closes its API.  A handler lets go
\* of one session that was logged in at most, and only those have sends under
\* way when nothing references them.  The handler posts `before' and `after'
\* before and after that.
Finish(sockets, sends, before, after) ==
  LET dying == {s \in Session : sockets[s] = "open" /\ ~Referenced(s)'}
      busy  == {s \in dying : sends[s] # <<>>}
      aborts == IF busy = {} THEN <<>> ELSE Abort(sends[CHOOSE s \in busy : TRUE])
  IN  /\ conn' = [s \in Session |-> IF s \in dying THEN "closed" ELSE sockets[s]]
      /\ outbox' = [s \in Session |-> IF s \in dying THEN <<>> ELSE sends[s]]
      /\ ready' = Tail(ready) \o before \o aborts \o after

\* A handler that changes no session's owner and no socket.
FinishWith(posts) ==
  /\ ready' = Tail(ready) \o posts
  /\ UNCHANGED <<table, conn, loggedIn, stage, outbox, held, aborted>>

-----------------------------------------------------------------------------
(* Handlers of the client side. *)

Running(kind) == ready # <<>> /\ Head(ready).kind = kind

\* The session whose API the handler at the head belongs to.
HandledSession ==
  IF Running("connected") \/ Running("broken") THEN Head(ready).sess
  ELSE IF Running("post") \/ Running("sent") \/ Running("sentence")
  THEN Head(ready).call.sess
  ELSE NoSession

ImmediateCode_Raw == [echo |-> "data", unknown |-> "unknown"]

ImmediateCode == [echo |-> "data", unknown |-> "unknown_command"]

\* server::on_request, for a command that answers without a session.
AnswerAtOnce ==
  /\ Running("request")
  /\ LET r == Head(ready).req
     IN  /\ r.client \in live
         /\ r.op \in {"echo", "unknown"}
         /\ FinishWith(Respond(r, ImmediateCode[r.op]))
         /\ UNCHANGED <<live, issued, owed, replies>>

\* open_command::execute, refused.
RefuseOpen ==
  /\ Running("request")
  /\ LET r == Head(ready).req
     IN  /\ r.client \in live
         /\ r.op = "open"
         /\ Has(r.client)
         /\ FinishWith(Respond(r, IF HasReady(r.client) THEN "already_open"
                                                        ELSE "pending"))
         /\ UNCHANGED <<live, issued, owed, replies>>

\* sessions_service::create and api::open.  An address that does not parse
\* fails at once: the new entry is closed again.
OpenApi_EntryKept(r) ==
  /\ table' = [table EXCEPT ![r.client] = r]
  /\ ready' = Tail(ready) \o Respond(r, "open_failed")
  /\ UNCHANGED <<conn, loggedIn, stage, outbox, held, aborted>>

OpenApi(r) ==
  \/ /\ addressParses
     /\ table' = [table EXCEPT ![r.client] = r]
     /\ conn' = [conn EXCEPT ![r] = "connecting"]
     /\ ready' = Tail(ready)
     /\ UNCHANGED <<loggedIn, stage, outbox, held, aborted>>
  \/ ~addressParses /\ FinishWith(Respond(r, "open_failed"))

\* open_command::execute, for a client without a session.
CreateSession ==
  /\ Running("request")
  /\ LET r == Head(ready).req
     IN  /\ r.client \in live
         /\ r.op = "open"
         /\ ~Has(r.client)
         /\ OpenApi(r)
         /\ UNCHANGED <<live, issued, owed, replies>>

\* session_required_command, without a ready session.
RefuseCommand ==
  /\ Running("request")
  /\ LET r == Head(ready).req
     IN  /\ r.client \in live
         /\ r.op \in {"send", "badsend", "load"}
         /\ ~HasReady(r.client)
         /\ FinishWith(Respond(r, "not_open"))
         /\ UNCHANGED <<live, issued, owed, replies>>

\* session_required_command and the execute() of api_send or load: the
\* command retains the session, then hands the sentence to api::send unless
\* the message does not parse.  Letting go of the session retained before may
\* destroy it.
RunCommand ==
  /\ Running("request")
  /\ LET r == Head(ready).req
         k == UserCall(table[r.client], r)
     IN  /\ r.client \in live
         /\ r.op \in {"send", "badsend", "load"}
         /\ HasReady(r.client)
         /\ held' = [held EXCEPT ![CommandOf(r.op)] = table[r.client]]
         /\ stage' = IF r.op = "badsend" THEN stage
                     ELSE [stage EXCEPT ![k] = "posted"]
         /\ UNCHANGED table
         /\ Finish(conn, outbox, <<>>,
                   IF r.op = "badsend" THEN Respond(r, "invalid_request")
                   ELSE <<[kind |-> "post", call |-> k]>>)
         /\ UNCHANGED <<live, issued, loggedIn, owed, replies, aborted>>

\* tcp_client::on_error: the disconnection hook closes the client's session,
\* and only then is the client's socket closed.
LoseClient ==
  /\ Running("lost")
  /\ LET c == Head(ready).client
     IN  /\ c \in live
         /\ live' = live \ {c}
         /\ table' = Erase(c)
         /\ UNCHANGED <<held, stage>>
         /\ Finish(conn, outbox, CloseNotice(c), <<>>)
         /\ UNCHANGED <<issued, loggedIn, owed, replies, aborted>>

\* The posted half of tcp_client::respond.
SendAnswer ==
  /\ Running("respond")
  /\ LET h == Head(ready)
     IN  /\ h.req.client \in live
         /\ replies' = [replies EXCEPT ![h.req] = Append(@, h.code)]
         /\ FinishWith(<<>>)
         /\ UNCHANGED <<live, issued, owed>>

\* Every completion handler of a client whose socket is closed returns.
IgnoreGoneClient ==
  /\ \/ Running("request") /\ Head(ready).req.client \notin live
     \/ Running("lost") /\ Head(ready).client \notin live
     \/ Running("respond") /\ Head(ready).req.client \notin live
  /\ FinishWith(<<>>)
  /\ UNCHANGED <<live, issued, owed, replies>>

-----------------------------------------------------------------------------
(* Handlers of the router side. *)

\* The callback of async_connect in sessions_service::create.  It looks for
\* an entry of its client, not for its own session.
Connected ==
  /\ Running("connected")
  /\ LET s  == Head(ready).sess
         ok == Head(ready).ok
         k  == LoginCall(s, "login1")
         sockets == [conn EXCEPT ![s] = IF ok THEN "open" ELSE "closed"]
     IN  /\ table' = IF ok THEN table ELSE Erase(s.client)
         /\ stage' = IF ok /\ Has(s.client)
                     THEN [stage EXCEPT ![k] = "posted"] ELSE stage
         /\ UNCHANGED held
         /\ Finish(sockets, outbox,
                   IF ok THEN <<>> ELSE CloseNotice(s.client),
                   IF ~Has(s.client) THEN <<>>
                   ELSE IF ok THEN <<[kind |-> "post", call |-> k]>>
                   ELSE Respond(s, "open_failed"))
         /\ UNCHANGED <<live, issued, loggedIn, owed, replies, aborted>>

\* What the callback of call k answers to an error: nothing for a load.
ErrorAnswer_SendOnly(k) ==
  IF k.req.op = "send" THEN Respond(k.req, "unknown_error") ELSE <<>>

ErrorAnswer(k) ==
  IF k.step # "user" THEN Respond(k.sess, "open_failed")
  ELSE IF k.req.op = "send" THEN Respond(k.req, "unknown_error")
  ELSE <<>>

\* The callback of call k is given an error and is destroyed.  The one of a
\* login first closes whatever session its client has by then.
FailCall(k, sockets, sends, aborts) ==
  /\ stage' = KeepCallback(k, FALSE)
  /\ table' = IF k.step = "user" THEN table ELSE Erase(k.sess.client)
  /\ UNCHANGED held
  /\ Finish(sockets, sends,
            IF k.step = "user" THEN <<>> ELSE CloseNotice(k.sess.client),
            ErrorAnswer(k) \o aborts)
  /\ UNCHANGED <<live, issued, loggedIn, owed, replies, aborted>>

\* The posted half of api::send, and api::send_next.
StartSend ==
  /\ Running("post")
  /\ LET k == Head(ready).call
     IN  /\ conn[k.sess] = "open"
         /\ stage' = [stage EXCEPT ![k] = "sending"]
         /\ outbox' = [outbox EXCEPT ![k.sess] = Append(@, k)]
         /\ ready' = Tail(ready)
         /\ UNCHANGED <<live, issued, table, conn, loggedIn, owed, held,
                        replies, aborted>>

\* The same, and the completion of the send, on a socket closed meanwhile.
SendOnClosed ==
  /\ Running("post") \/ Running("sent")
  /\ LET k == Head(ready).call
     IN  /\ conn[k.sess] # "open"
         /\ FailCall(k, conn, outbox, <<>>)

\* The completion of the send: the callback waits for its answer.
SendDone ==
  /\ Running("sent")
  /\ LET k == Head(ready).call
     IN  /\ conn[k.sess] = "open"
         /\ Head(ready).ok
         /\ stage' = [stage EXCEPT ![k] = "waiting"]
         /\ ready' = Tail(ready)
         /\ UNCHANGED <<live, issued, table, conn, loggedIn, outbox, owed,
                        held, replies, aborted>>

\* The send has failed: the callback first, then the socket is closed; the
\* session's handler is not told.
SendFailed ==
  /\ Running("sent")
  /\ LET k == Head(ready).call
         s == k.sess
     IN  /\ conn[s] = "open"
         /\ ~Head(ready).ok
         /\ FailCall(k, [conn EXCEPT ![s] = "closed"],
                        [outbox EXCEPT ![s] = <<>>], Abort(outbox[s]))

\* api::on_error: the socket first, then session::on_error has the client's
\* entry closed.
ApiError_ToldFirst(s) ==
  /\ table' = Erase(s.client)
  /\ UNCHANGED <<held, stage>>
  /\ Finish([conn EXCEPT ![s] = "closed"], [outbox EXCEPT ![s] = <<>>],
            CloseNotice(s.client) \o Abort(outbox[s]), <<>>)
  /\ UNCHANGED <<live, issued, loggedIn, owed, replies, aborted>>

ApiError_EntryKept(s) ==
  /\ UNCHANGED <<table, held, stage>>
  /\ Finish([conn EXCEPT ![s] = "closed"], [outbox EXCEPT ![s] = <<>>],
            Abort(outbox[s]), <<>>)
  /\ UNCHANGED <<live, issued, loggedIn, owed, replies, aborted>>

ApiError(s) ==
  LET c       == s.client
      sockets == [conn EXCEPT ![s] = "closed"]
      notice  == IF table[c] = s THEN <<>> ELSE CloseNotice(c)
  IN  /\ table' = Erase(c)
      /\ UNCHANGED <<held, stage>>
      /\ Finish(sockets, [outbox EXCEPT ![s] = <<>>],
                Abort(outbox[s]) \o notice, <<>>)
      /\ UNCHANGED <<live, issued, loggedIn, owed, replies, aborted>>

\* A failed read, end of file, or a sentence that is not a response, has no
\* tag, has the tag of no callback, or makes its callback throw: that one stays.
Broken ==
  /\ \/ Running("broken")
     \/ /\ Running("sentence")
        /\ \/ stage[Head(ready).call] # "waiting"
           \/ Head(ready).reply = "garbled"
  /\ conn[HandledSession] = "open"
  /\ ApiError(HandledSession)

\* A response for call k, which is in read_cbs_ of an open API.
Answers(k, reply) ==
  /\ Running("sentence")
  /\ Head(ready).call = k
  /\ Head(ready).reply = reply
  /\ conn[k.sess] = "open"
  /\ stage[k] = "waiting"

\* login(): the challenge has come, the second sentence is sent.
Challenge ==
  /\ Running("sentence")
  /\ LET k  == Head(ready).call
         k2 == LoginCall(k.sess, "login2")
     IN  /\ k.step = "login1"
         /\ Answers(k, "challenge")
         /\ stage' = [stage EXCEPT ![k] = "done", ![k2] = "posted"]
         /\ ready' = Append(Tail(ready), [kind |-> "post", call |-> k2])
         /\ UNCHANGED <<live, issued, table, conn, loggedIn, outbox, owed,
                        held, replies, aborted>>

\* login(): the router refuses either sentence, or its first answer is not a
\* challenge.
LoginRefused ==
  /\ Running("sentence")
  /\ LET k == Head(ready).call
     IN  /\ k.step # "user"
         /\ \/ Answers(k, "trap")
            \/ k.step = "login1" /\ Answers(k, "done")
         /\ FailCall(k, conn, outbox, <<>>)

\* login(): accepted.  The client is told if it has a session, this or not.
LoginAccepted ==
  /\ Running("sentence")
  /\ LET k == Head(ready).call
     IN  /\ k.step = "login2"
         /\ Answers(k, "done")
         /\ loggedIn' = loggedIn \cup {k.sess}
         /\ stage' = KeepCallback(k, FALSE)
         /\ UNCHANGED <<table, held>>
         /\ Finish(conn, outbox, <<>>, IF Has(k.sess.client)
                                       THEN Respond(k.sess, "success") ELSE <<>>)
         /\ UNCHANGED <<live, issued, owed, replies, aborted>>

\* response_sentence::empty: no parameters, whatever the type.
Empty_ByType(reply) == reply \in {"done", "ret"}

Empty(reply) == reply \in {"done", "blank"}

\* The callback of api_send: every response is passed on, and the callback is
\* kept until an empty one.
PassOn ==
  /\ Running("sentence")
  /\ LET k == Head(ready).call
     IN  /\ k.step = "user" /\ k.req.op = "send"
         /\ \E reply \in Response :
              /\ Answers(k, reply)
              /\ stage' = KeepCallback(k, ~Empty(reply))
              /\ ready' = Tail(ready) \o Respond(k.req, reply)
         /\ UNCHANGED <<live, issued, table, conn, loggedIn, outbox, owed,
                        held, replies, aborted>>

\* The callback of the load command.
LoadRow ==
  /\ Running("sentence")
  /\ LET k == Head(ready).call
     IN  /\ k.step = "user" /\ k.req.op = "load"
         /\ \E reply \in {"row", "blank", "done"} :
              /\ Answers(k, reply)
              /\ stage' = KeepCallback(k, ~Empty(reply))
              /\ ready' = Tail(ready) \o
                   Respond(k.req, IF Empty(reply) THEN "success" ELSE "data")
         /\ UNCHANGED <<live, issued, table, conn, loggedIn, outbox, owed,
                        held, replies, aborted>>

\* hotspot_user::create asserts that the row has a name: no other response
\* with parameters has one.
LoadTrap ==
  /\ Running("sentence")
  /\ LET k == Head(ready).call
     IN  /\ k.step = "user" /\ k.req.op = "load"
         /\ Answers(k, "trap") \/ Answers(k, "ret")
  /\ aborted' = TRUE
  /\ UNCHANGED <<ready, live, issued, table, conn, loggedIn, stage, outbox,
                 owed, held, replies>>

\* Reads of an API closed since they completed.
IgnoreClosedApi ==
  /\ \/ Running("broken") /\ conn[Head(ready).sess] # "open"
     \/ Running("sentence") /\ conn[Head(ready).call.sess] # "open"
  /\ FinishWith(<<>>)
  /\ UNCHANGED <<live, issued, owed, replies>>

RunHandler ==
  \/ AnswerAtOnce \/ RefuseOpen \/ CreateSession \/ RefuseCommand
  \/ RunCommand \/ LoseClient \/ SendAnswer \/ IgnoreGoneClient
  \/ Connected \/ StartSend \/ SendOnClosed \/ SendDone \/ SendFailed
  \/ Broken \/ Challenge \/ LoginRefused \/ LoginAccepted
  \/ PassOn \/ LoadRow \/ LoadTrap \/ IgnoreClosedApi

-----------------------------------------------------------------------------
(* The environment: clients, sockets and the router. *)

Queued(h) == \E i \in DOMAIN ready : ready[i] = h

Complete(h) == Len(ready) < MaxReady /\ ready' = Append(ready, h)

\* One read of a client is under way at a time, so one request is queued at
\* most.
ClientRequest(c) ==
  /\ c \in live
  /\ issued[c] < MaxReqs
  /\ \A i \in DOMAIN ready : ready[i].kind = "request" => ready[i].req.client # c
  /\ \E op \in Ops :
       Complete([kind |-> "request",
                 req |-> [client |-> c, op |-> op, n |-> issued[c] + 1]])
  /\ issued' = [issued EXCEPT ![c] = @ + 1]
  /\ UNCHANGED <<live, table, conn, loggedIn, stage, outbox, owed, held,
                 replies, aborted>>

\* A read or a send of the client fails.
ClientLost(c) ==
  /\ c \in live
  /\ ~Queued([kind |-> "lost", client |-> c])
  /\ Complete([kind |-> "lost", client |-> c])
  /\ UNCHANGED <<live, issued, table, conn, loggedIn, stage, outbox, owed,
                 held, replies, aborted>>

ConnectCompletes(s) ==
  /\ conn[s] = "connecting"
  /\ \A ok \in BOOLEAN : ~Queued([kind |-> "connected", sess |-> s, ok |-> ok])
  /\ \E ok \in BOOLEAN : Complete([kind |-> "connected", sess |-> s, ok |-> ok])
  /\ UNCHANGED <<live, issued, table, conn, loggedIn, stage, outbox, owed,
                 held, replies, aborted>>

\* The oldest send of the API completes; if it succeeds the router has it.
Transmit(s) ==
  /\ conn[s] = "open"
  /\ outbox[s] # <<>>
  /\ LET k == Head(outbox[s])
     IN  \E ok \in BOOLEAN :
           /\ Complete([kind |-> "sent", call |-> k, ok |-> ok])
           /\ owed' = IF ok THEN [owed EXCEPT ![k] = MaxRows + 1] ELSE owed
  /\ outbox' = [outbox EXCEPT ![s] = Tail(@)]
  /\ UNCHANGED <<live, issued, table, conn, loggedIn, stage, held, replies,
                 aborted>>

\* One read of an API is under way at a time.
Reading(s) ==
  /\ conn[s] = "open"
  /\ ~Queued([kind |-> "broken", sess |-> s])
  /\ \A i \in DOMAIN ready : ready[i].kind = "sentence" => ready[i].call.sess # s

\* The router answers a sentence it has, in any order among them: !re rows to
\* a command, a !trap, and one !done in the end, which carries the challenge
\* if it answers the first login sentence.  What it adds to the answer of a
\* login otherwise makes no difference there.
RouterAnswers(k) ==
  /\ Reading(k.sess)
  /\ owed[k] > 0
  /\ \E reply \in Reply :
       /\ reply \in {"challenge", "garbled"} => k.step = "login1"
       /\ reply \in {"row", "blank", "ret"} => k.step = "user"
       /\ LET last == reply \notin {"row", "blank", "trap"}
          IN  /\ ~last => owed[k] > 1
              /\ owed' = [owed EXCEPT ![k] = IF last THEN 0 ELSE @ - 1]
       /\ Complete([kind |-> "sentence", call |-> k, reply |-> reply])
  /\ UNCHANGED <<live, issued, table, conn, loggedIn, stage, outbox, held,
                 replies, aborted>>

RouterBreaks(s) ==
  /\ Reading(s)
  /\ Complete([kind |-> "broken", sess |-> s])
  /\ UNCHANGED <<live, issued, table, conn, loggedIn, stage, outbox, owed,
                 held, replies, aborted>>

Environment ==
  \/ \E c \in Clients : ClientRequest(c) \/ ClientLost(c)
  \/ \E s \in Session : ConnectCompletes(s) \/ Transmit(s) \/ RouterBreaks(s)
  \/ \E k \in Call : RouterAnswers(k)

Next == ~aborted /\ UNCHANGED addressParses /\ (RunHandler \/ Environment)

Spec == Init /\ [][Next]_vars

\* The io_context runs what is ready, a connect ends in a success, a refusal
\* or the system's timeout, and a send in progress is taken by the socket or
\* fails.  Nothing makes a client send or a router answer.
FairSpec ==
  /\ Spec
  /\ WF_vars(Next /\ RunHandler)
  /\ \A s \in Session : WF_vars(Next /\ ConnectCompletes(s))
  /\ \A s \in Session : WF_vars(Next /\ Transmit(s))

-----------------------------------------------------------------------------
(* Properties. *)

\* The places of the answers to r that are posted and not sent yet.
Posted(r) == {i \in DOMAIN ready : ready[i].kind = "respond" /\ ready[i].req = r}

Sent(r) == {replies[r][i] : i \in DOMAIN replies[r]}

\* What r has been answered, or will be.
Codes(r) == Sent(r) \cup {ready[i].code : i \in Posted(r)}

\* r is answered x, and y after that.
InTurn(r, x, y) ==
  \/ \E i, j \in DOMAIN replies[r] : i < j /\ x = replies[r][i] /\ y = replies[r][j]
  \/ x \in Sent(r) /\ \E j \in Posted(r) : y = ready[j].code
  \/ \E i, j \in Posted(r) : i < j /\ x = ready[i].code /\ y = ready[j].code

\* Every api_open is answered at most once, and the only thing that follows
\* is one ros_session_closed after a success: the callbacks of a connection,
\* a login and a closing session, whatever their order, never answer twice.
OpenAnsweredOnce ==
  \A r \in Session : \A x, y \in Codes(r) :
    InTurn(r, x, y) => x = "success" /\ y = "session_closed"

\* The disconnection hook leaves no session behind and none is made for a
\* client after it: no request of a closed connection is served any more.
GoneClientHasNoSession == \A c \in Clients \ live : ~Has(c)

\* The connections that stay logged in when their clients have gone are no more
\* than there are commands: each is retained by a command that served the client
\* last, and nothing else keeps it, no callback of its login either.
OutlivesItsClient ==
  \A s \in loggedIn :
    s.client \notin live /\ conn[s] = "open" => \E m \in Command : held[m] = s

\* An entry with a dead API connection was logged in before: every failure
\* up to the login erases the entry, whichever callback reports it.
WedgedOnlyAfterLogin ==
  \A c \in Clients :
    Has(c) /\ conn[table[c]] \in {"none", "closed"} => table[c] \in loggedIn

\* The asserts of sessions_service::create (sessions.cpp): a session is not
\* ready when its connection completes nor when its login fails.
LoginAssertions ==
  \A s \in Session :
    \/ conn[s] \in {"none", "connecting"}
    \/ \E step \in {"login1", "login2"} : Pending(LoginCall(s, step))
    => s \notin loggedIn

\* A reply to a sentence the router was sent finds its callback: the completion
\* of the send is run, and read_cbs_ filled, before the reply.  The exception
\* is a row without parameters, which has ended the command too early: api_send
\* has passed it on and load has reported success.
ReplyFindsCallback ==
  Running("sentence") /\ conn[Head(ready).call.sess] = "open" =>
    LET k == Head(ready).call
    IN  \/ stage[k] = "waiting"
        \/ /\ stage[k] = "done"
           /\ k.req.client \in live =>
                (IF k.req.op = "load" THEN "success" ELSE "blank") \in Codes(k.req)

\* What an api_send is answered ends with the first response without
\* parameters or with an error, and an error comes alone.
SendAnswersEnd ==
  \A r \in Request : r.op = "send" =>
    \A x, y \in Codes(r) : InTurn(r, x, y) =>
      /\ x \notin {"done", "blank", "unknown_error", "not_open"}
      /\ y \notin {"unknown_error", "not_open"}

\* A callback of a client that is still there waits in vain, on a connection
\* that is open, only after a !done with parameters: api_send takes it for a
\* row, and its callback stays in read_cbs_.
OnlyRetStrands ==
  \A k \in Call :
    /\ stage[k] = "waiting" /\ owed[k] = 0
    /\ conn[k.sess] = "open" /\ k.sess.client \in live
    /\ \A i \in DOMAIN ready : ready[i].kind = "sentence" => ready[i].call # k
    => "ret" \in Codes(k.req)

\* A callback is in one place: a posted handler, a send operation or its
\* completion handler.
CallbackHandlers(k) ==
  Cardinality({i \in DOMAIN ready :
                 ready[i].kind \in {"post", "sent"} /\ ready[i].call = k})
  + Cardinality({i \in DOMAIN outbox[k.sess] : outbox[k.sess][i] = k})

CallbackInOnePlace ==
  \A k \in Call :
    CallbackHandlers(k) = IF stage[k] \in {"posted", "sending"} THEN 1 ELSE 0

Concerns(c) ==
  \/ Running("request") /\ Head(ready).req.client = c
  \/ Running("respond") /\ Head(ready).req.client = c
  \/ Running("lost") /\ Head(ready).client = c
  \/ HandledSession \in Session /\ HandledSession.client = c

\* No handler of one client or of its API connections touches the session of
\* another: a command that stops retaining a session destroys it only if its
\* client has lost it before.
ClientsAreIsolated ==
  [][\A c \in Clients :
       ~Concerns(c) =>
         /\ table'[c] = table[c]
         /\ Has(c) => /\ conn'[table[c]] = conn[table[c]]
                      /\ table[c] \in loggedIn <=> table[c] \in loggedIn']_vars

\* api_open's close callback, which is to tell the client that its session is
\* closed, tells it only when another connection of the same client fails:
\* never when the router closes the session's own, which is closed by then,
\* nor through a client's own departure, which the answer comes too late for.
\* It takes two earlier sessions of that client whose callbacks came late.
ClosedNoticeNeedsTwoStaleOpens ==
  \A r \in Session :
    "session_closed" \in Sent(r) => r.n > 2

\* A failing read of an API posts no answer to the client that owns the session.
\* What its closing aborts, the sends in progress, answers in steps of its own;
\* the requests that wait for the router are never answered.
RouterLossIsSilent ==
  [][LET s == Head(ready).sess
     IN  Running("broken") /\ table[s.client] = s
           => \A i \in DOMAIN ready' :
                /\ ready'[i].kind = "respond"
                /\ ready'[i].req.client = s.client
                => \E j \in DOMAIN ready : ready[j] = ready'[i]]_vars

EntryState(c) ==
  IF ~Has(c) THEN "absent"
  ELSE IF conn[table[c]] = "closed" THEN "wedged"
  ELSE IF IsReady(table[c]) THEN "ready" ELSE "opening"

Table == INSTANCE SessionTable
           WITH entry <- [c \in Clients |-> EntryState(c)], gone <- Clients \ live

\* sessions_service keeps the promise of SessionTable.
ImplementsTable == Table!Spec

LoginWaits(s) ==
  \E step \in {"login1", "login2"} : stage[LoginCall(s, step)] = "waiting"

\* A session whose connection ends while its login waits for the router is kept
\* for good: the waiting callback holds the session, which holds the api, which
\* holds the callback.  Nothing else knows it, and its client has no answer.
LeakIsSilent ==
  \A s \in Session :
    conn[s] = "closed" /\ LoginWaits(s) =>
      /\ table[s.client] # s
      /\ \A m \in Command : held[m] # s
      /\ Codes(s) = {}

\* An open in progress is answered without the router's help unless it waits
\* for the router's answer to a login sentence, or an earlier open of the same
\* client has failed since and has taken the entry with it.
OpenSettles ==
  \A s \in Session :
    conn[s] = "connecting" ~>
      \/ replies[s] # <<>>
      \/ s.client \notin live
      \/ LoginWaits(s)
      \/ \E r \in Session : /\ r.client = s.client /\ r.n < s.n
                            /\ replies[r] = <<"open_failed">>
      \/ aborted

\* The callback of a command's sentence is called with an error or waits for
\* the router: none is forgotten in a send queue.
SendSettles ==
  \A k \in Call :
    stage[k] \in {"posted", "sending"} ~> stage[k] \in {"waiting", "done"} \/ aborted

\* hotspot_user::create: the row that is loaded has a name.
LoadedRowHasName == ~aborted

=============================================================================
