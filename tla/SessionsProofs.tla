--------------------------- MODULE SessionsProofs ---------------------------
(***************************************************************************)
(* Proofs about Sessions, for any number of clients, requests and replies.  *)
(*                                                                          *)
(* The first invariant, IInv, types the variables and says what the table   *)
(* may hold: no entry of a client that has gone, and a dead connection only *)
(* if its session was logged in.  For the latter it has to know that the    *)
(* send that fails on a session which stays in the table belongs to a       *)
(* command, and that a command sends only on a session that is logged in:   *)
(* it types `ready' and `outbox' with the calls allowed so far.             *)
(*                                                                          *)
(* The second, PInv, says where each callback is: what a handler in the     *)
(* queue or an operation of a socket tells of the stage of its call, that   *)
(* no two of them are for the same one, that none is lost on its way to the *)
(* router, and how far a login has come.  Most handlers end in Finish,      *)
(* which may destroy a session and cut its send operations off; FinishKeeps *)
(* says what such a handler has to see to, and each of them is shown to.    *)
(* From both follow the asserts of sessions_service::create, that every     *)
(* callback is in one place, that clients are isolated, and that the table  *)
(* keeps the promise of SessionTable.                                       *)
(***************************************************************************)
EXTENDS Sessions, TLAPS, FiniteSetTheorems

\* The calls that may be on their way to the router.
AllowedCall == {k \in Call : k.step = "user" => k.sess \in loggedIn}

AllowedHandler ==
  {h \in Handler : h.kind \in {"post", "sent"} => h.call \in AllowedCall}

\* The entry of a client is a session that this client has opened.
OwnEntry == \A c \in Clients : Has(c) => table[c].client = c

IInv ==
  /\ StateOK
  /\ ready \in Seq(AllowedHandler)
  /\ outbox \in [Session -> Seq(AllowedCall)]
  /\ OwnEntry
  /\ GoneClientHasNoSession
  /\ WedgedOnlyAfterLogin

-----------------------------------------------------------------------------
(* Lemmas about the data. *)

LEMMA HandlerFields ==
  ASSUME NEW h \in Handler
  PROVE  /\ h.kind = "request" => h.req \in Request
         /\ h.kind = "lost" => h.client \in Clients
         /\ h.kind = "respond" => h.req \in Request /\ h.code \in Code
         /\ h.kind = "connected" => h.sess \in Session /\ h.ok \in BOOLEAN
         /\ h.kind = "post" => h.call \in Call
         /\ h.kind = "sent" => h.call \in Call /\ h.ok \in BOOLEAN
         /\ h.kind = "sentence" => h.call \in Call /\ h.reply \in Reply
         /\ h.kind = "broken" => h.sess \in Session
  BY DEF Handler

LEMMA CallFields ==
  ASSUME NEW k \in Call
  PROVE  /\ k.sess \in Session
         /\ k.req \in Request
         /\ k.step # "user" => k.req = k.sess
         /\ k.step = "user" => k.req.client = k.sess.client
  BY DEF Call

LEMMA SessionIsRequest ==
  ASSUME NEW s \in Session
  PROVE  /\ s \in Request
         /\ s.client \in Clients
         /\ LoginCall(s, "login1") \in Call
         /\ LoginCall(s, "login2") \in Call
  BY DEF Session, Request, LoginCall, Call

LEMMA AbortType ==
  ASSUME NEW calls \in Seq(AllowedCall)
  PROVE  Abort(calls) \in Seq(AllowedHandler)
<1>1. \A i \in 1..Len(calls) : calls[i] \in AllowedCall /\ calls[i] \in Call
  BY DEF AllowedCall
<1>2. \A i \in 1..Len(calls) :
        [kind |-> "sent", call |-> calls[i], ok |-> FALSE] \in AllowedHandler
  BY <1>1 DEF AllowedHandler, Handler
<1>. QED  BY <1>2 DEF Abort

LEMMA RespondType ==
  ASSUME NEW r \in Request, NEW code \in Code
  PROVE  Respond(r, code) \in Seq(AllowedHandler)
<1>1. [kind |-> "respond", req |-> r, code |-> code] \in AllowedHandler
  BY DEF AllowedHandler, Handler
<1>. QED  BY <1>1 DEF Respond

LEMMA PostType ==
  ASSUME NEW k \in AllowedCall
  PROVE  /\ [kind |-> "post", call |-> k] \in AllowedHandler
         /\ <<[kind |-> "post", call |-> k]>> \in Seq(AllowedHandler)
<1>1. [kind |-> "post", call |-> k] \in AllowedHandler
  BY DEF AllowedHandler, AllowedCall, Handler
<1>. QED  BY <1>1

LEMMA CloseNoticeType ==
  ASSUME IInv, NEW c \in Clients
  PROVE  CloseNotice(c) \in Seq(AllowedHandler)
<1>1. CASE HasReady(c)
  <2>1. table[c] \in Request
    BY <1>1, SessionIsRequest DEF HasReady, Has, IInv, StateOK
  <2>2. "session_closed" \in Code
    BY DEF Code
  <2>. QED  BY <1>1, <2>1, <2>2, RespondType DEF CloseNotice
<1>2. CASE ~HasReady(c)
  BY <1>2 DEF CloseNotice
<1>. QED  BY <1>1, <1>2

LEMMA ErrorAnswerType ==
  ASSUME NEW k \in Call
  PROVE  ErrorAnswer(k) \in Seq(AllowedHandler)
<1>1. "open_failed" \in Code /\ "unknown_error" \in Code
  BY DEF Code
<1>2. k.sess \in Request /\ k.req \in Request
  BY CallFields, SessionIsRequest
<1>. QED  BY <1>1, <1>2, RespondType DEF ErrorAnswer

-----------------------------------------------------------------------------
(* What the end of a handler does. *)

\* The handler at the head, and the rest of the queue, are allowed.
LEMMA HeadAndTail ==
  ASSUME IInv, ready # <<>>
  PROVE  /\ Head(ready) \in AllowedHandler
         /\ Head(ready) \in Handler
         /\ Tail(ready) \in Seq(AllowedHandler)
  BY DEF IInv, AllowedHandler

\* More calls are allowed as more sessions are logged in.
LEMMA AllowedGrows ==
  ASSUME loggedIn \subseteq loggedIn'
  PROVE  /\ AllowedHandler \subseteq AllowedHandler'
         /\ AllowedCall \subseteq AllowedCall'
         /\ \A q \in Seq(AllowedHandler) : q \in Seq(AllowedHandler')
         /\ \A q \in Seq(AllowedCall) : q \in Seq(AllowedCall')
<1>1. AllowedCall \subseteq AllowedCall'
  BY DEF AllowedCall
<1>2. AllowedHandler \subseteq AllowedHandler'
  BY <1>1 DEF AllowedHandler
<1>. QED  BY <1>1, <1>2

LEMMA FinishType ==
  ASSUME IInv, loggedIn \subseteq loggedIn', ready # <<>>,
         NEW sockets \in [Session -> ConnState],
         NEW sends \in [Session -> Seq(AllowedCall)],
         NEW before \in Seq(AllowedHandler),
         NEW after \in Seq(AllowedHandler),
         Finish(sockets, sends, before, after)
  PROVE  /\ ready' \in Seq(AllowedHandler')
         /\ outbox' \in [Session -> Seq(AllowedCall')]
         /\ conn' \in [Session -> ConnState]
         /\ \A s \in Session :
              \/ conn'[s] = sockets[s]
              \/ /\ conn'[s] = "closed" /\ sockets[s] = "open"
                 /\ table'[s.client] # s
<1>. DEFINE dying == {s \in Session : sockets[s] = "open" /\ ~Referenced(s)'}
            busy  == {s \in dying : sends[s] # <<>>}
            some  == CHOOSE s \in busy : TRUE
            aborts == IF busy = {} THEN <<>> ELSE Abort(sends[some])
<1>1. aborts \in Seq(AllowedHandler)
  <2>1. CASE busy = {}
    BY <2>1
  <2>2. CASE busy # {}
    <3>1. some \in busy
      BY <2>2
    <3>2. sends[some] \in Seq(AllowedCall)
      BY <3>1
    <3>3. Abort(sends[some]) \in Seq(AllowedHandler)
      BY <3>2, AbortType
    <3>. QED  BY <3>3, <2>2
  <2>. QED  BY <2>1, <2>2
<1>2. /\ conn' = [s \in Session |-> IF s \in dying THEN "closed" ELSE sockets[s]]
      /\ outbox' = [s \in Session |-> IF s \in dying THEN <<>> ELSE sends[s]]
      /\ ready' = Tail(ready) \o before \o aborts \o after
  BY DEF Finish
<1>3. ready' \in Seq(AllowedHandler)
  <2>. HIDE DEF aborts
  <2>1. Tail(ready) \in Seq(AllowedHandler)
    BY HeadAndTail
  <2>. QED  BY <1>1, <1>2, <2>1
<1>4. outbox' \in [Session -> Seq(AllowedCall)]
  <2>. HIDE DEF dying
  <2>. QED  BY <1>2
<1>5. conn' \in [Session -> ConnState]
  <2>. HIDE DEF dying
  <2>. QED  BY <1>2 DEF ConnState
<1>6. ASSUME NEW s \in Session
      PROVE  \/ conn'[s] = sockets[s]
             \/ /\ conn'[s] = "closed" /\ sockets[s] = "open"
                /\ table'[s.client] # s
  <2>1. s \in dying => sockets[s] = "open" /\ table'[s.client] # s
    BY DEF Referenced
  <2>. HIDE DEF dying
  <2>. QED  BY <1>2, <2>1
<1>7. ready' \in Seq(AllowedHandler') /\ outbox' \in [Session -> Seq(AllowedCall')]
  BY <1>3, <1>4, AllowedGrows
<1>. QED  BY <1>5, <1>6, <1>7

-----------------------------------------------------------------------------
(* The invariant, by how a step ends. *)

\* What the invariant says of each variable.
LEMMA InvFacts ==
  ASSUME IInv
  PROVE  /\ issued \in [Clients -> 0..MaxReqs]
         /\ table \in [Clients -> Session \cup {NoSession}]
         /\ conn \in [Session -> ConnState]
         /\ loggedIn \subseteq Session
         /\ stage \in [Call -> Stage]
         /\ outbox \in [Session -> Seq(AllowedCall)]
         /\ owed \in [Call -> 0..(MaxRows + 1)]
         /\ held \in [Command -> Session \cup {NoSession}]
         /\ replies \in [Request -> Seq(Code)]
         /\ aborted \in BOOLEAN
         /\ \A c \in Clients :
              table[c] # NoSession /\ conn[table[c]] \in {"none", "closed"}
                => table[c] \in loggedIn
  BY DEF IInv, StateOK, WedgedOnlyAfterLogin, Has

\* The invariant types the queue and the send operations as StateOK does.
LEMMA AllowedIsTyped ==
  /\ Seq(AllowedHandler) \subseteq Seq(Handler)
  /\ [Session -> Seq(AllowedCall)] \subseteq [Session -> Seq(Call)]
<1>1. AllowedHandler \subseteq Handler /\ AllowedCall \subseteq Call
  BY DEF AllowedHandler, AllowedCall
<1>. QED  BY <1>1

\* A handler or an environment step that leaves the sessions as they are.
LEMMA QuietStep ==
  ASSUME IInv,
         ready' \in Seq(AllowedHandler),
         live' \subseteq live,
         issued' \in [Clients -> 0..MaxReqs],
         stage' \in [Call -> Stage],
         outbox' \in [Session -> Seq(AllowedCall)],
         owed' \in [Call -> 0..(MaxRows + 1)],
         replies' \in [Request -> Seq(Code)],
         aborted' \in BOOLEAN,
         live' = live,
         UNCHANGED <<table, conn, loggedIn, held>>
  PROVE  IInv'
<1>1. AllowedHandler' = AllowedHandler /\ AllowedCall' = AllowedCall
  BY DEF AllowedHandler, AllowedCall
<1>2. StateOK'
  BY AllowedIsTyped DEF IInv, StateOK
<1>3. OwnEntry' /\ GoneClientHasNoSession' /\ WedgedOnlyAfterLogin'
  BY DEF IInv, OwnEntry, GoneClientHasNoSession, WedgedOnlyAfterLogin, Has
<1>. QED  BY <1>1, <1>2, <1>3 DEF IInv

LEMMA FinishWithStep ==
  ASSUME IInv, ready # <<>>,
         NEW posts \in Seq(AllowedHandler),
         FinishWith(posts),
         replies' \in [Request -> Seq(Code)],
         UNCHANGED <<live, issued, owed>>
  PROVE  IInv'
<1>1. Tail(ready) \o posts \in Seq(AllowedHandler)
  BY HeadAndTail
<1>. QED
  BY <1>1, QuietStep DEF FinishWith, IInv, StateOK

\* A handler that may destroy sessions.
LEMMA FinishStep ==
  ASSUME IInv, ready # <<>>,
         NEW sockets \in [Session -> ConnState],
         NEW sends \in [Session -> Seq(AllowedCall)],
         NEW before \in Seq(AllowedHandler),
         NEW after \in Seq(AllowedHandler),
         Finish(sockets, sends, before, after),
         live' \subseteq live,
         table' \in [Clients -> Session \cup {NoSession}],
         loggedIn \subseteq loggedIn', loggedIn' \subseteq Session,
         stage' \in [Call -> Stage],
         held' \in [Command -> Session \cup {NoSession}],
         UNCHANGED <<issued, owed, replies, aborted>>,
         OwnEntry', GoneClientHasNoSession',
         \A c \in Clients : table'[c] # NoSession /\ sockets[table'[c]] \in {"none", "closed"}
                              => table'[c] \in loggedIn'
  PROVE  IInv'
<1>1. /\ ready' \in Seq(AllowedHandler')
      /\ outbox' \in [Session -> Seq(AllowedCall')]
      /\ conn' \in [Session -> ConnState]
      /\ \A s \in Session :
              \/ conn'[s] = sockets[s]
              \/ /\ conn'[s] = "closed" /\ sockets[s] = "open"
                 /\ table'[s.client] # s
  BY FinishType
<1>2. ready' \in Seq(Handler)
  <2>1. AllowedHandler' \subseteq Handler
    BY DEF AllowedHandler, Handler
  <2>. QED  BY <1>1, <2>1
<1>3. outbox' \in [Session -> Seq(Call)]
  <2>1. AllowedCall' \subseteq Call
    BY DEF AllowedCall
  <2>. QED  BY <1>1, <2>1
<1>4. StateOK'
  BY <1>1, <1>2, <1>3 DEF IInv, StateOK
<1>5. WedgedOnlyAfterLogin'
  <2>1. SUFFICES ASSUME NEW c \in Clients, table'[c] # NoSession,
                        conn'[table'[c]] \in {"none", "closed"}
                 PROVE  table'[c] \in loggedIn'
    BY DEF WedgedOnlyAfterLogin, Has
  <2>2. table'[c] \in Session /\ table'[c].client = c
    BY <2>1 DEF OwnEntry, Has
  <2>3. conn'[table'[c]] = sockets[table'[c]]
    BY <1>1, <2>2
  <2>. QED  BY <2>1, <2>3
<1>. QED  BY <1>1, <1>4, <1>5 DEF IInv

\* Erasing the entry of a client keeps what the invariant says of the others.
LEMMA EraseKeeps ==
  ASSUME IInv, NEW c \in Clients, table' = Erase(c), live' \in {live, live \ {c}}
  PROVE  /\ table' \in [Clients -> Session \cup {NoSession}]
         /\ OwnEntry' /\ GoneClientHasNoSession'
         /\ table'[c] = NoSession
         /\ \A d \in Clients : d # c => table'[d] = table[d]
  BY DEF IInv, StateOK, Erase, OwnEntry, GoneClientHasNoSession, Has

LEMMA KeepCallbackType ==
  ASSUME IInv, NEW k \in Call, NEW keep \in BOOLEAN
  PROVE  KeepCallback(k, keep) \in [Call -> Stage]
<1>1. "done" \in Stage
  BY DEF Stage
<1>. QED  BY <1>1 DEF IInv, StateOK, KeepCallback

\* The callback of an allowed call is given an error: the socket it was sent
\* on is left as it is or closed.
LEMMA FailCallStep ==
  ASSUME IInv, ready # <<>>, NEW k \in AllowedCall,
         NEW sockets \in [Session -> ConnState],
         \A s \in Session : s # k.sess => sockets[s] = conn[s],
         NEW sends \in [Session -> Seq(AllowedCall)],
         NEW aborts \in Seq(AllowedHandler),
         FailCall(k, sockets, sends, aborts)
  PROVE  IInv'
<1>0. k \in Call /\ k.sess \in Session /\ k.sess.client \in Clients
  BY CallFields, SessionIsRequest DEF AllowedCall
<1>1. stage' \in [Call -> Stage]
  BY <1>0, KeepCallbackType DEF FailCall
<1>2. CloseNotice(k.sess.client) \in Seq(AllowedHandler)
  BY <1>0, CloseNoticeType
<1>3. ErrorAnswer(k) \o aborts \in Seq(AllowedHandler)
  BY <1>0, ErrorAnswerType
<1>. DEFINE notice == IF k.step = "user" THEN <<>> ELSE CloseNotice(k.sess.client)
<1>4. notice \in Seq(AllowedHandler)
  BY <1>2
<1>5. Finish(sockets, sends, notice, ErrorAnswer(k) \o aborts)
  BY DEF FailCall
<1>6. /\ table' \in [Clients -> Session \cup {NoSession}]
      /\ OwnEntry' /\ GoneClientHasNoSession'
      /\ \A d \in Clients : d # k.sess.client \/ k.step = "user" => table'[d] = table[d]
      /\ k.step # "user" => table'[k.sess.client] = NoSession
  <2>1. CASE k.step = "user"
    BY <2>1 DEF FailCall, IInv, StateOK, OwnEntry, GoneClientHasNoSession, Has
  <2>2. CASE k.step # "user"
    BY <1>0, <2>2, EraseKeeps DEF FailCall
  <2>. QED  BY <2>1, <2>2
<1>7. \A c \in Clients : table'[c] # NoSession /\ sockets[table'[c]] \in {"none", "closed"}
                           => table'[c] \in loggedIn'
  <2>1. SUFFICES ASSUME NEW c \in Clients, table'[c] # NoSession,
                        sockets[table'[c]] \in {"none", "closed"}
                 PROVE  table'[c] \in loggedIn
    BY DEF FailCall
  <2>2. table'[c] = table[c] /\ table[c] \in Session /\ table[c].client = c
    BY <1>6, <2>1 DEF IInv, StateOK, OwnEntry, Has
  <2>3. CASE table[c] = k.sess
    BY <1>0, <1>6, <2>1, <2>2, <2>3 DEF AllowedCall
  <2>4. CASE table[c] # k.sess
    BY <2>1, <2>2, <2>4 DEF IInv, WedgedOnlyAfterLogin, Has
  <2>. QED  BY <2>3, <2>4
<1>8. live' = live /\ loggedIn' = loggedIn /\ held' = held
      /\ UNCHANGED <<issued, owed, replies, aborted>>
  BY DEF FailCall
<1>. HIDE DEF notice
<1>. QED
  BY <1>1, <1>3, <1>4, <1>5, <1>6, <1>7, <1>8, InvFacts, FinishStep

-----------------------------------------------------------------------------
(* The invariant holds at first and is kept by each handler. *)

LEMMA InitInv == Init => IInv
<1>. SUFFICES ASSUME Init  PROVE IInv
  OBVIOUS
<1>1. StateOK
  <2>1. ready \in Seq(Handler) /\ live \subseteq Clients /\ loggedIn \subseteq Session
    BY DEF Init
  <2>2. issued \in [Clients -> 0..MaxReqs] /\ owed \in [Call -> 0..(MaxRows + 1)]
    BY SessionsAssumption DEF Init
  <2>3. /\ table \in [Clients -> Session \cup {NoSession}]
        /\ held \in [Command -> Session \cup {NoSession}]
        /\ conn \in [Session -> ConnState]
        /\ stage \in [Call -> Stage]
    BY DEF Init, ConnState, Stage
  <2>4. outbox \in [Session -> Seq(Call)] /\ replies \in [Request -> Seq(Code)]
    BY DEF Init
  <2>. QED  BY <2>1, <2>2, <2>3, <2>4 DEF Init, StateOK
<1>2. ready \in Seq(AllowedHandler) /\ outbox \in [Session -> Seq(AllowedCall)]
  BY DEF Init
<1>3. OwnEntry /\ GoneClientHasNoSession /\ WedgedOnlyAfterLogin
  BY DEF Init, OwnEntry, GoneClientHasNoSession, WedgedOnlyAfterLogin, Has
<1>. QED  BY <1>1, <1>2, <1>3 DEF IInv

LEMMA RunningFields ==
  ASSUME IInv
  PROVE  /\ Running("request") => ready # <<>> /\ Head(ready).req \in Request
         /\ Running("lost") => ready # <<>> /\ Head(ready).client \in Clients
         /\ Running("respond") => /\ ready # <<>>
                                  /\ Head(ready).req \in Request
                                  /\ Head(ready).code \in Code
         /\ Running("connected") => /\ ready # <<>>
                                    /\ Head(ready).sess \in Session
                                    /\ Head(ready).ok \in BOOLEAN
         /\ Running("post") \/ Running("sent") =>
              ready # <<>> /\ Head(ready).call \in AllowedCall
         /\ Running("sentence") => ready # <<>> /\ Head(ready).call \in Call
         /\ Running("broken") => ready # <<>> /\ Head(ready).sess \in Session
<1>1. CASE ready = <<>>
  BY <1>1 DEF Running
<1>2. CASE ready # <<>>
  BY <1>2, HeadAndTail, HandlerFields DEF Running, AllowedHandler
<1>. QED  BY <1>1, <1>2

LEMMA AnswerInv ==
  ASSUME IInv, AnswerAtOnce \/ RefuseOpen \/ RefuseCommand
  PROVE  IInv'
<1>. DEFINE r == Head(ready).req
<1>1. ready # <<>> /\ r \in Request
  BY RunningFields DEF AnswerAtOnce, RefuseOpen, RefuseCommand
<1>2. {"data", "unknown_command", "already_open", "pending", "not_open"} \subseteq Code
  BY DEF Code
<1>3. replies \in [Request -> Seq(Code)]
  BY DEF IInv, StateOK
<1>4. CASE AnswerAtOnce
  <2>1. ImmediateCode[r.op] \in Code
    BY <1>2, <1>4 DEF AnswerAtOnce, ImmediateCode
  <2>2. Respond(r, ImmediateCode[r.op]) \in Seq(AllowedHandler)
    BY <1>1, <2>1, RespondType
  <2>. QED  BY <1>1, <1>3, <1>4, <2>2, FinishWithStep DEF AnswerAtOnce
<1>5. CASE RefuseOpen
  <2>. DEFINE code == IF HasReady(r.client) THEN "already_open" ELSE "pending"
  <2>1. code \in Code
    BY <1>2
  <2>2. Respond(r, code) \in Seq(AllowedHandler)
    BY <1>1, <2>1, RespondType
  <2>. QED  BY <1>1, <1>3, <1>5, <2>2, FinishWithStep DEF RefuseOpen
<1>6. CASE RefuseCommand
  <2>1. Respond(r, "not_open") \in Seq(AllowedHandler)
    BY <1>1, <1>2, RespondType
  <2>. QED  BY <1>1, <1>3, <1>6, <2>1, FinishWithStep DEF RefuseCommand
<1>. QED  BY <1>4, <1>5, <1>6

LEMMA CreateSessionInv ==
  ASSUME IInv, CreateSession
  PROVE  IInv'
<1>. DEFINE r == Head(ready).req
<1>1. /\ ready # <<>> /\ r \in Session /\ r.client \in live /\ r.client \in Clients
      /\ UNCHANGED <<live, issued, owed, replies>>
      /\ OpenApi(r)
  BY RunningFields, SessionIsRequest DEF CreateSession, Session
<1>2. CASE ~addressParses
  <2>1. Respond(r, "open_failed") \in Seq(AllowedHandler)
    BY <1>1, SessionIsRequest, RespondType DEF Code
  <2>. QED
    BY <1>1, <1>2, <2>1, FinishWithStep DEF OpenApi, IInv, StateOK
<1>3. CASE addressParses
  <2>1. /\ table' = [table EXCEPT ![r.client] = r]
        /\ conn' = [conn EXCEPT ![r] = "connecting"]
        /\ ready' = Tail(ready)
        /\ UNCHANGED <<loggedIn, stage, outbox, held, aborted>>
    BY <1>1, <1>3 DEF OpenApi
  <2>2. AllowedHandler' = AllowedHandler /\ AllowedCall' = AllowedCall
    BY <2>1 DEF AllowedHandler, AllowedCall
  <2>3. Tail(ready) \in Seq(AllowedHandler)
    BY <1>1, HeadAndTail
  <2>4. StateOK'
    BY <1>1, <2>1, <2>3, AllowedIsTyped DEF IInv, StateOK, ConnState
  <2>5. OwnEntry'
    BY <1>1, <2>1 DEF IInv, StateOK, OwnEntry, Has
  <2>6. GoneClientHasNoSession'
    BY <1>1, <2>1 DEF IInv, StateOK, GoneClientHasNoSession, Has
  <2>7. WedgedOnlyAfterLogin'
    <3>1. SUFFICES ASSUME NEW c \in Clients, table'[c] # NoSession,
                          conn'[table'[c]] \in {"none", "closed"}
                   PROVE  table'[c] \in loggedIn'
      BY DEF WedgedOnlyAfterLogin, Has
    <3>2. table'[c] # r
      BY <1>1, <2>1, <3>1 DEF IInv, StateOK
    <3>3. table'[c] = table[c] /\ table[c] \in Session
      BY <1>1, <2>1, <3>1, <3>2 DEF IInv, StateOK
    <3>. QED
      BY <2>1, <3>1, <3>2, <3>3 DEF IInv, StateOK, WedgedOnlyAfterLogin, Has
  <2>. QED  BY <2>1, <2>2, <2>3, <2>4, <2>5, <2>6, <2>7 DEF IInv
<1>. QED  BY <1>2, <1>3

LEMMA RunCommandInv ==
  ASSUME IInv, RunCommand
  PROVE  IInv'
<1>. DEFINE r == Head(ready).req
            s == table[r.client]
            k == UserCall(s, r)
            after == IF r.op = "badsend" THEN Respond(r, "invalid_request")
                     ELSE <<[kind |-> "post", call |-> k]>>
<1>1. /\ ready # <<>> /\ r \in Request /\ r.client \in Clients
      /\ r.op \in {"send", "badsend", "load"}
  BY RunningFields DEF RunCommand, Request
<1>2. s \in Session /\ s.client = r.client /\ s \in loggedIn
  BY <1>1 DEF RunCommand, HasReady, Has, IsReady, IInv, StateOK, OwnEntry
<1>3. r.op # "badsend" => k \in AllowedCall
  BY <1>1, <1>2 DEF AllowedCall, Call, UserCall
<1>4. after \in Seq(AllowedHandler)
  <2>1. CASE r.op = "badsend"
    BY <1>1, <2>1, RespondType DEF Code
  <2>2. CASE r.op # "badsend"
    BY <1>3, <2>2, PostType
  <2>. QED  BY <2>1, <2>2
<1>5. /\ Finish(conn, outbox, <<>>, after)
      /\ held' = [held EXCEPT ![CommandOf(r.op)] = s]
      /\ stage' = IF r.op = "badsend" THEN stage ELSE [stage EXCEPT ![k] = "posted"]
      /\ UNCHANGED <<live, table, issued, loggedIn, owed, replies, aborted>>
  BY DEF RunCommand
<1>6. stage' \in [Call -> Stage] /\ held' \in [Command -> Session \cup {NoSession}]
  BY <1>2, <1>5 DEF IInv, StateOK, Stage
<1>7. OwnEntry' /\ GoneClientHasNoSession'
  BY <1>5 DEF IInv, OwnEntry, GoneClientHasNoSession, Has
<1>. HIDE DEF after
<1>. QED
  <2>1. <<>> \in Seq(AllowedHandler) /\ live' \subseteq live
    BY <1>5
  <2>2. \A c \in Clients : table'[c] # NoSession /\ conn[table'[c]] \in {"none", "closed"}
                             => table'[c] \in loggedIn'
    BY <1>5, InvFacts
  <2>. QED  BY <1>1, <1>4, <1>5, <1>6, <1>7, <2>1, <2>2, InvFacts, FinishStep

LEMMA LoseClientInv ==
  ASSUME IInv, LoseClient
  PROVE  IInv'
<1>. DEFINE c == Head(ready).client
<1>1. ready # <<>> /\ c \in Clients
  BY RunningFields DEF LoseClient
<1>2. /\ live' = live \ {c} /\ table' = Erase(c)
      /\ Finish(conn, outbox, CloseNotice(c), <<>>)
      /\ UNCHANGED <<held, stage, issued, loggedIn, owed, replies, aborted>>
  BY DEF LoseClient
<1>3. CloseNotice(c) \in Seq(AllowedHandler)
  BY <1>1, CloseNoticeType
<1>. HIDE DEF c
<1>4. /\ table' \in [Clients -> Session \cup {NoSession}]
      /\ OwnEntry' /\ GoneClientHasNoSession'
      /\ table'[c] = NoSession
      /\ \A d \in Clients : d # c => table'[d] = table[d]
  BY <1>1, <1>2, EraseKeeps
<1>. QED
  <2>1. <<>> \in Seq(AllowedHandler) /\ live' \subseteq live
    BY <1>2
  <2>2. \A d \in Clients : table'[d] # NoSession /\ conn[table'[d]] \in {"none", "closed"}
                             => table'[d] \in loggedIn'
    BY <1>2, <1>4, InvFacts
  <2>. QED  BY <1>1, <1>2, <1>3, <1>4, <2>1, <2>2, InvFacts, FinishStep

LEMMA SendAnswerInv ==
  ASSUME IInv, SendAnswer
  PROVE  IInv'
<1>1. ready # <<>> /\ Head(ready).req \in Request /\ Head(ready).code \in Code
  BY RunningFields DEF SendAnswer
<1>2. replies' \in [Request -> Seq(Code)]
  BY <1>1 DEF SendAnswer, IInv, StateOK
<1>. QED
  <2>1. <<>> \in Seq(AllowedHandler)
    OBVIOUS
  <2>2. FinishWith(<<>>) /\ UNCHANGED <<live, issued, owed>>
    BY DEF SendAnswer
  <2>. QED  BY <1>1, <1>2, <2>1, <2>2, FinishWithStep

LEMMA IgnoreInv ==
  ASSUME IInv, IgnoreGoneClient \/ IgnoreClosedApi
  PROVE  IInv'
<1>1. ready # <<>>
  BY DEF IgnoreGoneClient, IgnoreClosedApi, Running
<1>. QED
  <2>1. <<>> \in Seq(AllowedHandler)
    OBVIOUS
  <2>2. FinishWith(<<>>) /\ UNCHANGED <<live, issued, owed, replies>>
    BY DEF IgnoreGoneClient, IgnoreClosedApi
  <2>. QED  BY <1>1, <2>1, <2>2, InvFacts, FinishWithStep

LEMMA ConnectedInv ==
  ASSUME IInv, Connected
  PROVE  IInv'
<1>. DEFINE s  == Head(ready).sess
            ok == Head(ready).ok
            k  == LoginCall(s, "login1")
            sockets == [conn EXCEPT ![s] = IF ok THEN "open" ELSE "closed"]
            before == IF ok THEN <<>> ELSE CloseNotice(s.client)
            after == IF ~Has(s.client) THEN <<>>
                     ELSE IF ok THEN <<[kind |-> "post", call |-> k]>>
                     ELSE Respond(s, "open_failed")
<1>1. /\ ready # <<>> /\ s \in Session /\ ok \in BOOLEAN /\ s.client \in Clients
      /\ s \in Request /\ k \in Call
  BY RunningFields, SessionIsRequest DEF Connected
<1>2. sockets \in [Session -> ConnState]
  BY <1>1 DEF IInv, StateOK, ConnState
<1>3. before \in Seq(AllowedHandler)
  BY <1>1, CloseNoticeType
<1>4. after \in Seq(AllowedHandler)
  <2>1. k \in AllowedCall
    BY <1>1 DEF AllowedCall, LoginCall
  <2>2. <<[kind |-> "post", call |-> k]>> \in Seq(AllowedHandler)
    BY <2>1, PostType
  <2>3. Respond(s, "open_failed") \in Seq(AllowedHandler)
    BY <1>1, RespondType DEF Code
  <2>. QED  BY <2>2, <2>3
<1>5. /\ table' = IF ok THEN table ELSE Erase(s.client)
      /\ stage' = IF ok /\ Has(s.client) THEN [stage EXCEPT ![k] = "posted"] ELSE stage
      /\ Finish(sockets, outbox, before, after)
      /\ UNCHANGED <<held, live, issued, loggedIn, owed, replies, aborted>>
  BY DEF Connected
<1>6. stage' \in [Call -> Stage]
  BY <1>5 DEF IInv, StateOK, Stage
<1>7. /\ table' \in [Clients -> Session \cup {NoSession}]
      /\ OwnEntry' /\ GoneClientHasNoSession'
      /\ \A d \in Clients : d # s.client \/ ok => table'[d] = table[d]
      /\ ~ok => table'[s.client] = NoSession
  <2>1. CASE ok
    BY <1>5, <2>1 DEF IInv, StateOK, OwnEntry, GoneClientHasNoSession, Has
  <2>2. CASE ~ok
    BY <1>1, <1>5, <2>2, EraseKeeps
  <2>. QED  BY <2>1, <2>2
<1>8. \A c \in Clients : table'[c] # NoSession /\ sockets[table'[c]] \in {"none", "closed"}
                           => table'[c] \in loggedIn'
  <2>1. SUFFICES ASSUME NEW c \in Clients, table'[c] # NoSession,
                        sockets[table'[c]] \in {"none", "closed"}
                 PROVE  table'[c] \in loggedIn
    BY <1>5
  <2>2. table'[c] = table[c] /\ table[c] \in Session /\ table[c].client = c
    BY <1>7, <2>1 DEF IInv, StateOK, OwnEntry, Has
  <2>3. table[c] # s
    BY <1>1, <1>7, <2>1, <2>2 DEF IInv, StateOK
  <2>. QED
    BY <2>1, <2>2, <2>3 DEF IInv, StateOK, WedgedOnlyAfterLogin, Has
<1>. HIDE DEF before, after, sockets
<1>. QED
  BY <1>1, <1>2, <1>3, <1>4, <1>5, <1>6, <1>7, <1>8, InvFacts, FinishStep

LEMMA SendingInv ==
  ASSUME IInv, StartSend \/ SendDone
  PROVE  IInv'
<1>. DEFINE k == Head(ready).call
<1>1. ready # <<>> /\ k \in AllowedCall /\ k \in Call /\ k.sess \in Session
  BY RunningFields, CallFields DEF StartSend, SendDone, AllowedCall
<1>2. Tail(ready) \in Seq(AllowedHandler)
  BY <1>1, HeadAndTail
<1>3. CASE StartSend
  <2>1. /\ stage' = [stage EXCEPT ![k] = "sending"]
        /\ outbox' = [outbox EXCEPT ![k.sess] = Append(@, k)]
        /\ ready' = Tail(ready)
        /\ UNCHANGED <<live, issued, table, conn, loggedIn, owed, held,
                       replies, aborted>>
    BY <1>3 DEF StartSend
  <2>2. stage' \in [Call -> Stage]
    BY <2>1, InvFacts DEF Stage
  <2>3. outbox' \in [Session -> Seq(AllowedCall)]
    BY <1>1, <2>1, InvFacts
  <2>. QED  BY <1>2, <2>1, <2>2, <2>3, InvFacts, QuietStep
<1>4. CASE SendDone
  <2>1. /\ stage' = [stage EXCEPT ![k] = "waiting"]
        /\ ready' = Tail(ready)
        /\ UNCHANGED <<live, issued, table, conn, loggedIn, outbox, owed, held,
                       replies, aborted>>
    BY <1>4 DEF SendDone
  <2>2. stage' \in [Call -> Stage]
    BY <2>1, InvFacts DEF Stage
  <2>. QED  BY <1>2, <2>1, <2>2, InvFacts, QuietStep
<1>. QED  BY <1>3, <1>4

LEMMA SendFailureInv ==
  ASSUME IInv, SendOnClosed \/ SendFailed
  PROVE  IInv'
<1>. DEFINE k == Head(ready).call
<1>1. ready # <<>> /\ k \in AllowedCall /\ k.sess \in Session
  BY RunningFields, CallFields DEF SendOnClosed, SendFailed, AllowedCall
<1>2. CASE SendOnClosed
  <2>1. FailCall(k, conn, outbox, <<>>)
    BY <1>2 DEF SendOnClosed
  <2>2. <<>> \in Seq(AllowedHandler)
    OBVIOUS
  <2>. QED  BY <1>1, <2>1, <2>2, InvFacts, FailCallStep
<1>3. CASE SendFailed
  <2>. DEFINE sockets == [conn EXCEPT ![k.sess] = "closed"]
              sends   == [outbox EXCEPT ![k.sess] = <<>>]
              aborts  == Abort(outbox[k.sess])
  <2>1. FailCall(k, sockets, sends, aborts)
    BY <1>3 DEF SendFailed
  <2>2. /\ sockets \in [Session -> ConnState]
        /\ \A s \in Session : s # k.sess => sockets[s] = conn[s]
    BY <1>1, InvFacts DEF ConnState
  <2>3. sends \in [Session -> Seq(AllowedCall)]
    <3>1. <<>> \in Seq(AllowedCall)
      OBVIOUS
    <3>. QED  BY <3>1, InvFacts
  <2>4. aborts \in Seq(AllowedHandler)
    BY <1>1, InvFacts, AbortType
  <2>. HIDE DEF sockets, sends, aborts
  <2>. QED  BY <1>1, <2>1, <2>2, <2>3, <2>4, FailCallStep
<1>. QED  BY <1>2, <1>3

LEMMA BrokenInv ==
  ASSUME IInv, Broken
  PROVE  IInv'
<1>. DEFINE s == HandledSession
            c == s.client
            sockets == [conn EXCEPT ![s] = "closed"]
            sends   == [outbox EXCEPT ![s] = <<>>]
            notice  == IF table[c] = s THEN <<>> ELSE CloseNotice(c)
            before  == Abort(outbox[s]) \o notice
<1>1. ready # <<>> /\ s \in Session /\ c \in Clients
  <2>1. CASE Running("broken")
    BY <2>1, RunningFields, SessionIsRequest DEF HandledSession, Running
  <2>2. CASE Running("sentence")
    BY <2>2, RunningFields, CallFields, SessionIsRequest DEF HandledSession, Running
  <2>. QED  BY <2>1, <2>2 DEF Broken
<1>2. /\ table' = Erase(c)
      /\ UNCHANGED <<held, stage, live, issued, loggedIn, owed, replies, aborted>>
      /\ Finish(sockets, sends, before, <<>>)
  BY DEF Broken, ApiError
<1>3. sockets \in [Session -> ConnState] /\ sends \in [Session -> Seq(AllowedCall)]
  BY <1>1, InvFacts DEF ConnState
<1>4. before \in Seq(AllowedHandler)
  <2>1. Abort(outbox[s]) \in Seq(AllowedHandler)
    BY <1>1, InvFacts, AbortType
  <2>2. notice \in Seq(AllowedHandler)
    BY <1>1, CloseNoticeType
  <2>. QED  BY <2>1, <2>2
<1>5. /\ table' \in [Clients -> Session \cup {NoSession}]
      /\ OwnEntry' /\ GoneClientHasNoSession'
      /\ table'[c] = NoSession
      /\ \A d \in Clients : d # c => table'[d] = table[d]
  BY <1>1, <1>2, EraseKeeps
<1>6. \A d \in Clients : table'[d] # NoSession /\ sockets[table'[d]] \in {"none", "closed"}
                           => table'[d] \in loggedIn'
  <2>1. SUFFICES ASSUME NEW d \in Clients, table'[d] # NoSession,
                        sockets[table'[d]] \in {"none", "closed"}
                 PROVE  table'[d] \in loggedIn
    BY <1>2
  <2>2. d # c /\ table'[d] = table[d] /\ table[d] \in Session
    BY <1>5, <2>1, InvFacts
  <2>3. table[d].client = d
    BY <2>1, <2>2 DEF IInv, OwnEntry, Has
  <2>4. sockets[table[d]] = conn[table[d]]
    BY <2>2, <2>3, InvFacts
  <2>. QED  BY <2>1, <2>2, <2>4, InvFacts
<1>7. <<>> \in Seq(AllowedHandler) /\ live' \subseteq live
  BY <1>2
<1>. HIDE DEF sockets, sends, before
<1>. QED
  BY <1>1, <1>2, <1>3, <1>4, <1>5, <1>6, <1>7, InvFacts, FinishStep

LEMMA ChallengeInv ==
  ASSUME IInv, Challenge
  PROVE  IInv'
<1>. DEFINE k  == Head(ready).call
            k2 == LoginCall(k.sess, "login2")
            h  == [kind |-> "post", call |-> k2]
<1>1. ready # <<>> /\ k \in Call /\ k2 \in Call
  BY RunningFields, CallFields, SessionIsRequest DEF Challenge
<1>2. k2 \in AllowedCall
  BY <1>1 DEF AllowedCall, LoginCall
<1>3. h \in AllowedHandler
  BY <1>2, PostType
<1>4. /\ stage' = [stage EXCEPT ![k] = "done", ![k2] = "posted"]
      /\ ready' = Append(Tail(ready), h)
      /\ UNCHANGED <<live, issued, table, conn, loggedIn, outbox, owed, held,
                     replies, aborted>>
  BY DEF Challenge
<1>. HIDE DEF h
<1>5. ready' \in Seq(AllowedHandler)
  BY <1>1, <1>3, <1>4, HeadAndTail
<1>6. stage' \in [Call -> Stage]
  BY <1>4, InvFacts DEF Stage
<1>. QED  BY <1>4, <1>5, <1>6, InvFacts, QuietStep

LEMMA LoginRefusedInv ==
  ASSUME IInv, LoginRefused
  PROVE  IInv'
<1>. DEFINE k == Head(ready).call
<1>1. ready # <<>> /\ k \in AllowedCall
  BY RunningFields DEF LoginRefused, AllowedCall
<1>2. FailCall(k, conn, outbox, <<>>)
  BY DEF LoginRefused
<1>3. <<>> \in Seq(AllowedHandler)
  OBVIOUS
<1>. QED  BY <1>1, <1>2, <1>3, InvFacts, FailCallStep

LEMMA LoginAcceptedInv ==
  ASSUME IInv, LoginAccepted
  PROVE  IInv'
<1>. DEFINE k == Head(ready).call
            after == IF Has(k.sess.client) THEN Respond(k.sess, "success") ELSE <<>>
<1>1. ready # <<>> /\ k \in Call /\ k.sess \in Session /\ k.sess \in Request
  BY RunningFields, CallFields, SessionIsRequest DEF LoginAccepted
<1>2. /\ loggedIn' = loggedIn \cup {k.sess}
      /\ stage' = KeepCallback(k, FALSE)
      /\ Finish(conn, outbox, <<>>, after)
      /\ UNCHANGED <<table, held, live, issued, owed, replies, aborted>>
  BY DEF LoginAccepted
<1>3. after \in Seq(AllowedHandler)
  BY <1>1, RespondType DEF Code
<1>4. stage' \in [Call -> Stage]
  BY <1>1, <1>2, KeepCallbackType
<1>5. OwnEntry' /\ GoneClientHasNoSession'
  BY <1>2 DEF IInv, OwnEntry, GoneClientHasNoSession, Has
<1>6. /\ <<>> \in Seq(AllowedHandler) /\ live' \subseteq live
      /\ loggedIn \subseteq loggedIn' /\ loggedIn' \subseteq Session
  BY <1>1, <1>2, InvFacts
<1>7. \A c \in Clients : table'[c] # NoSession /\ conn[table'[c]] \in {"none", "closed"}
                           => table'[c] \in loggedIn'
  BY <1>2, InvFacts
<1>. HIDE DEF after
<1>. QED
  BY <1>1, <1>2, <1>3, <1>4, <1>5, <1>6, <1>7, InvFacts, FinishStep

LEMMA PassOnInv ==
  ASSUME IInv, PassOn \/ LoadRow
  PROVE  IInv'
<1>. DEFINE k == Head(ready).call
<1>1. ready # <<>> /\ k \in Call /\ k.req \in Request
  BY RunningFields, CallFields DEF PassOn, LoadRow
<1>2. PICK reply \in Response, code \in Response \cup {"success", "data"} :
        /\ stage' = KeepCallback(k, ~Empty(reply))
        /\ ready' = Tail(ready) \o Respond(k.req, code)
        /\ UNCHANGED <<live, issued, table, conn, loggedIn, outbox, owed, held,
                       replies, aborted>>
  <2>1. CASE PassOn
    BY <2>1 DEF PassOn
  <2>2. CASE LoadRow
    <3>1. PICK reply \in {"row", "blank", "done"} :
            /\ stage' = KeepCallback(k, ~Empty(reply))
            /\ ready' = Tail(ready) \o
                 Respond(k.req, IF Empty(reply) THEN "success" ELSE "data")
            /\ UNCHANGED <<live, issued, table, conn, loggedIn, outbox, owed,
                           held, replies, aborted>>
      BY <2>2 DEF LoadRow
    <3>. QED  BY <3>1 DEF Response
  <2>. QED  BY <2>1, <2>2
<1>3. ready' \in Seq(AllowedHandler)
  <2>1. Respond(k.req, code) \in Seq(AllowedHandler)
    BY <1>1, RespondType DEF Code
  <2>. QED  BY <1>1, <1>2, <2>1, HeadAndTail
<1>4. stage' \in [Call -> Stage]
  <2>1. (~Empty(reply)) \in BOOLEAN
    BY DEF Empty
  <2>. QED  BY <1>1, <1>2, <2>1, KeepCallbackType
<1>. QED  BY <1>2, <1>3, <1>4, InvFacts, QuietStep

LEMMA LoadTrapInv ==
  ASSUME IInv, LoadTrap
  PROVE  IInv'
<1>1. ready \in Seq(AllowedHandler)
  BY DEF IInv
<1>. QED  BY <1>1, InvFacts, QuietStep DEF LoadTrap

-----------------------------------------------------------------------------
(* The environment. *)

LEMMA CompleteStep ==
  ASSUME IInv, NEW h \in AllowedHandler, Complete(h),
         issued' \in [Clients -> 0..MaxReqs],
         outbox' \in [Session -> Seq(AllowedCall)],
         owed' \in [Call -> 0..(MaxRows + 1)],
         UNCHANGED <<live, table, conn, loggedIn, stage, held, replies, aborted>>
  PROVE  IInv'
<1>1. ready' \in Seq(AllowedHandler)
  BY DEF Complete, IInv
<1>. QED  BY <1>1, InvFacts, QuietStep

LEMMA EnvironmentInv ==
  ASSUME IInv, Environment
  PROVE  IInv'
<1>1. ASSUME NEW c \in Clients, ClientRequest(c)
      PROVE  IInv'
  <2>1. PICK op \in Ops :
          Complete([kind |-> "request",
                    req |-> [client |-> c, op |-> op, n |-> issued[c] + 1]])
    BY <1>1 DEF ClientRequest
  <2>. DEFINE r == [client |-> c, op |-> op, n |-> issued[c] + 1]
              h == [kind |-> "request", req |-> r]
  <2>2. issued[c] + 1 \in 1..MaxReqs
    BY <1>1, InvFacts, SessionsAssumption DEF ClientRequest
  <2>3. h \in AllowedHandler
    BY <2>2 DEF AllowedHandler, Handler, Request
  <2>4. issued' \in [Clients -> 0..MaxReqs]
    BY <1>1, <2>2, InvFacts DEF ClientRequest
  <2>5. UNCHANGED <<live, table, conn, loggedIn, stage, outbox, owed, held,
                    replies, aborted>>
    BY <1>1 DEF ClientRequest
  <2>. HIDE DEF h
  <2>. QED  BY <2>1, <2>3, <2>4, <2>5, InvFacts, CompleteStep DEF h
<1>2. ASSUME NEW c \in Clients, ClientLost(c)
      PROVE  IInv'
  <2>. DEFINE h == [kind |-> "lost", client |-> c]
  <2>1. h \in AllowedHandler
    BY DEF AllowedHandler, Handler
  <2>. QED  BY <1>2, <2>1, InvFacts, CompleteStep DEF ClientLost
<1>3. ASSUME NEW s \in Session, ConnectCompletes(s)
      PROVE  IInv'
  <2>1. PICK ok \in BOOLEAN : Complete([kind |-> "connected", sess |-> s, ok |-> ok])
    BY <1>3 DEF ConnectCompletes
  <2>2. [kind |-> "connected", sess |-> s, ok |-> ok] \in AllowedHandler
    BY DEF AllowedHandler, Handler
  <2>. QED  BY <1>3, <2>1, <2>2, InvFacts, CompleteStep DEF ConnectCompletes
<1>4. ASSUME NEW s \in Session, Transmit(s)
      PROVE  IInv'
  <2>. DEFINE k == Head(outbox[s])
  <2>1. outbox[s] \in Seq(AllowedCall) /\ outbox[s] # <<>>
    BY <1>4, InvFacts DEF Transmit
  <2>2. k \in AllowedCall /\ k \in Call /\ Tail(outbox[s]) \in Seq(AllowedCall)
    BY <2>1 DEF AllowedCall
  <2>3. PICK ok \in BOOLEAN :
          /\ Complete([kind |-> "sent", call |-> k, ok |-> ok])
          /\ owed' = IF ok THEN [owed EXCEPT ![k] = MaxRows + 1] ELSE owed
    BY <1>4 DEF Transmit
  <2>4. [kind |-> "sent", call |-> k, ok |-> ok] \in AllowedHandler
    BY <2>2 DEF AllowedHandler, Handler
  <2>5. owed' \in [Call -> 0..(MaxRows + 1)]
    <3>1. MaxRows + 1 \in 0..(MaxRows + 1)
      BY SessionsAssumption
    <3>. QED  BY <2>3, <3>1, InvFacts
  <2>6. outbox' \in [Session -> Seq(AllowedCall)]
    BY <1>4, <2>2, InvFacts DEF Transmit
  <2>. QED
    BY <1>4, <2>3, <2>4, <2>5, <2>6, InvFacts, CompleteStep DEF Transmit
<1>5. ASSUME NEW s \in Session, RouterBreaks(s)
      PROVE  IInv'
  <2>1. [kind |-> "broken", sess |-> s] \in AllowedHandler
    BY DEF AllowedHandler, Handler
  <2>. QED  BY <1>5, <2>1, InvFacts, CompleteStep DEF RouterBreaks
<1>6. ASSUME NEW k \in Call, RouterAnswers(k)
      PROVE  IInv'
  <2>1. PICK reply \in Reply :
          /\ owed' = [owed EXCEPT ![k] =
                        IF reply \notin {"row", "blank", "trap"} THEN 0 ELSE @ - 1]
          /\ Complete([kind |-> "sentence", call |-> k, reply |-> reply])
    BY <1>6 DEF RouterAnswers
  <2>2. [kind |-> "sentence", call |-> k, reply |-> reply] \in AllowedHandler
    BY DEF AllowedHandler, Handler
  <2>3. owed' \in [Call -> 0..(MaxRows + 1)]
    BY <1>6, <2>1, InvFacts, SessionsAssumption DEF RouterAnswers
  <2>. QED  BY <1>6, <2>1, <2>2, <2>3, InvFacts, CompleteStep DEF RouterAnswers
<1>. QED
  BY <1>1, <1>2, <1>3, <1>4, <1>5, <1>6 DEF Environment

-----------------------------------------------------------------------------
(* The theorems. *)

LEMMA NextInv == IInv /\ [Next]_vars => IInv'
<1>. SUFFICES ASSUME IInv, [Next]_vars  PROVE IInv'
  OBVIOUS
<1>1. CASE Environment
  BY <1>1, EnvironmentInv
<1>2. CASE RunHandler
  BY <1>2, AnswerInv, CreateSessionInv, RunCommandInv, LoseClientInv,
     SendAnswerInv, IgnoreInv, ConnectedInv, SendingInv, SendFailureInv,
     BrokenInv, ChallengeInv, LoginRefusedInv, LoginAcceptedInv, PassOnInv,
     LoadTrapInv DEF RunHandler
<1>3. CASE UNCHANGED vars
  <2>1. ready' \in Seq(AllowedHandler)
    BY <1>3 DEF IInv, vars
  <2>. QED  BY <1>3, <2>1, InvFacts, QuietStep DEF vars
<1>. QED  BY <1>1, <1>2, <1>3 DEF Next

\* The inductive invariant.
THEOREM Invariance == Spec => []IInv
<1>. QED  BY InitInv, NextInv, PTL DEF Spec

\* Every variable keeps its type, whatever the clients and the router do.
THEOREM TypeCorrectness == Spec => []TypeOK
<1>1. Init => addressParses \in BOOLEAN
  BY DEF Init
<1>2. addressParses \in BOOLEAN /\ [Next]_vars => (addressParses \in BOOLEAN)'
  BY DEF Next, vars
<1>3. Spec => [](addressParses \in BOOLEAN)
  BY <1>1, <1>2, PTL DEF Spec
<1>4. IInv /\ addressParses \in BOOLEAN => TypeOK
  BY DEF IInv, TypeOK
<1>. QED  BY <1>3, <1>4, Invariance, PTL

\* A client whose connection has been closed has no session and gets none:
\* the disconnection hook of sessions_service leaves nothing behind, and no
\* request or callback still in the queue makes an entry.
THEOREM NoSessionForTheGone == Spec => []GoneClientHasNoSession
<1>1. IInv => GoneClientHasNoSession
  BY DEF IInv
<1>. QED  BY <1>1, Invariance, PTL

\* A dead API connection stays in sessions_service's table only if its session
\* was logged in: every failure before that erases the entry.
THEOREM OnlyLoggedInSessionsWedge == Spec => []WedgedOnlyAfterLogin
<1>1. IInv => WedgedOnlyAfterLogin
  BY DEF IInv
<1>. QED  BY <1>1, Invariance, PTL

-----------------------------------------------------------------------------
(* The second invariant: where each callback is. *)

Members(q) == {q[i] : i \in 1..Len(q)}

Sends(h) == h.kind \in {"post", "sent"}

\* Two handlers that may not both be in the queue.
Same(g, h) ==
  \/ g.kind = "connected" /\ h.kind = "connected" /\ g.sess = h.sess
  \/ Sends(g) /\ Sends(h) /\ g.call = h.call
  \/ g.kind = "request" /\ h.kind = "request" /\ g.req.client = h.req.client

Apart(q) == \A i, j \in 1..Len(q) : Same(q[i], q[j]) => i = j

\* The send operations of a session: each call once, and not in the queue too.
Underway(q, sends) ==
  \A s \in Session :
    /\ \A i, j \in 1..Len(sends[s]) : sends[s][i] = sends[s][j] => i = j
    /\ \A k \in Members(sends[s]) :
         /\ k.sess = s
         /\ \A h \in Members(q) : Sends(h) => h.call # k

\* What the handlers in the queue and the operations of the sockets tell.
Staged ==
  /\ \A h \in Members(ready) :
       /\ h.kind = "post" => stage[h.call] = "posted"
       /\ h.kind = "sent" => stage[h.call] = "sending"
       /\ h.kind = "connected" => conn[h.sess] = "connecting"
  /\ \A s \in Session : \A k \in Members(outbox[s]) : stage[k] = "sending"

\* A request that is still to be served has neither a session nor a callback.
Unserved ==
  /\ \A h \in Members(ready) :
       h.kind = "request" =>
         /\ h.req.n = issued[h.req.client]
         /\ h.req.op = "open" => conn[h.req] = "none"
         /\ \A k \in Call : k.step = "user" /\ k.req = h.req => stage[k] = "none"
  /\ \A s \in Session : conn[s] # "none" => s.n <= issued[s.client]
  /\ \A k \in Call : k.step = "user" /\ stage[k] # "none" =>
       k.req.n <= issued[k.req.client]

\* A session connects, sends its first sentence, then its second, and only
\* then is logged in.
LoginSteps ==
  \A s \in Session :
    /\ conn[s] \in {"none", "connecting"} => stage[LoginCall(s, "login1")] = "none"
    /\ stage[LoginCall(s, "login2")] # "none" => stage[LoginCall(s, "login1")] = "done"
    /\ s \in loggedIn => stage[LoginCall(s, "login2")] = "done"

\* No callback on its way to the router is lost.
NoneLost ==
  \A k \in Call : stage[k] \in {"posted", "sending"} =>
    \/ k \in Members(outbox[k.sess])
    \/ \E h \in Members(ready) : Sends(h) /\ h.call = k

\* An API that is open belongs to a session that something still holds.
OpenIsHeld == \A s \in Session : conn[s] = "open" => Referenced(s)

PInv ==
  /\ Apart(ready)
  /\ Underway(ready, outbox)
  /\ Staged
  /\ Unserved
  /\ LoginSteps
  /\ NoneLost
  /\ OpenIsHeld

-----------------------------------------------------------------------------
(* Sequences of handlers and of calls. *)

LEMMA TailFacts ==
  ASSUME NEW S, NEW s \in Seq(S), s # <<>>
  PROVE  /\ Head(s) \in S /\ 1 \in 1..Len(s) /\ Head(s) = s[1]
         /\ Tail(s) \in Seq(S) /\ Len(Tail(s)) \in Nat
         /\ \A i \in 1..Len(Tail(s)) : i + 1 \in 1..Len(s) /\ Tail(s)[i] = s[i + 1]
         /\ \A i \in 1..Len(s) : i = 1 \/ (i - 1 \in 1..Len(Tail(s)) /\ Tail(s)[i - 1] = s[i])
  OBVIOUS

LEMMA ConcatFacts ==
  ASSUME NEW S, NEW s \in Seq(S), NEW t \in Seq(S)
  PROVE  /\ s \o t \in Seq(S) /\ Len(s) \in Nat /\ Len(t) \in Nat
         /\ \A i \in 1..Len(s) : i \in 1..Len(s \o t) /\ (s \o t)[i] = s[i]
         /\ \A i \in 1..Len(t) : Len(s) + i \in 1..Len(s \o t) /\ (s \o t)[Len(s) + i] = t[i]
         /\ \A i \in 1..Len(s \o t) :
              \/ i \in 1..Len(s)
              \/ /\ i - Len(s) \in 1..Len(t) /\ i = Len(s) + (i - Len(s))
                 /\ (s \o t)[i] = t[i - Len(s)]
  OBVIOUS

LEMMA Elements ==
  ASSUME NEW S, NEW s \in Seq(S)
  PROVE  \A i \in 1..Len(s) : s[i] \in S
  OBVIOUS

LEMMA MembersTail ==
  ASSUME NEW S, NEW s \in Seq(S), s # <<>>
  PROVE  /\ Head(s) \in S /\ Tail(s) \in Seq(S)
         /\ Head(s) \in Members(s)
         /\ \A h \in Members(Tail(s)) : h \in Members(s)
         /\ \A h \in Members(s) : h = Head(s) \/ h \in Members(Tail(s))
<1> DEFINE t == Tail(s)
<1>1. /\ Head(s) \in S /\ t \in Seq(S) /\ 1 \in 1..Len(s) /\ Head(s) = s[1]
      /\ \A i \in 1..Len(t) : i + 1 \in 1..Len(s) /\ t[i] = s[i + 1]
      /\ \A i \in 1..Len(s) : i = 1 \/ (i - 1 \in 1..Len(t) /\ t[i - 1] = s[i])
  BY TailFacts
<1> HIDE DEF t
<1>2. Head(s) \in Members(s)
  BY <1>1 DEF Members
<1>3. ASSUME NEW h \in Members(t) PROVE h \in Members(s)
  BY <1>1 DEF Members
<1>4. ASSUME NEW h \in Members(s) PROVE h = Head(s) \/ h \in Members(t)
  <2>1. PICK i \in 1..Len(s) : h = s[i]
    BY DEF Members
  <2>2. i = 1 \/ (i - 1 \in 1..Len(t) /\ t[i - 1] = h)
    BY <1>1, <2>1
  <2>3. QED
    BY <1>1, <2>1, <2>2 DEF Members
<1>5. QED
  BY <1>1, <1>2, <1>3, <1>4 DEF t

LEMMA MembersConcat ==
  ASSUME NEW S, NEW s \in Seq(S), NEW t \in Seq(S)
  PROVE  /\ s \o t \in Seq(S)
         /\ \A h \in Members(s) : h \in Members(s \o t)
         /\ \A h \in Members(t) : h \in Members(s \o t)
         /\ \A h \in Members(s \o t) : h \in Members(s) \/ h \in Members(t)
<1> DEFINE u == s \o t
<1>1. /\ u \in Seq(S)
      /\ \A i \in 1..Len(s) : i \in 1..Len(u) /\ u[i] = s[i]
      /\ \A i \in 1..Len(t) : Len(s) + i \in 1..Len(u) /\ u[Len(s) + i] = t[i]
      /\ \A i \in 1..Len(u) :
           \/ i \in 1..Len(s) /\ u[i] = s[i]
           \/ i - Len(s) \in 1..Len(t) /\ u[i] = t[i - Len(s)]
  BY ConcatFacts
<1> HIDE DEF u
<1>2. ASSUME NEW h \in Members(s) PROVE h \in Members(u)
  BY <1>1 DEF Members
<1>3. ASSUME NEW h \in Members(t) PROVE h \in Members(u)
  BY <1>1 DEF Members
<1>4. ASSUME NEW h \in Members(u) PROVE h \in Members(s) \/ h \in Members(t)
  <2>1. PICK i \in 1..Len(u) : h = u[i]
    BY DEF Members
  <2>2. CASE i \in 1..Len(s) /\ u[i] = s[i]
    BY <2>1, <2>2 DEF Members
  <2>3. CASE i - Len(s) \in 1..Len(t) /\ u[i] = t[i - Len(s)]
    BY <2>1, <2>3 DEF Members
  <2>. QED  BY <1>1, <2>2, <2>3
<1>5. QED
  BY <1>1, <1>2, <1>3, <1>4 DEF u

LEMMA ApartTail ==
  ASSUME NEW s \in Seq(Handler), s # <<>>, Apart(s)
  PROVE  /\ Apart(Tail(s))
         /\ \A h \in Members(Tail(s)) : ~Same(Head(s), h)
<1> DEFINE t == Tail(s)
<1>1. /\ 1 \in 1..Len(s) /\ Head(s) = s[1] /\ Len(t) \in Nat /\ Len(s) \in Nat
      /\ \A i \in 1..Len(t) : i + 1 \in 1..Len(s) /\ t[i] = s[i + 1]
  BY TailFacts
<1> HIDE DEF t
<1>2. ASSUME NEW i \in 1..Len(t), NEW j \in 1..Len(t), Same(t[i], t[j])
      PROVE  i = j
  <2>1. i + 1 = j + 1
    BY <1>1, <1>2 DEF Apart
  <2>2. QED
    BY <1>1, <2>1
<1>3. ASSUME NEW h \in Members(t)
      PROVE  ~Same(Head(s), h)
  <2>1. PICK i \in 1..Len(t) : h = t[i]
    BY DEF Members
  <2>2. i + 1 \in 1..Len(s) /\ i + 1 # 1 /\ h = s[i + 1]
    BY <1>1, <2>1
  <2>3. QED
    BY <1>1, <2>2 DEF Apart
<1>4. QED
  BY <1>2, <1>3 DEF Apart, t

LEMMA ApartConcat ==
  ASSUME NEW s \in Seq(Handler), NEW t \in Seq(Handler), Apart(s), Apart(t),
         \A g \in Members(s), h \in Members(t) : ~Same(g, h)
  PROVE  Apart(s \o t)
<1> DEFINE u == s \o t
<1>1. /\ Len(s) \in Nat /\ Len(t) \in Nat
      /\ \A i \in 1..Len(u) :
           \/ i \in 1..Len(s) /\ u[i] = s[i]
           \/ i - Len(s) \in 1..Len(t) /\ u[i] = t[i - Len(s)]
  BY ConcatFacts
<1> HIDE DEF u
<1>2. /\ \A i \in 1..Len(s) : s[i] \in Members(s)
      /\ \A i \in 1..Len(t) : t[i] \in Members(t)
  BY DEF Members
<1>3. SUFFICES ASSUME NEW i \in 1..Len(u), NEW j \in 1..Len(u), Same(u[i], u[j])
               PROVE  i = j
  BY DEF Apart, u
<1>4. Same(u[j], u[i])
  BY <1>3 DEF Same
<1>5. CASE i \in 1..Len(s) /\ u[i] = s[i] /\ j \in 1..Len(s) /\ u[j] = s[j]
  BY <1>3, <1>5 DEF Apart
<1>6. CASE /\ i - Len(s) \in 1..Len(t) /\ u[i] = t[i - Len(s)]
           /\ j - Len(s) \in 1..Len(t) /\ u[j] = t[j - Len(s)]
  <2>1. i - Len(s) = j - Len(s)
    BY <1>3, <1>6 DEF Apart
  <2>2. QED
    BY <1>1, <2>1
<1>7. QED
  BY <1>1, <1>2, <1>3, <1>4, <1>5, <1>6

\* One handler, and none.
LEMMA One ==
  ASSUME NEW h \in Handler
  PROVE  /\ <<h>> \in Seq(Handler) /\ Members(<<h>>) = {h} /\ Apart(<<h>>)
         /\ \A s \in Seq(Handler) : Append(s, h) = s \o <<h>>
  BY DEF Members, Apart

LEMMA None ==
  /\ <<>> \in Seq(Handler) /\ Members(<<>>) = {} /\ Apart(<<>>)
  /\ \A s \in Seq(Handler) : s \o <<>> = s
  BY DEF Members, Apart

-----------------------------------------------------------------------------
(* What the end of a handler does to the callbacks. *)

Idle(q) == \A h \in Members(q) : h.kind = "respond"

\* Answers stand in nothing's way.
LEMMA IdleFacts ==
  ASSUME NEW q \in Seq(Handler), Idle(q)
  PROVE  /\ Apart(q)
         /\ \A h \in Members(q) : ~Sends(h) /\ h.kind = "respond"
         /\ \A g, h : h \in Members(q) => ~Same(g, h) /\ ~Same(h, g)
  BY DEF Idle, Apart, Same, Sends, Members

\* What the end of a socket's send operations posts.
LEMMA AbortFacts ==
  ASSUME NEW calls \in Seq(Call),
         \A i, j \in 1..Len(calls) : calls[i] = calls[j] => i = j
  PROVE  /\ Abort(calls) \in Seq(Handler) /\ Apart(Abort(calls))
         /\ \A h \in Members(Abort(calls)) :
              h.kind = "sent" /\ h.call \in Members(calls) /\ h.call \in Call
         /\ \A k \in Members(calls) :
              \E h \in Members(Abort(calls)) : Sends(h) /\ h.call = k
<1> DEFINE a == Abort(calls)
           H(k) == [kind |-> "sent", call |-> k, ok |-> FALSE]
<1>1. \A i \in 1..Len(calls) : calls[i] \in Call
  BY Elements
<1>2. \A k \in Call : H(k) \in Handler /\ H(k).kind = "sent" /\ H(k).call = k
  BY DEF Handler
<1>3. a = [i \in 1..Len(calls) |-> H(calls[i])] /\ Len(calls) \in Nat
  BY DEF Abort
<1> HIDE DEF H
<1>4. a \in Seq(Handler) /\ Len(a) = Len(calls)
      /\ \A i \in 1..Len(calls) : a[i] = H(calls[i])
  BY <1>1, <1>2, <1>3
<1> HIDE DEF a
<1>5. Apart(a)
  BY <1>1, <1>2, <1>4 DEF Apart, Same, Sends
<1>6. \A h \in Members(a) :
        h.kind = "sent" /\ h.call \in Members(calls) /\ h.call \in Call
  BY <1>1, <1>2, <1>4 DEF Members
<1>7. \A k \in Members(calls) : \E h \in Members(a) : Sends(h) /\ h.call = k
  BY <1>1, <1>2, <1>4 DEF Members, Sends
<1>8. QED
  BY <1>4, <1>5, <1>6, <1>7 DEF a

\* What a handler that posts `before' and `after' and leaves the sockets and
\* send operations as given has to see to: what it posts goes with what is in
\* the queue and at the sockets.
Fits(sends, before, after) ==
  /\ \A g \in Members(Tail(ready)), h \in Members(before) : ~Same(g, h)
  /\ \A g \in Members(Tail(ready)), h \in Members(after) : ~Same(g, h)
  /\ \A g \in Members(before), h \in Members(after) : ~Same(g, h)
  /\ Underway(Tail(ready), sends) /\ Underway(before, sends) /\ Underway(after, sends)

\* The completion of a send operation that the end of its socket has cut off.
CutOff(h, sends) == h.kind = "sent" /\ \E s \in Session : h.call \in Members(sends[s])

\* Where everything is after a handler that posts `before' and `after'.
Ends(sockets, sends, before, after) ==
  /\ ready' \in Seq(Handler) /\ Apart(ready') /\ Underway(ready', outbox')
  /\ \A h \in Members(Tail(ready)) : h \in Members(ready')
  /\ \A h \in Members(before) : h \in Members(ready')
  /\ \A h \in Members(after) : h \in Members(ready')
  /\ \A h \in Members(ready') :
       \/ h \in Members(Tail(ready))
       \/ h \in Members(before)
       \/ h \in Members(after)
       \/ CutOff(h, sends)
  /\ \A s \in Session :
       /\ \/ conn'[s] = sockets[s]
          \/ conn'[s] = "closed" /\ sockets[s] = "open" /\ ~Referenced(s)'
       /\ conn'[s] = "open" => Referenced(s)'
       /\ \A k \in Members(outbox'[s]) : k \in Members(sends[s])
  /\ (\A s, t \in Session :
        /\ sockets[s] = "open" /\ ~Referenced(s)' /\ sends[s] # <<>>
        /\ sockets[t] = "open" /\ ~Referenced(t)' /\ sends[t] # <<>>
        => s = t)
     => \A s \in Session : \A k \in Members(sends[s]) :
          \/ k \in Members(outbox'[s])
          \/ \E h \in Members(ready') : Sends(h) /\ h.call = k

\* A handler leaves Tail(ready) and posts before and after the end of the
\* sessions that it lets go.
LEMMA FinishPlaces ==
  ASSUME ready \in Seq(Handler), ready # <<>>, Apart(ready),
         NEW sockets \in [Session -> ConnState],
         NEW sends \in [Session -> Seq(Call)],
         NEW before \in Seq(Handler), Apart(before),
         NEW after \in Seq(Handler), Apart(after),
         Finish(sockets, sends, before, after),
         Fits(sends, before, after)
  PROVE  Ends(sockets, sends, before, after)
<1>. DEFINE dying == {s \in Session : sockets[s] = "open" /\ ~Referenced(s)'}
            busy  == {s \in dying : sends[s] # <<>>}
            some  == CHOOSE s \in busy : TRUE
            aborts == IF busy = {} THEN <<>> ELSE Abort(sends[some])
            rest  == Tail(ready)
            front == rest \o before
            most  == front \o aborts
<1>1. /\ conn' = [s \in Session |-> IF s \in dying THEN "closed" ELSE sockets[s]]
      /\ outbox' = [s \in Session |-> IF s \in dying THEN <<>> ELSE sends[s]]
      /\ ready' = rest \o before \o aborts \o after
  BY DEF Finish
<1>2. busy # {} => some \in busy
  OBVIOUS
<1>3. \A s \in Session : s \in dying <=> sockets[s] = "open" /\ ~Referenced(s)'
  OBVIOUS
<1>4. \A s \in Session : s \in busy <=> s \in dying /\ sends[s] # <<>>
  OBVIOUS
<1>5. busy \subseteq Session
  OBVIOUS
<1>. HIDE DEF dying, busy, some
<1>6. /\ aborts \in Seq(Handler) /\ Apart(aborts)
      /\ \A h \in Members(aborts) :
           /\ h.kind = "sent" /\ Sends(h)
           /\ busy # {} /\ h.call \in Members(sends[some])
      /\ busy # {} => \A k \in Members(sends[some]) :
                        \E h \in Members(aborts) : Sends(h) /\ h.call = k
  <2>1. CASE busy = {}
    BY <2>1, None
  <2>2. CASE busy # {}
    <3>1. some \in Session /\ sends[some] \in Seq(Call)
      BY <1>2, <1>5, <2>2
    <3>2. \A i, j \in 1..Len(sends[some]) : sends[some][i] = sends[some][j] => i = j
      BY <3>1 DEF Fits, Underway
    <3>. QED  BY <2>2, <3>1, <3>2, AbortFacts DEF Sends
  <2>. QED  BY <2>1, <2>2
<1>. HIDE DEF aborts
<1>7. rest \in Seq(Handler) /\ Apart(rest)
  BY TailFacts, ApartTail
<1>. HIDE DEF rest
<1>8. /\ front \in Seq(Handler) /\ Apart(front)
      /\ \A h \in Members(front) : h \in Members(rest) \/ h \in Members(before)
      /\ \A h \in Members(rest) : h \in Members(front)
      /\ \A h \in Members(before) : h \in Members(front)
  BY <1>7, MembersConcat, ApartConcat DEF Fits, rest
<1>. HIDE DEF front
<1>9. /\ \A h \in Members(rest) : Sends(h) => \A s \in Session : h.call \notin Members(sends[s])
      /\ \A h \in Members(before) : Sends(h) => \A s \in Session : h.call \notin Members(sends[s])
      /\ \A h \in Members(after) : Sends(h) => \A s \in Session : h.call \notin Members(sends[s])
  BY DEF Fits, Underway, rest
<1>10. \A g, h : Same(g, h) /\ (Sends(g) \/ Sends(h)) => Sends(g) /\ Sends(h) /\ g.call = h.call
  BY DEF Same, Sends
<1>11. busy # {} => some \in Session
  BY <1>2, <1>5
<1>12. \A g \in Members(front), h \in Members(aborts) : ~Same(g, h)
  BY <1>6, <1>8, <1>9, <1>10, <1>11
<1>13. \A g \in Members(aborts), h \in Members(after) : ~Same(g, h)
  BY <1>6, <1>9, <1>10, <1>11
<1>14. /\ most \in Seq(Handler) /\ Apart(most)
       /\ \A h \in Members(most) : h \in Members(front) \/ h \in Members(aborts)
       /\ \A h \in Members(front) : h \in Members(most)
       /\ \A h \in Members(aborts) : h \in Members(most)
  BY <1>6, <1>8, <1>12, MembersConcat, ApartConcat
<1>15. ready' = most \o after
  BY <1>1 DEF front
<1>. HIDE DEF most
<1>16. \A g \in Members(most), h \in Members(after) : ~Same(g, h)
  BY <1>8, <1>13, <1>14 DEF Fits, rest
<1>17. /\ ready' \in Seq(Handler) /\ Apart(ready')
       /\ \A h \in Members(ready') : h \in Members(most) \/ h \in Members(after)
       /\ \A h \in Members(most) : h \in Members(ready')
       /\ \A h \in Members(after) : h \in Members(ready')
  <2>1. /\ most \o after \in Seq(Handler) /\ Apart(most \o after)
        /\ \A h \in Members(most \o after) : h \in Members(most) \/ h \in Members(after)
        /\ \A h \in Members(most) : h \in Members(most \o after)
        /\ \A h \in Members(after) : h \in Members(most \o after)
    BY <1>14, <1>16, MembersConcat, ApartConcat
  <2>. QED  BY <1>15, <2>1
<1>18. \A h \in Members(ready') :
         \/ h \in Members(rest)
         \/ h \in Members(before)
         \/ h \in Members(after)
         \/ h \in Members(aborts)
  BY <1>8, <1>14, <1>17
<1>19. \A s \in Session :
         /\ \/ conn'[s] = sockets[s]
            \/ conn'[s] = "closed" /\ sockets[s] = "open" /\ ~Referenced(s)'
         /\ conn'[s] = "open" => Referenced(s)'
  BY <1>1, <1>3
<1>20. \A s \in Session : outbox'[s] = IF s \in dying THEN <<>> ELSE sends[s]
  BY <1>1
<1>21. \A s \in Session :
         /\ \A k \in Members(outbox'[s]) : k \in Members(sends[s])
         /\ \A i, j \in 1..Len(outbox'[s]) : outbox'[s][i] = outbox'[s][j] => i = j
  <2>1. SUFFICES ASSUME NEW s \in Session
                 PROVE  /\ \A k \in Members(outbox'[s]) : k \in Members(sends[s])
                        /\ \A i, j \in 1..Len(outbox'[s]) :
                             outbox'[s][i] = outbox'[s][j] => i = j
    OBVIOUS
  <2>2. CASE s \in dying
    BY <1>20, <2>2, None
  <2>3. CASE s \notin dying
    <3>1. outbox'[s] = sends[s]
      BY <1>20, <2>3
    <3>. QED  BY <3>1 DEF Fits, Underway
  <2>. QED  BY <2>2, <2>3
<1>22. ASSUME NEW s \in Session, NEW k \in Members(outbox'[s]),
              NEW h \in Members(ready'), Sends(h)
       PROVE  h.call # k
  <2>1. k \in Members(sends[s]) /\ s \notin dying
    BY <1>20, <1>22, None
  <2>2. CASE h \in Members(aborts)
    <3>1. some \in Session /\ some # s /\ h.call \in Members(sends[some])
      BY <1>2, <1>4, <1>6, <1>11, <2>1, <2>2
    <3>. QED  BY <2>1, <3>1 DEF Fits, Underway
  <2>. QED  BY <1>9, <1>18, <1>22, <2>1, <2>2 DEF Fits
<1>23. Underway(ready', outbox')
  BY <1>21, <1>22 DEF Fits, Underway
<1>24. ASSUME \A s, t \in Session :
                /\ sockets[s] = "open" /\ ~Referenced(s)' /\ sends[s] # <<>>
                /\ sockets[t] = "open" /\ ~Referenced(t)' /\ sends[t] # <<>>
                => s = t,
              NEW s \in Session, NEW k \in Members(sends[s])
       PROVE  \/ k \in Members(outbox'[s])
              \/ \E h \in Members(ready') : Sends(h) /\ h.call = k
  <2>1. CASE s \notin dying
    BY <1>20, <2>1
  <2>2. CASE s \in dying
    <3>1. sends[s] # <<>>
      BY None
    <3>2. s \in busy /\ some \in busy
      BY <1>2, <1>4, <2>2, <3>1
    <3>3. some = s
      BY <1>3, <1>4, <1>5, <1>24, <3>2
    <3>. QED  BY <1>6, <1>14, <1>17, <3>2, <3>3
  <2>. QED  BY <2>1, <2>2
<1>25. /\ \A h \in Members(rest) : h \in Members(ready')
       /\ \A h \in Members(before) : h \in Members(ready')
       /\ \A h \in Members(after) : h \in Members(ready')
  BY <1>8, <1>14, <1>17
<1>26. \A h \in Members(aborts) : CutOff(h, sends)
  BY <1>6, <1>11 DEF CutOff
<1>. QED
  BY <1>17, <1>18, <1>19, <1>21, <1>23, <1>24, <1>25, <1>26 DEF rest, Ends

-----------------------------------------------------------------------------
(* How the second invariant is kept. *)

\* The types that the steps rest on.
LEMMA Known ==
  ASSUME IInv
  PROVE  /\ ready \in Seq(Handler)
         /\ outbox \in [Session -> Seq(Call)]
         /\ conn \in [Session -> ConnState]
         /\ stage \in [Call -> Stage]
         /\ \A h \in Members(ready) :
              /\ h \in Handler
              /\ h.kind = "request" => h.req \in Request /\ h.req.client \in Clients
              /\ h.kind = "connected" => h.sess \in Session
              /\ Sends(h) => h.call \in AllowedCall /\ h.call \in Call
         /\ \A s \in Session : \A k \in Members(outbox[s]) : k \in AllowedCall /\ k \in Call
<1>1. /\ ready \in Seq(AllowedHandler) /\ ready \in Seq(Handler)
      /\ outbox \in [Session -> Seq(AllowedCall)] /\ outbox \in [Session -> Seq(Call)]
  BY AllowedIsTyped DEF IInv
<1>2. \A i \in 1..Len(ready) : ready[i] \in AllowedHandler
  BY <1>1, Elements
<1>3. \A h \in Members(ready) : h \in AllowedHandler
  BY <1>2 DEF Members
<1>4. ASSUME NEW h \in Members(ready)
      PROVE  /\ h \in Handler
             /\ h.kind = "request" => h.req \in Request /\ h.req.client \in Clients
             /\ h.kind = "connected" => h.sess \in Session
             /\ Sends(h) => h.call \in AllowedCall /\ h.call \in Call
  <2>1. h \in Handler /\ (Sends(h) => h.call \in AllowedCall)
    BY <1>3 DEF AllowedHandler, Sends
  <2>2. h.kind = "request" => h.req.client \in Clients
    BY <2>1, HandlerFields DEF Request
  <2>. QED  BY <2>1, <2>2, HandlerFields DEF AllowedCall
<1>5. ASSUME NEW s \in Session, NEW k \in Members(outbox[s])
      PROVE  k \in AllowedCall /\ k \in Call
  <2>1. \A i \in 1..Len(outbox[s]) : outbox[s][i] \in AllowedCall
    BY <1>1, Elements
  <2>. QED  BY <2>1 DEF Members, AllowedCall
<1>. QED  BY <1>1, <1>4, <1>5, InvFacts

\* The handler that runs is taken from the queue.
LEMMA Taken ==
  ASSUME IInv, PInv, ready # <<>>
  PROVE  /\ Tail(ready) \in Seq(Handler) /\ Apart(Tail(ready))
         /\ Head(ready) \in Members(ready)
         /\ \A h \in Members(Tail(ready)) : h \in Members(ready) /\ ~Same(Head(ready), h)
         /\ \A h \in Members(ready) : h = Head(ready) \/ h \in Members(Tail(ready))
         /\ Underway(Tail(ready), outbox)
<1>1. ready \in Seq(Handler) /\ Apart(ready) /\ Underway(ready, outbox)
  BY Known DEF PInv
<1>2. /\ Tail(ready) \in Seq(Handler) /\ Apart(Tail(ready))
      /\ Head(ready) \in Members(ready)
      /\ \A h \in Members(Tail(ready)) : h \in Members(ready) /\ ~Same(Head(ready), h)
      /\ \A h \in Members(ready) : h = Head(ready) \/ h \in Members(Tail(ready))
  BY <1>1, MembersTail, ApartTail
<1>3. Underway(Tail(ready), outbox)
  BY <1>1, <1>2 DEF Underway
<1>. QED  BY <1>2, <1>3

\* The calls of a login.
LEMMA LoginCalls ==
  ASSUME NEW s \in Session, NEW step \in {"login1", "login2"}
  PROVE  /\ LoginCall(s, step) \in Call
         /\ LoginCall(s, step).sess = s /\ LoginCall(s, step).step = step
         /\ \A k \in Call : k.sess = s /\ k.step = step => k = LoginCall(s, step)
<1>1. ASSUME NEW k \in Call, k.sess = s, k.step = step
      PROVE  k = LoginCall(s, step)
  <2>1. k = [sess |-> k.sess, req |-> k.req, step |-> k.step]
    BY DEF Call
  <2>2. k.req = s
    BY <1>1, CallFields
  <2>. QED  BY <1>1, <2>1, <2>2 DEF LoginCall
<1>. QED  BY <1>1, SessionIsRequest DEF LoginCall

\* A send operation of a session that nothing holds is a command's.
LEMMA BusyIsLoggedIn ==
  ASSUME NEW s \in Session, NEW k \in AllowedCall, k.sess = s,
         stage' \in [Call -> Stage], stage'[k] = "sending", ~Referenced(s)'
  PROVE  s \in loggedIn
<1>1. k \in Call /\ k.step \in {"login1", "login2", "user"}
  BY DEF AllowedCall, Call
<1>2. CASE k.step # "user"
  <2>1. k = LoginCall(s, k.step)
    BY <1>1, <1>2, LoginCalls
  <2>2. Pending(k)'
    BY DEF Pending
  <2>. QED  BY <1>1, <1>2, <2>1, <2>2 DEF Referenced
<1>3. CASE k.step = "user"
  BY <1>3 DEF AllowedCall
<1>. QED  BY <1>2, <1>3

\* Further, the stages of the callbacks tell where they are,
Tells(sockets, sends, before, after) ==
  /\ \A h \in Members(Tail(ready)) :
       /\ Sends(h) => stage'[h.call] = stage[h.call]
       /\ h.kind = "connected" => sockets[h.sess] = conn[h.sess]
  /\ \A h \in Members(before) \cup Members(after) :
       \/ h.kind = "respond"
       \/ h.kind = "post" /\ stage'[h.call] = "posted"
       \/ h.kind = "sent" /\ stage'[h.call] = "sending"
  /\ \A s \in Session :
       /\ \A k \in Members(sends[s]) : stage'[k] = "sending"
       /\ sockets[s] = "none" <=> conn[s] = "none"
  /\ \A k \in Call :
       k.step = "user" /\ stage[k] = "none" /\ stage'[k] # "none" =>
         Running("request") /\ k.req = Head(ready).req
  /\ \A k \in Call : stage'[k] \in {"posted", "sending"} =>
       \/ k \in Members(sends[k.sess])
       \/ \E h \in Members(Tail(ready)) \cup Members(before) \cup Members(after) :
            Sends(h) /\ h.call = k

\* and the login of each session goes on in its order.
InOrder(sockets) ==
  \A s \in Session :
    /\ sockets[s] \in {"none", "connecting"} => stage'[LoginCall(s, "login1")] = "none"
    /\ stage'[LoginCall(s, "login2")] # "none" => stage'[LoginCall(s, "login1")] = "done"
    /\ s \in loggedIn' => stage'[LoginCall(s, "login2")] = "done"

\* A handler that may let go of sessions, of which z may have sends under way.
LEMMA FinishKeeps ==
  ASSUME IInv, PInv, ready # <<>>,
         stage' \in [Call -> Stage],
         NEW sockets \in [Session -> ConnState],
         NEW sends \in [Session -> Seq(AllowedCall)],
         NEW before \in Seq(Handler), Apart(before),
         NEW after \in Seq(Handler), Apart(after),
         Finish(sockets, sends, before, after),
         issued' = issued,
         Fits(sends, before, after),
         Tells(sockets, sends, before, after),
         InOrder(sockets),
         NEW z,
         \A s \in loggedIn : sockets[s] = "open" /\ ~Referenced(s)' => s = z
  PROVE  PInv'
<1>. DEFINE rest == Tail(ready)
<1>0. /\ ready \in Seq(Handler) /\ Apart(ready)
      /\ sends \in [Session -> Seq(Call)]
      /\ \A s \in Session : \A k \in Members(sends[s]) : k \in AllowedCall
  <2>1. AllowedCall \subseteq Call
    BY DEF AllowedCall
  <2>2. \A s \in Session : \A i \in 1..Len(sends[s]) : sends[s][i] \in AllowedCall
    BY Elements
  <2>. QED  BY <2>1, <2>2, Known DEF PInv, Members
<1>1. /\ \A h \in Members(rest) : h \in Members(ready) /\ ~Same(Head(ready), h)
      /\ Head(ready) \in Members(ready)
  BY Taken
<1>2. ASSUME NEW s \in Session, ~Referenced(s)', sends[s] # <<>>
      PROVE  s \in loggedIn
  <2>1. sends[s] \in Seq(AllowedCall)
    OBVIOUS
  <2>2. PICK k \in Members(sends[s]) : TRUE
    BY <1>2, <2>1, MembersTail
  <2>3. k.sess = s /\ stage'[k] = "sending" /\ k \in AllowedCall
    BY <1>0 DEF Fits, Tells, Underway
  <2>. QED  BY <1>2, <2>3, BusyIsLoggedIn
<1>3. \A s, t \in Session :
        /\ sockets[s] = "open" /\ ~Referenced(s)' /\ sends[s] # <<>>
        /\ sockets[t] = "open" /\ ~Referenced(t)' /\ sends[t] # <<>>
        => s = t
  BY <1>2
<1>4. /\ ready' \in Seq(Handler) /\ Apart(ready') /\ Underway(ready', outbox')
      /\ \A h \in Members(rest) \cup Members(before) \cup Members(after) : h \in Members(ready')
      /\ \A h \in Members(ready') :
           \/ h \in Members(rest)
           \/ h \in Members(before) \cup Members(after)
           \/ CutOff(h, sends)
      /\ \A s \in Session :
           /\ \/ conn'[s] = sockets[s]
              \/ conn'[s] = "closed" /\ sockets[s] = "open" /\ ~Referenced(s)'
           /\ conn'[s] = "open" => Referenced(s)'
           /\ \A k \in Members(outbox'[s]) : k \in Members(sends[s])
      /\ \A s \in Session : \A k \in Members(sends[s]) :
           \/ k \in Members(outbox'[s])
           \/ \E h \in Members(ready') : Sends(h) /\ h.call = k
  <2>1. Ends(sockets, sends, before, after)
    <3>1. ready \in Seq(Handler) /\ Apart(ready)
      BY <1>0
    <3>2. sends \in [Session -> Seq(Call)]
      BY <1>0
    <3>. QED  BY <3>1, <3>2, FinishPlaces
  <2>. QED  BY <1>3, <2>1 DEF Ends
<1>. HIDE DEF rest
<1>5. Staged'
  <2>1. ASSUME NEW h \in Members(ready')
        PROVE  /\ h.kind = "post" => stage'[h.call] = "posted"
               /\ h.kind = "sent" => stage'[h.call] = "sending"
               /\ h.kind = "connected" => conn'[h.sess] = "connecting"
    <3>1. CASE h \in Members(rest)
      <4>1. /\ h.kind = "post" => stage[h.call] = "posted"
            /\ h.kind = "sent" => stage[h.call] = "sending"
            /\ h.kind = "connected" => conn[h.sess] = "connecting" /\ h.sess \in Session
        BY <1>1, <3>1, Known DEF PInv, Staged
      <4>2. h.kind = "connected" => sockets[h.sess] = "connecting"
        BY <3>1, <4>1 DEF rest, Tells
      <4>3. h.kind = "connected" => conn'[h.sess] = "connecting"
        BY <1>4, <4>1, <4>2
      <4>. QED  BY <3>1, <4>1, <4>3 DEF rest, Sends, Tells
    <3>2. CASE h \in Members(before) \cup Members(after)
      BY <3>2 DEF Tells
    <3>3. CASE CutOff(h, sends)
      <4>1. PICK s \in Session : h.call \in Members(sends[s])
        BY <3>3 DEF CutOff
      <4>2. \A k \in Members(sends[s]) : stage'[k] = "sending"
        BY DEF Tells
      <4>. QED  BY <3>3, <4>1, <4>2 DEF CutOff
    <3>. QED  BY <1>4, <3>1, <3>2, <3>3
  <2>2. \A s \in Session : \A k \in Members(outbox'[s]) : stage'[k] = "sending"
    BY <1>4 DEF Tells
  <2>. QED  BY <2>1, <2>2 DEF Staged
<1>6. Unserved'
  <2>1. ASSUME NEW h \in Members(ready'), h.kind = "request"
        PROVE  /\ h.req.n = issued[h.req.client]
               /\ h.req.op = "open" => conn'[h.req] = "none"
               /\ \A k \in Call : k.step = "user" /\ k.req = h.req => stage'[k] = "none"
    <3>1. h \in Members(rest)
      BY <1>4, <2>1 DEF Tells, CutOff
    <3>2. /\ h.req.n = issued[h.req.client] /\ h.req \in Request
          /\ h.req.op = "open" => conn[h.req] = "none" /\ h.req \in Session
          /\ \A k \in Call : k.step = "user" /\ k.req = h.req => stage[k] = "none"
      BY <1>1, <2>1, <3>1, Known DEF PInv, Unserved, Session
    <3>3. h.req.op = "open" => conn'[h.req] = "none"
      BY <1>4, <3>2 DEF Tells
    <3>4. Running("request") => h.req.client # Head(ready).req.client
      BY <1>1, <2>1, <3>1 DEF Same, Running
    <3>. QED  BY <3>2, <3>3, <3>4 DEF Tells
  <2>2. ASSUME NEW s \in Session, conn'[s] # "none"
        PROVE  s.n <= issued[s.client]
    <3>1. sockets[s] # "none"
      BY <1>4, <2>2
    <3>2. conn[s] # "none"
      BY <3>1 DEF Tells
    <3>. QED  BY <3>2 DEF PInv, Unserved
  <2>3. ASSUME NEW k \in Call, k.step = "user", stage'[k] # "none"
        PROVE  k.req.n <= issued[k.req.client]
    <3>1. CASE stage[k] # "none"
      BY <2>3, <3>1 DEF PInv, Unserved
    <3>2. CASE stage[k] = "none"
      <4>1. k.req = Head(ready).req /\ Head(ready).kind = "request"
        BY <2>3, <3>2 DEF Running, Tells
      <4>2. k.req.n = issued[k.req.client]
        BY <1>1, <4>1 DEF PInv, Unserved
      <4>3. k.req \in Request
        BY CallFields
      <4>4. k.req.n \in Nat
        BY <4>3, SessionsAssumption DEF Request
      <4>. QED  BY <4>2, <4>4
    <3>. QED  BY <3>1, <3>2
  <2>. QED  BY <2>1, <2>2, <2>3 DEF Unserved
<1>7. LoginSteps'
  <2>1. \A s \in Session : conn'[s] \in {"none", "connecting"} => sockets[s] = conn'[s]
    BY <1>4
  <2>. QED  BY <2>1 DEF LoginSteps, InOrder
<1>8. NoneLost'
  <2>1. SUFFICES ASSUME NEW k \in Call, stage'[k] \in {"posted", "sending"}
                 PROVE  \/ k \in Members(outbox'[k.sess])
                        \/ \E h \in Members(ready') : Sends(h) /\ h.call = k
    BY DEF NoneLost
  <2>2. CASE k \in Members(sends[k.sess])
    BY <1>4, <2>2, CallFields
  <2>3. CASE \E h \in Members(rest) \cup Members(before) \cup Members(after) :
               Sends(h) /\ h.call = k
    BY <1>4, <2>3
  <2>. QED  BY <2>1, <2>2, <2>3 DEF rest, Tells
<1>9. OpenIsHeld'
  BY <1>4 DEF OpenIsHeld
<1>. QED  BY <1>4, <1>5, <1>6, <1>7, <1>8, <1>9 DEF PInv

\* What a handler posts to clients.
LEMMA RespondIdle ==
  ASSUME NEW r \in Request, NEW code \in Code
  PROVE  Respond(r, code) \in Seq(Handler) /\ Idle(Respond(r, code))
<1>1. [kind |-> "respond", req |-> r, code |-> code] \in Handler
  BY DEF Handler
<1>. QED  BY <1>1, One DEF Respond, Idle

LEMMA CloseNoticeIdle ==
  ASSUME IInv, NEW c \in Clients
  PROVE  CloseNotice(c) \in Seq(Handler) /\ Idle(CloseNotice(c))
<1>1. "session_closed" \in Code
  BY DEF Code
<1>2. HasReady(c) => table[c] \in Request
  BY InvFacts, SessionIsRequest DEF HasReady, Has
<1>. QED  BY <1>1, <1>2, RespondIdle, None DEF CloseNotice, Idle

LEMMA ErrorAnswerIdle ==
  ASSUME NEW k \in Call
  PROVE  ErrorAnswer(k) \in Seq(Handler) /\ Idle(ErrorAnswer(k))
<1>1. "open_failed" \in Code /\ "unknown_error" \in Code
  BY DEF Code
<1>2. k.sess \in Request /\ k.req \in Request
  BY CallFields, SessionIsRequest
<1>. QED  BY <1>1, <1>2, RespondIdle, None DEF ErrorAnswer, Idle

\* A callback that is in use goes on to its next place.
LEMMA LoginGoesOn ==
  ASSUME IInv, PInv, NEW k \in Call, Pending(k), NEW v \in Stage, v # "none",
         stage' = [stage EXCEPT ![k] = v],
         NEW s \in Session
  PROVE  /\ conn[s] \in {"none", "connecting"} => stage'[LoginCall(s, "login1")] = "none"
         /\ stage'[LoginCall(s, "login2")] # "none" => stage'[LoginCall(s, "login1")] = "done"
         /\ s \in loggedIn => stage'[LoginCall(s, "login2")] = "done"
<1>. DEFINE l1 == LoginCall(s, "login1")
            l2 == LoginCall(s, "login2")
<1>1. l1 \in Call /\ l2 \in Call /\ l1 # l2
  BY LoginCalls
<1>2. /\ stage'[l1] = IF l1 = k THEN v ELSE stage[l1]
      /\ stage'[l2] = IF l2 = k THEN v ELSE stage[l2]
  BY <1>1, Known
<1>3. /\ conn[s] \in {"none", "connecting"} => stage[l1] = "none"
      /\ stage[l2] # "none" => stage[l1] = "done"
      /\ s \in loggedIn => stage[l2] = "done"
  BY DEF PInv, LoginSteps
<1>. HIDE DEF l1, l2
<1>4. /\ conn[s] \in {"none", "connecting"} => stage'[l1] = "none"
      /\ stage'[l2] # "none" => stage'[l1] = "done"
      /\ s \in loggedIn => stage'[l2] = "done"
  BY <1>1, <1>2, <1>3 DEF Pending
<1>. QED  BY <1>4 DEF l1, l2

\* The steps that leave the sessions and the calls as they are, but for the
\* callback of a command that has heard its last answer.
LEMMA QuietPlaces ==
  ASSUME IInv, PInv, ready # <<>>, ~Sends(Head(ready)),
         NEW posts \in Seq(Handler), Idle(posts),
         ready' = Tail(ready) \o posts,
         UNCHANGED <<issued, table, conn, loggedIn, outbox, held>>,
         \A k \in Call : \/ stage'[k] = stage[k]
                         \/ k.step = "user" /\ stage[k] = "waiting" /\ stage'[k] = "done"
  PROVE  PInv'
<1>. DEFINE rest == Tail(ready)
<1>1. /\ rest \in Seq(Handler) /\ Apart(rest)
      /\ \A h \in Members(rest) : h \in Members(ready)
      /\ \A h \in Members(ready) : h = Head(ready) \/ h \in Members(rest)
  BY Taken
<1>2. /\ Apart(ready')
      /\ \A h \in Members(rest) : h \in Members(ready')
      /\ \A h \in Members(ready') : h \in Members(ready) \/ h.kind = "respond"
  <2>1. /\ Apart(posts)
        /\ \A g, h : h \in Members(posts) => ~Same(g, h) /\ h.kind = "respond"
    BY IdleFacts
  <2>2. /\ Apart(rest \o posts)
        /\ \A h \in Members(rest) : h \in Members(rest \o posts)
        /\ \A h \in Members(rest \o posts) : h \in Members(rest) \/ h \in Members(posts)
    BY <1>1, <2>1, ApartConcat, MembersConcat
  <2>. QED  BY <1>1, <2>1, <2>2
<1>. HIDE DEF rest
<1>3. Underway(ready', outbox')
  <2>1. \A h \in Members(ready') : Sends(h) => h \in Members(ready)
    BY <1>2 DEF Sends
  <2>2. \A s \in Session :
          /\ \A i, j \in 1..Len(outbox[s]) : outbox[s][i] = outbox[s][j] => i = j
          /\ \A k \in Members(outbox[s]) :
               /\ k.sess = s
               /\ \A h \in Members(ready) : Sends(h) => h.call # k
    BY DEF PInv, Underway
  <2>3. \A s \in Session : \A k \in Members(outbox[s]) :
          \A h \in Members(ready') : Sends(h) => h.call # k
    BY <2>1, <2>2
  <2>. QED  BY <2>2, <2>3 DEF Underway
<1>4. Staged'
  <2>1. \A h \in Members(ready') :
          /\ h.kind = "post" => h \in Members(ready) /\ h.call \in Call /\ stage[h.call] = "posted"
          /\ h.kind = "sent" => h \in Members(ready) /\ h.call \in Call /\ stage[h.call] = "sending"
          /\ h.kind = "connected" => conn[h.sess] = "connecting"
    BY <1>2, Known DEF PInv, Staged, Sends
  <2>2. \A s \in Session : \A k \in Members(outbox[s]) : k \in Call /\ stage[k] = "sending"
    BY Known DEF PInv, Staged
  <2>3. \A k \in Call : stage[k] \in {"posted", "sending"} => stage'[k] = stage[k]
    OBVIOUS
  <2>4. \A h \in Members(ready') :
          /\ h.kind = "post" => stage'[h.call] = "posted"
          /\ h.kind = "sent" => stage'[h.call] = "sending"
          /\ h.kind = "connected" => conn'[h.sess] = "connecting"
    BY <2>1, <2>3
  <2>5. \A s \in Session : \A k \in Members(outbox'[s]) : stage'[k] = "sending"
    BY <2>2, <2>3
  <2>. QED  BY <2>4, <2>5 DEF Staged
<1>5. Unserved'
  <2>1. \A h \in Members(ready') : h.kind = "request" => h \in Members(ready)
    BY <1>2
  <2>. QED  BY <2>1 DEF PInv, Unserved
<1>6. \A s \in Session, step \in {"login1", "login2"} :
        stage'[LoginCall(s, step)] = stage[LoginCall(s, step)]
  BY LoginCalls
<1>7. LoginSteps'
  BY <1>6 DEF PInv, LoginSteps
<1>8. NoneLost'
  <2>1. \A k \in Call : stage'[k] \in {"posted", "sending"} => stage[k] = stage'[k]
    OBVIOUS
  <2>2. \A h \in Members(ready) : Sends(h) => h \in Members(ready')
    BY <1>1, <1>2
  <2>. QED  BY <2>1, <2>2 DEF PInv, NoneLost
<1>9. OpenIsHeld'
  <2>1. \A s \in Session : Referenced(s) => Referenced(s)'
    BY <1>6 DEF Referenced, Pending
  <2>. QED  BY <2>1 DEF PInv, OpenIsHeld
<1>. QED  BY <1>2, <1>3, <1>4, <1>5, <1>7, <1>8, <1>9 DEF PInv

\* An operation has completed.
LEMMA CompletePlaces ==
  ASSUME IInv, NEW h \in Handler, Apart(ready), Complete(h),
         \A g \in Members(ready) : ~Same(g, h)
  PROVE  /\ Apart(ready') /\ h \in Members(ready')
         /\ \A g \in Members(ready) : g \in Members(ready')
         /\ \A g \in Members(ready') : g \in Members(ready) \/ g = h
<1>1. ready \in Seq(Handler) /\ ready' = ready \o <<h>>
  BY Known, One DEF Complete
<1>2. <<h>> \in Seq(Handler) /\ Members(<<h>>) = {h} /\ Apart(<<h>>)
  BY One
<1>3. Apart(ready \o <<h>>)
  BY <1>1, <1>2, ApartConcat
<1>4. /\ \A g \in Members(ready) : g \in Members(ready \o <<h>>)
      /\ h \in Members(ready \o <<h>>)
      /\ \A g \in Members(ready \o <<h>>) : g \in Members(ready) \/ g = h
  BY <1>1, <1>2, MembersConcat
<1>. QED  BY <1>1, <1>3, <1>4

-----------------------------------------------------------------------------
(* Each step keeps the second invariant. *)

LEMMA UnchangedPlaces ==
  ASSUME PInv, UNCHANGED <<ready, issued, table, conn, loggedIn, stage, outbox, held>>
  PROVE  PInv'
<1>1. Apart(ready') /\ Underway(ready', outbox')
  BY DEF PInv
<1>2. Staged' /\ Unserved' /\ LoginSteps' /\ NoneLost'
  BY DEF PInv, Staged, Unserved, LoginSteps, NoneLost
<1>3. OpenIsHeld'
  <2>1. \A s \in Session : Referenced(s) => Referenced(s)'
    BY DEF Referenced, Pending
  <2>. QED  BY <2>1 DEF PInv, OpenIsHeld
<1>. QED  BY <1>1, <1>2, <1>3 DEF PInv

LEMMA FinishWithPlaces ==
  ASSUME IInv, PInv, ready # <<>>, ~Sends(Head(ready)),
         NEW posts \in Seq(Handler), Idle(posts),
         FinishWith(posts), issued' = issued
  PROVE  PInv'
<1>1. /\ ready' = Tail(ready) \o posts
      /\ UNCHANGED <<issued, table, conn, loggedIn, outbox, held>>
      /\ \A k \in Call : stage'[k] = stage[k]
  BY DEF FinishWith
<1>. QED  BY <1>1, QuietPlaces

LEMMA AnswerPlaces ==
  ASSUME IInv, PInv,
         AnswerAtOnce \/ RefuseOpen \/ RefuseCommand \/ SendAnswer
           \/ IgnoreGoneClient \/ IgnoreClosedApi
  PROVE  PInv'
<1>. DEFINE r == Head(ready).req
<1>1. ready # <<>> /\ ~Sends(Head(ready)) /\ (Running("request") => r \in Request)
  BY RunningFields DEF AnswerAtOnce, RefuseOpen, RefuseCommand, SendAnswer,
     IgnoreGoneClient, IgnoreClosedApi, Running, Sends
<1>2. {"data", "unknown_command", "already_open", "pending", "not_open"} \subseteq Code
  BY DEF Code
<1>3. <<>> \in Seq(Handler) /\ Idle(<<>>)
  BY None DEF Idle
<1>4. CASE AnswerAtOnce
  <2>1. r \in Request /\ ImmediateCode[r.op] \in Code
    BY <1>1, <1>2, <1>4 DEF AnswerAtOnce, ImmediateCode
  <2>2. FinishWith(Respond(r, ImmediateCode[r.op])) /\ issued' = issued
    BY <1>4 DEF AnswerAtOnce
  <2>. QED  BY <1>1, <2>1, <2>2, RespondIdle, FinishWithPlaces
<1>5. CASE RefuseOpen
  <2>1. PICK code \in Code : FinishWith(Respond(r, code)) /\ issued' = issued
    BY <1>2, <1>5 DEF RefuseOpen
  <2>2. r \in Request
    BY <1>1, <1>5 DEF RefuseOpen
  <2>. QED  BY <1>1, <2>1, <2>2, RespondIdle, FinishWithPlaces
<1>6. CASE RefuseCommand
  <2>1. FinishWith(Respond(r, "not_open")) /\ issued' = issued /\ r \in Request
    BY <1>1, <1>6 DEF RefuseCommand
  <2>. QED  BY <1>1, <1>2, <2>1, RespondIdle, FinishWithPlaces
<1>7. CASE SendAnswer \/ IgnoreGoneClient \/ IgnoreClosedApi
  <2>1. FinishWith(<<>>) /\ issued' = issued
    BY <1>7 DEF SendAnswer, IgnoreGoneClient, IgnoreClosedApi
  <2>. QED  BY <1>1, <1>3, <2>1, FinishWithPlaces
<1>. QED  BY <1>4, <1>5, <1>6, <1>7

LEMMA PassOnPlaces ==
  ASSUME IInv, PInv, PassOn \/ LoadRow
  PROVE  PInv'
<1>. DEFINE k == Head(ready).call
<1>1. /\ ready # <<>> /\ k \in Call /\ k.req \in Request /\ k.step = "user"
      /\ ~Sends(Head(ready))
  BY RunningFields, CallFields DEF PassOn, LoadRow, Running, Sends
<1>2. PICK keep \in BOOLEAN, code \in Code :
        /\ stage' = KeepCallback(k, keep)
        /\ ready' = Tail(ready) \o Respond(k.req, code)
        /\ stage[k] = "waiting"
        /\ UNCHANGED <<issued, table, conn, loggedIn, outbox, held>>
  <2>1. Response \cup {"success", "data"} \subseteq Code
    BY DEF Code
  <2>2. CASE PassOn
    <3>1. PICK reply \in Response :
            /\ Answers(k, reply)
            /\ stage' = KeepCallback(k, ~Empty(reply))
            /\ ready' = Tail(ready) \o Respond(k.req, reply)
            /\ UNCHANGED <<issued, table, conn, loggedIn, outbox, held>>
      BY <2>2 DEF PassOn
    <3>2. (~Empty(reply)) \in BOOLEAN
      BY DEF Empty
    <3>3. stage[k] = "waiting"
      BY <3>1 DEF Answers
    <3>. QED  BY <2>1, <3>1, <3>2, <3>3
  <2>3. CASE LoadRow
    <3>1. PICK reply \in {"row", "blank", "done"} :
            /\ Answers(k, reply)
            /\ stage' = KeepCallback(k, ~Empty(reply))
            /\ ready' = Tail(ready) \o
                 Respond(k.req, IF Empty(reply) THEN "success" ELSE "data")
            /\ UNCHANGED <<issued, table, conn, loggedIn, outbox, held>>
      BY <2>3 DEF LoadRow
    <3>2. (~Empty(reply)) \in BOOLEAN
      BY DEF Empty
    <3>3. stage[k] = "waiting"
      BY <3>1 DEF Answers
    <3>4. (IF Empty(reply) THEN "success" ELSE "data") \in Code
      BY <2>1
    <3>. QED  BY <3>1, <3>2, <3>3, <3>4
  <2>. QED  BY <2>2, <2>3
<1>3. \A x \in Call : \/ stage'[x] = stage[x]
                      \/ x.step = "user" /\ stage[x] = "waiting" /\ stage'[x] = "done"
  BY <1>1, <1>2, Known DEF KeepCallback
<1>. QED  BY <1>1, <1>2, <1>3, RespondIdle, QuietPlaces

\* The environment's steps that concern neither requests nor send operations.
LEMMA CompleteQuietly ==
  ASSUME IInv, PInv, NEW h \in Handler, Complete(h),
         h.kind = "connected" => conn[h.sess] = "connecting",
         h.kind \notin {"request", "post", "sent"},
         \A g \in Members(ready) : ~Same(g, h),
         UNCHANGED <<issued, table, conn, loggedIn, stage, outbox, held>>
  PROVE  PInv'
<1>1. /\ Apart(ready')
      /\ \A g \in Members(ready) : g \in Members(ready')
      /\ \A g \in Members(ready') : g \in Members(ready) \/ g = h
  BY CompletePlaces DEF PInv
<1>2. Underway(ready', outbox')
  BY <1>1 DEF PInv, Underway, Sends
<1>3. Staged'
  BY <1>1 DEF PInv, Staged
<1>4. Unserved'
  BY <1>1 DEF PInv, Unserved
<1>5. LoginSteps'
  BY DEF PInv, LoginSteps
<1>6. NoneLost'
  BY <1>1 DEF PInv, NoneLost
<1>7. OpenIsHeld'
  <2>1. \A s \in Session : Referenced(s) => Referenced(s)'
    BY DEF Referenced, Pending
  <2>. QED  BY <2>1 DEF PInv, OpenIsHeld
<1>. QED  BY <1>1, <1>2, <1>3, <1>4, <1>5, <1>6, <1>7 DEF PInv

LEMMA ClientRequestPlaces ==
  ASSUME IInv, PInv, NEW c \in Clients, ClientRequest(c)
  PROVE  PInv'
<1>1. PICK op \in Ops :
        Complete([kind |-> "request",
                  req |-> [client |-> c, op |-> op, n |-> issued[c] + 1]])
  BY DEF ClientRequest
<1>. DEFINE r == [client |-> c, op |-> op, n |-> issued[c] + 1]
            h == [kind |-> "request", req |-> r]
<1>2. issued[c] + 1 \in 1..MaxReqs /\ issued[c] \in Nat
  BY InvFacts, SessionsAssumption DEF ClientRequest
<1>3. /\ h \in Handler /\ h.kind = "request" /\ h.req = r /\ ~Sends(h)
      /\ r \in Request /\ r.client = c /\ r.op = op /\ r.n = issued[c] + 1
  BY <1>2 DEF Handler, Request, Sends
<1>4. /\ issued' = [issued EXCEPT ![c] = @ + 1]
      /\ UNCHANGED <<table, conn, loggedIn, stage, outbox, held>>
  BY DEF ClientRequest
<1>5. \A g \in Members(ready) : g.kind = "request" => g.req.client # c
  BY DEF ClientRequest, Members
<1>. HIDE DEF h, r
<1>6. \A g \in Members(ready) : ~Same(g, h)
  BY <1>3, <1>5 DEF Same
<1>7. /\ Apart(ready')
      /\ \A g \in Members(ready) : g \in Members(ready')
      /\ \A g \in Members(ready') : g \in Members(ready) \/ g = h
  BY <1>1, <1>3, <1>6, CompletePlaces DEF PInv, h, r
<1>8. Underway(ready', outbox')
  BY <1>3, <1>4, <1>7 DEF PInv, Underway
<1>9. Staged'
  BY <1>3, <1>4, <1>7 DEF PInv, Staged
<1>10. issued'[c] = issued[c] + 1 /\ \A d \in Clients : d # c => issued'[d] = issued[d]
  BY <1>4, InvFacts
<1>11. Unserved'
  <2>1. ASSUME NEW g \in Members(ready'), g.kind = "request"
        PROVE  /\ g.req.n = issued'[g.req.client]
               /\ g.req.op = "open" => conn'[g.req] = "none"
               /\ \A k \in Call : k.step = "user" /\ k.req = g.req => stage'[k] = "none"
    <3>1. CASE g \in Members(ready)
      <4>1. g.req.client \in Clients /\ g.req.client # c
        BY <1>5, <2>1, <3>1, Known
      <4>. QED  BY <1>4, <1>10, <2>1, <3>1, <4>1 DEF PInv, Unserved
    <3>2. CASE g = h
      <4>1. g.req = r /\ ~(r.n <= issued[r.client])
        BY <1>2, <1>3, <3>2
      <4>2. r.op = "open" => r \in Session
        BY <1>3 DEF Session
      <4>3. r.op = "open" => conn[r] = "none"
        BY <4>1, <4>2 DEF PInv, Unserved
      <4>4. \A k \in Call : k.step = "user" /\ k.req = r => stage[k] = "none"
        BY <4>1 DEF PInv, Unserved
      <4>. QED  BY <1>3, <1>4, <1>10, <4>1, <4>3, <4>4
    <3>. QED  BY <1>7, <3>1, <3>2
  <2>2. \A d \in Clients : issued[d] \in Nat /\ issued'[d] \in Nat /\ issued[d] <= issued'[d]
    <3>1. \A d \in Clients : issued[d] \in Nat
      BY InvFacts, SessionsAssumption
    <3>. QED  BY <1>10, <3>1
  <2>3. ASSUME NEW s \in Session, conn'[s] # "none"
        PROVE  s.n <= issued'[s.client]
    <3>1. s.client \in Clients /\ s.n \in Nat
      BY SessionIsRequest, SessionsAssumption DEF Request
    <3>2. s.n <= issued[s.client]
      BY <1>4, <2>3 DEF PInv, Unserved
    <3>. QED  BY <2>2, <3>1, <3>2
  <2>4. ASSUME NEW k \in Call, k.step = "user", stage'[k] # "none"
        PROVE  k.req.n <= issued'[k.req.client]
    <3>1. k.req.client \in Clients /\ k.req.n \in Nat
      BY CallFields, SessionsAssumption DEF Request
    <3>2. k.req.n <= issued[k.req.client]
      BY <1>4, <2>4 DEF PInv, Unserved
    <3>. QED  BY <2>2, <3>1, <3>2
  <2>. QED  BY <2>1, <2>3, <2>4 DEF Unserved
<1>12. LoginSteps'
  BY <1>4 DEF PInv, LoginSteps
<1>13. NoneLost'
  BY <1>4, <1>7 DEF PInv, NoneLost
<1>14. OpenIsHeld'
  <2>1. \A s \in Session : Referenced(s) => Referenced(s)'
    BY <1>4 DEF Referenced, Pending
  <2>. QED  BY <1>4, <2>1 DEF PInv, OpenIsHeld
<1>. QED  BY <1>7, <1>8, <1>9, <1>11, <1>12, <1>13, <1>14 DEF PInv

LEMMA TransmitPlaces ==
  ASSUME IInv, PInv, NEW s \in Session, Transmit(s)
  PROVE  PInv'
<1>. DEFINE k == Head(outbox[s])
<1>1. outbox[s] \in Seq(Call) /\ outbox[s] # <<>>
  BY Known DEF Transmit
<1>2. PICK ok \in BOOLEAN : Complete([kind |-> "sent", call |-> k, ok |-> ok])
  BY DEF Transmit
<1>. DEFINE h == [kind |-> "sent", call |-> k, ok |-> ok]
<1>3. /\ k \in Call /\ k \in Members(outbox[s])
      /\ \A x \in Members(Tail(outbox[s])) : x \in Members(outbox[s])
      /\ \A x \in Members(outbox[s]) : x = k \/ x \in Members(Tail(outbox[s]))
  BY <1>1, MembersTail
<1>4. h \in Handler /\ h.kind = "sent" /\ h.call = k /\ Sends(h)
  BY <1>3 DEF Handler, Sends
<1>5. /\ outbox' = [outbox EXCEPT ![s] = Tail(@)]
      /\ UNCHANGED <<issued, table, conn, loggedIn, stage, held>>
  BY DEF Transmit
<1>6. \A x \in Session : outbox'[x] = IF x = s THEN Tail(outbox[s]) ELSE outbox[x]
  BY <1>5, Known
<1>7. /\ k.sess = s /\ \A g \in Members(ready) : Sends(g) => g.call # k
  BY <1>3 DEF PInv, Underway
<1>. HIDE DEF h
<1>8. \A g \in Members(ready) : ~Same(g, h)
  BY <1>4, <1>7 DEF Same, Sends
<1>9. /\ Apart(ready') /\ h \in Members(ready')
      /\ \A g \in Members(ready) : g \in Members(ready')
      /\ \A g \in Members(ready') : g \in Members(ready) \/ g = h
  BY <1>2, <1>4, <1>8, CompletePlaces DEF PInv, h
<1>10. /\ \A i, j \in 1..Len(Tail(outbox[s])) :
            Tail(outbox[s])[i] = Tail(outbox[s])[j] => i = j
       /\ k \notin Members(Tail(outbox[s]))
  <2>1. /\ 1 \in 1..Len(outbox[s]) /\ k = outbox[s][1]
        /\ Len(Tail(outbox[s])) \in Nat
        /\ \A i \in 1..Len(Tail(outbox[s])) :
             i + 1 \in 1..Len(outbox[s]) /\ Tail(outbox[s])[i] = outbox[s][i + 1]
    BY <1>1, TailFacts
  <2>2. \A i, j \in 1..Len(outbox[s]) : outbox[s][i] = outbox[s][j] => i = j
    BY DEF PInv, Underway
  <2>. DEFINE t == Tail(outbox[s])
  <2>. HIDE DEF t, k
  <2>3. ASSUME NEW i \in 1..Len(t), NEW j \in 1..Len(t), t[i] = t[j]
        PROVE  i = j
    <3>1. i + 1 = j + 1
      BY <2>1, <2>2, <2>3 DEF t
    <3>. QED  BY <2>1, <3>1 DEF t
  <2>4. ASSUME NEW i \in 1..Len(t), t[i] = k
        PROVE  FALSE
    <3>1. i + 1 = 1
      BY <2>1, <2>2, <2>4 DEF t
    <3>. QED  BY <2>1, <3>1 DEF t
  <2>. QED  BY <2>3, <2>4 DEF Members, t
<1>. HIDE DEF k
<1>11. Underway(ready', outbox')
  <2>1. ASSUME NEW x \in Session
        PROVE  /\ \A i, j \in 1..Len(outbox'[x]) : outbox'[x][i] = outbox'[x][j] => i = j
               /\ \A y \in Members(outbox'[x]) :
                    /\ y.sess = x
                    /\ \A g \in Members(ready') : Sends(g) => g.call # y
    <3>1. \A y \in Members(outbox[x]) :
            y.sess = x /\ \A g \in Members(ready) : Sends(g) => g.call # y
      BY DEF PInv, Underway
    <3>2. CASE x = s
      <4>1. outbox'[x] = Tail(outbox[s])
        BY <1>6, <3>2
      <4>. QED  BY <1>3, <1>4, <1>9, <1>10, <3>1, <3>2, <4>1
    <3>3. CASE x # s
      <4>1. outbox'[x] = outbox[x]
        BY <1>6, <3>3
      <4>2. \A y \in Members(outbox[x]) : y # k
        BY <1>7, <3>1, <3>3
      <4>. QED  BY <1>4, <1>9, <3>1, <4>1, <4>2 DEF PInv, Underway
    <3>. QED  BY <3>2, <3>3
  <2>. QED  BY <2>1 DEF Underway
<1>12. \A x \in Session : \A y \in Members(outbox'[x]) : y \in Members(outbox[x])
  <2>1. SUFFICES ASSUME NEW x \in Session, NEW y \in Members(outbox'[x])
                 PROVE  y \in Members(outbox[x])
    OBVIOUS
  <2>2. CASE x = s
    BY <1>3, <1>6, <2>2
  <2>3. CASE x # s
    BY <1>6, <2>3
  <2>. QED  BY <2>2, <2>3
<1>13. Staged'
  <2>1. stage[k] = "sending"
    BY <1>3 DEF PInv, Staged
  <2>. QED  BY <1>4, <1>5, <1>9, <1>12, <2>1 DEF PInv, Staged
<1>14. Unserved'
  BY <1>4, <1>5, <1>9 DEF PInv, Unserved
<1>15. LoginSteps'
  BY <1>5 DEF PInv, LoginSteps
<1>16. NoneLost'
  <2>1. SUFFICES ASSUME NEW x \in Call, stage[x] \in {"posted", "sending"}
                 PROVE  \/ x \in Members(outbox'[x.sess])
                        \/ \E g \in Members(ready') : Sends(g) /\ g.call = x
    BY <1>5 DEF NoneLost
  <2>2. CASE \E g \in Members(ready) : Sends(g) /\ g.call = x
    BY <1>9, <2>2
  <2>3. CASE x \in Members(outbox[x.sess])
    <3>1. CASE x = k
      BY <1>4, <1>9, <3>1
    <3>2. CASE x # k
      BY <1>3, <1>6, <2>3, <3>2, CallFields
    <3>. QED  BY <3>1, <3>2
  <2>. QED  BY <2>1, <2>2, <2>3 DEF PInv, NoneLost
<1>17. OpenIsHeld'
  <2>1. \A x \in Session : Referenced(x) => Referenced(x)'
    BY <1>5 DEF Referenced, Pending
  <2>. QED  BY <1>5, <2>1 DEF PInv, OpenIsHeld
<1>. QED  BY <1>9, <1>11, <1>13, <1>14, <1>15, <1>16, <1>17 DEF PInv

LEMMA EnvironmentPlaces ==
  ASSUME IInv, PInv, Environment
  PROVE  PInv'
<1>1. ASSUME NEW c \in Clients, ClientLost(c)
      PROVE  PInv'
  <2>. DEFINE h == [kind |-> "lost", client |-> c]
  <2>1. h \in Handler /\ h.kind = "lost"
    BY DEF Handler
  <2>2. Complete(h) /\ UNCHANGED <<issued, table, conn, loggedIn, stage, outbox, held>>
    BY <1>1 DEF ClientLost
  <2>. HIDE DEF h
  <2>3. \A g \in Members(ready) : ~Same(g, h)
    BY <2>1 DEF Same, Sends
  <2>. QED  BY <2>1, <2>2, <2>3, CompleteQuietly
<1>2. ASSUME NEW s \in Session, ConnectCompletes(s)
      PROVE  PInv'
  <2>1. PICK ok \in BOOLEAN : Complete([kind |-> "connected", sess |-> s, ok |-> ok])
    BY <1>2 DEF ConnectCompletes
  <2>. DEFINE h == [kind |-> "connected", sess |-> s, ok |-> ok]
  <2>2. h \in Handler /\ h.kind = "connected" /\ h.sess = s
    BY DEF Handler
  <2>3. /\ UNCHANGED <<issued, table, conn, loggedIn, stage, outbox, held>>
        /\ conn[s] = "connecting"
    BY <1>2 DEF ConnectCompletes
  <2>4. \A g \in Members(ready) : g.kind = "connected" => g.sess # s
    <3>1. SUFFICES ASSUME NEW g \in Members(ready), g.kind = "connected", g.sess = s
                   PROVE  FALSE
      OBVIOUS
    <3>2. g \in Handler
      BY Known
    <3>3. g = [kind |-> "connected", sess |-> s, ok |-> g.ok] /\ g.ok \in BOOLEAN
      BY <3>1, <3>2 DEF Handler
    <3>4. \E i \in 1..Len(ready) : ready[i] = g
      BY DEF Members
    <3>5. ready \in Seq(Handler)
      BY Known
    <3>. QED  BY <1>2, <3>3, <3>4, <3>5 DEF ConnectCompletes, Queued
  <2>. HIDE DEF h
  <2>5. \A g \in Members(ready) : ~Same(g, h)
    BY <2>2, <2>4 DEF Same, Sends
  <2>. QED  BY <2>1, <2>2, <2>3, <2>5, CompleteQuietly DEF h
<1>3. ASSUME NEW s \in Session, RouterBreaks(s)
      PROVE  PInv'
  <2>. DEFINE h == [kind |-> "broken", sess |-> s]
  <2>1. h \in Handler /\ h.kind = "broken"
    BY DEF Handler
  <2>2. Complete(h) /\ UNCHANGED <<issued, table, conn, loggedIn, stage, outbox, held>>
    BY <1>3 DEF RouterBreaks
  <2>. HIDE DEF h
  <2>3. \A g \in Members(ready) : ~Same(g, h)
    BY <2>1 DEF Same, Sends
  <2>. QED  BY <2>1, <2>2, <2>3, CompleteQuietly
<1>4. ASSUME NEW k \in Call, RouterAnswers(k)
      PROVE  PInv'
  <2>1. PICK reply \in Reply : Complete([kind |-> "sentence", call |-> k, reply |-> reply])
    BY <1>4 DEF RouterAnswers
  <2>. DEFINE h == [kind |-> "sentence", call |-> k, reply |-> reply]
  <2>2. h \in Handler /\ h.kind = "sentence"
    BY DEF Handler
  <2>3. UNCHANGED <<issued, table, conn, loggedIn, stage, outbox, held>>
    BY <1>4 DEF RouterAnswers
  <2>. HIDE DEF h
  <2>4. \A g \in Members(ready) : ~Same(g, h)
    BY <2>2 DEF Same, Sends
  <2>. QED  BY <2>1, <2>2, <2>3, <2>4, CompleteQuietly DEF h
<1>. QED  BY <1>1, <1>2, <1>3, <1>4, ClientRequestPlaces, TransmitPlaces DEF Environment

LEMMA CreateSessionPlaces ==
  ASSUME IInv, PInv, CreateSession
  PROVE  PInv'
<1>. DEFINE r == Head(ready).req
            rest == Tail(ready)
<1>1. /\ ready # <<>> /\ r \in Session /\ r \in Request /\ Running("request")
      /\ r.op = "open" /\ ~Sends(Head(ready)) /\ table[r.client] = NoSession
      /\ issued' = issued /\ OpenApi(r)
  BY RunningFields DEF CreateSession, Session, Has, Running, Sends
<1>2. CASE ~addressParses
  <2>1. FinishWith(Respond(r, "open_failed")) /\ "open_failed" \in Code
    BY <1>1, <1>2 DEF OpenApi, Code
  <2>. QED  BY <1>1, <2>1, RespondIdle, FinishWithPlaces
<1>3. CASE addressParses
  <2>1. /\ table' = [table EXCEPT ![r.client] = r]
        /\ conn' = [conn EXCEPT ![r] = "connecting"]
        /\ ready' = rest
        /\ UNCHANGED <<loggedIn, stage, outbox, held>>
    BY <1>1, <1>3 DEF OpenApi
  <2>2. /\ rest \in Seq(Handler) /\ Apart(rest) /\ Head(ready) \in Members(ready)
        /\ \A h \in Members(rest) : h \in Members(ready) /\ ~Same(Head(ready), h)
        /\ \A h \in Members(ready) : h = Head(ready) \/ h \in Members(rest)
        /\ Underway(rest, outbox)
    BY <1>1, Taken
  <2>. HIDE DEF rest
  <2>3. \A s \in Session : conn'[s] = IF s = r THEN "connecting" ELSE conn[s]
    BY <2>1, Known
  <2>4. conn[r] = "none" /\ r.n = issued[r.client]
    BY <1>1, <2>2 DEF PInv, Unserved, Running
  <2>5. Underway(ready', outbox')
    BY <2>1, <2>2 DEF Underway
  <2>6. Staged'
    <3>1. ASSUME NEW h \in Members(ready'), h.kind = "connected"
          PROVE  conn'[h.sess] = "connecting"
      <4>1. conn[h.sess] = "connecting" /\ h.sess \in Session
        BY <2>1, <2>2, <3>1, Known DEF PInv, Staged
      <4>. QED  BY <2>3, <4>1
    <3>. QED  BY <2>1, <2>2, <3>1 DEF PInv, Staged
  <2>7. Unserved'
    <3>1. ASSUME NEW h \in Members(ready'), h.kind = "request"
          PROVE  h.req.op = "open" => conn'[h.req] = "none"
      <4>1. /\ h.req.client # r.client /\ h.req \in Request
            /\ h.req.op = "open" => conn[h.req] = "none"
        BY <1>1, <2>1, <2>2, <3>1, Known DEF Same, Running, PInv, Unserved
      <4>2. h.req.op = "open" => h.req \in Session
        BY <4>1 DEF Session
      <4>. QED  BY <2>3, <4>1, <4>2
    <3>2. \A s \in Session : conn'[s] # "none" => s.n <= issued[s.client]
      <4>1. r.n \in Nat
        BY <1>1, SessionsAssumption DEF Request
      <4>. QED  BY <2>3, <2>4, <4>1 DEF PInv, Unserved
    <3>. QED  BY <1>1, <2>1, <2>2, <3>1, <3>2 DEF PInv, Unserved
  <2>8. LoginSteps'
    <3>1. \A s \in Session : conn'[s] \in {"none", "connecting"} =>
                               conn[s] \in {"none", "connecting"}
      BY <2>3, <2>4
    <3>. QED  BY <2>1, <3>1 DEF PInv, LoginSteps
  <2>9. NoneLost'
    BY <1>1, <2>1, <2>2 DEF PInv, NoneLost
  <2>10. OpenIsHeld'
    <3>1. ASSUME NEW s \in Session, conn'[s] = "open"
          PROVE  Referenced(s)'
      <4>1. conn[s] = "open" /\ s # r
        BY <2>3, <3>1
      <4>2. table[s.client] = s => table'[s.client] = s
        BY <1>1, <2>1, <4>1, InvFacts, SessionsAssumption
      <4>3. Referenced(s)
        BY <4>1 DEF PInv, OpenIsHeld
      <4>. QED  BY <2>1, <4>2, <4>3 DEF Referenced, Pending
    <3>. QED  BY <3>1 DEF OpenIsHeld
  <2>. QED  BY <2>1, <2>2, <2>5, <2>6, <2>7, <2>8, <2>9, <2>10 DEF PInv
<1>. QED  BY <1>2, <1>3

LEMMA SendingPlaces ==
  ASSUME IInv, PInv, StartSend \/ SendDone
  PROVE  PInv'
<1>. DEFINE k == Head(ready).call
            rest == Tail(ready)
            v == IF StartSend THEN "sending" ELSE "waiting"
<1>1. ready # <<>> /\ k \in Call /\ k.sess \in Session /\ Sends(Head(ready))
  BY RunningFields, CallFields DEF StartSend, SendDone, AllowedCall, Running, Sends
<1>2. /\ stage' = [stage EXCEPT ![k] = v]
      /\ ready' = rest
      /\ conn[k.sess] = "open"
      /\ UNCHANGED <<issued, table, conn, loggedIn, held>>
      /\ v = "sending" => outbox' = [outbox EXCEPT ![k.sess] = Append(@, k)]
      /\ v = "waiting" => outbox' = outbox
  BY DEF StartSend, SendDone, Running
<1>3. /\ rest \in Seq(Handler) /\ Apart(rest) /\ Head(ready) \in Members(ready)
      /\ \A h \in Members(rest) : h \in Members(ready) /\ ~Same(Head(ready), h)
      /\ \A h \in Members(ready) : h = Head(ready) \/ h \in Members(rest)
      /\ Underway(rest, outbox)
  BY <1>1, Taken
<1>. HIDE DEF rest
<1>4. stage[k] \in {"posted", "sending"}
  BY <1>1, <1>3 DEF PInv, Staged, Sends
<1>5. v \in {"sending", "waiting"}
  OBVIOUS
<1>. HIDE DEF v
<1>6. \A x \in Call : stage'[x] = IF x = k THEN v ELSE stage[x]
  BY <1>2, Known
<1>7. \A h \in Members(rest) : Sends(h) => h.call # k
  BY <1>1, <1>3 DEF Same
<1>8. \A s \in Session : k \notin Members(outbox[s])
  BY <1>1, <1>3 DEF PInv, Underway
<1>9. /\ outbox'[k.sess] \in {outbox[k.sess], Append(outbox[k.sess], k)}
      /\ \A s \in Session : s # k.sess => outbox'[s] = outbox[s]
      /\ v = "sending" => k \in Members(outbox'[k.sess])
      /\ v = "waiting" => outbox' = outbox
      /\ outbox[k.sess] \in Seq(Call)
  <2>1. outbox \in [Session -> Seq(Call)]
    BY Known
  <2>2. CASE v = "sending"
    <3>1. outbox'[k.sess] = Append(outbox[k.sess], k) /\ outbox[k.sess] \in Seq(Call)
      BY <1>1, <1>2, <2>1, <2>2
    <3>2. k \in Members(Append(outbox[k.sess], k))
      <4>. DEFINE b == outbox[k.sess]
      <4>1. b \in Seq(Call)
        BY <3>1
      <4>. HIDE DEF b, k
      <4>2. /\ Len(Append(b, k)) = Len(b) + 1 /\ Len(b) \in Nat
            /\ Append(b, k)[Len(b) + 1] = k
        BY <1>1, <4>1
      <4>3. k \in Members(Append(b, k))
        BY <4>2 DEF Members
      <4>. QED  BY <4>3 DEF b
    <3>. QED  BY <1>2, <2>1, <2>2, <3>1, <3>2
  <2>3. CASE v = "waiting"
    BY <1>1, <1>2, <2>1, <2>3
  <2>. QED  BY <1>5, <2>2, <2>3
<1>10. /\ \A x \in Members(outbox'[k.sess]) :
            x \in Members(outbox[k.sess]) \/ (x = k /\ v = "sending")
       /\ \A x \in Members(outbox[k.sess]) : x \in Members(outbox'[k.sess])
       /\ \A i, j \in 1..Len(outbox'[k.sess]) :
            outbox'[k.sess][i] = outbox'[k.sess][j] => i = j
  <2>. DEFINE b == outbox[k.sess]
  <2>1. /\ b \in Seq(Call) /\ \A i, j \in 1..Len(b) : b[i] = b[j] => i = j
        /\ \A i \in 1..Len(b) : b[i] # k
    BY <1>1, <1>8, <1>9 DEF PInv, Underway, Members
  <2>2. CASE v = "waiting"
    BY <1>9, <2>1, <2>2
  <2>3. CASE v = "sending"
    <3>1. outbox'[k.sess] = Append(b, k)
      BY <1>1, <1>2, <2>3, Known
    <3>. HIDE DEF b
    <3>2. /\ Len(Append(b, k)) = Len(b) + 1 /\ Len(b) \in Nat
          /\ \A i \in 1..Len(b) : Append(b, k)[i] = b[i]
          /\ Append(b, k)[Len(b) + 1] = k
      BY <1>1, <2>1
    <3>3. \A i \in 1..(Len(b) + 1) : i \in 1..Len(b) \/ i = Len(b) + 1
      BY <3>2
    <3>4. \A i, j \in 1..Len(Append(b, k)) : Append(b, k)[i] = Append(b, k)[j] => i = j
      BY <2>1, <3>2, <3>3
    <3>5. \A x \in Members(Append(b, k)) : x \in Members(b) \/ x = k
      BY <3>2, <3>3 DEF Members
    <3>6. \A x \in Members(b) : x \in Members(Append(b, k))
      BY <3>2 DEF Members
    <3>. QED  BY <2>3, <3>1, <3>4, <3>5, <3>6 DEF b
  <2>. QED  BY <1>5, <2>2, <2>3
<1>11. Underway(ready', outbox')
  <2>1. ASSUME NEW s \in Session
        PROVE  /\ \A i, j \in 1..Len(outbox'[s]) : outbox'[s][i] = outbox'[s][j] => i = j
               /\ \A x \in Members(outbox'[s]) :
                    /\ x.sess = s
                    /\ \A h \in Members(ready') : Sends(h) => h.call # x
    <3>1. CASE s = k.sess
      <4>1. \A x \in Members(outbox[s]) :
              x.sess = s /\ \A h \in Members(rest) : Sends(h) => h.call # x
        BY <1>3 DEF Underway
      <4>2. \A x \in Members(outbox'[s]) : x \in Members(outbox[s]) \/ x = k
        BY <1>10, <3>1
      <4>3. \A i, j \in 1..Len(outbox'[s]) : outbox'[s][i] = outbox'[s][j] => i = j
        BY <1>10, <3>1
      <4>4. \A x \in Members(outbox'[s]) :
              x.sess = s /\ \A h \in Members(rest) : Sends(h) => h.call # x
        BY <1>7, <3>1, <4>1, <4>2
      <4>. QED  BY <1>2, <4>3, <4>4
    <3>2. CASE s # k.sess
      <4>1. /\ \A i, j \in 1..Len(outbox[s]) : outbox[s][i] = outbox[s][j] => i = j
            /\ \A x \in Members(outbox[s]) :
                 /\ x.sess = s
                 /\ \A h \in Members(rest) : Sends(h) => h.call # x
        BY <1>3, Zenon DEF Underway
      <4>2. outbox'[s] = outbox[s]
        BY <1>9, <3>2
      <4>. QED  BY <1>2, <4>1, <4>2
    <3>. QED  BY <3>1, <3>2
  <2>. QED  BY <2>1 DEF Underway
<1>12. Staged'
  <2>1. ASSUME NEW h \in Members(ready')
        PROVE  /\ h.kind = "post" => stage'[h.call] = "posted"
               /\ h.kind = "sent" => stage'[h.call] = "sending"
               /\ h.kind = "connected" => conn'[h.sess] = "connecting"
    <3>1. h \in Members(rest) /\ h \in Members(ready)
      BY <1>2, <1>3
    <3>2. Sends(h) => h.call # k /\ h.call \in Call
      BY <1>7, <3>1, Known
    <3>. QED  BY <1>2, <1>6, <3>1, <3>2 DEF PInv, Staged, Sends
  <2>2. ASSUME NEW s \in Session, NEW x \in Members(outbox'[s])
        PROVE  stage'[x] = "sending"
    <3>1. CASE x \in Members(outbox[s])
      <4>1. x # k /\ x \in Call /\ stage[x] = "sending"
        BY <1>8, <3>1, Known DEF PInv, Staged
      <4>. QED  BY <1>6, <4>1
    <3>2. CASE x = k /\ v = "sending"
      BY <1>1, <1>6, <3>2
    <3>. QED  BY <1>9, <1>10, <2>2, <3>1, <3>2
  <2>. QED  BY <2>1, <2>2 DEF Staged
<1>13. Unserved'
  <2>1. \A x \in Call : stage'[x] # "none" <=> stage[x] # "none"
    BY <1>4, <1>5, <1>6
  <2>2. \A h \in Members(ready') : h \in Members(ready)
    BY <1>2, <1>3
  <2>3. \A x \in Call : stage[x] = "none" => stage'[x] = "none"
    BY <2>1
  <2>. QED  BY <1>2, <2>1, <2>2, <2>3 DEF PInv, Unserved
<1>14. LoginSteps'
  <2>1. v \in Stage /\ v # "none" /\ Pending(k)
    BY <1>4, <1>5 DEF Stage, Pending
  <2>. QED  BY <1>1, <1>2, <2>1, LoginGoesOn DEF LoginSteps
<1>15. NoneLost'
  <2>1. SUFFICES ASSUME NEW x \in Call, stage'[x] \in {"posted", "sending"}
                 PROVE  \/ x \in Members(outbox'[x.sess])
                        \/ \E h \in Members(ready') : Sends(h) /\ h.call = x
    BY DEF NoneLost
  <2>2. CASE x = k
    <3>1. v = "sending"
      BY <1>5, <1>6, <2>1, <2>2
    <3>. QED  BY <1>9, <2>2, <3>1
  <2>3. CASE x # k
    <3>1. \/ x \in Members(outbox[x.sess])
          \/ \E h \in Members(ready) : Sends(h) /\ h.call = x
      BY <1>6, <2>1, <2>3 DEF PInv, NoneLost
    <3>2. x.sess \in Session
      BY CallFields
    <3>3. x \in Members(outbox[x.sess]) => x \in Members(outbox'[x.sess])
      BY <1>9, <1>10, <3>2
    <3>. QED  BY <1>2, <1>3, <2>3, <3>1, <3>3
  <2>. QED  BY <2>2, <2>3
<1>16. OpenIsHeld'
  <2>1. \A x \in Call : Pending(x) => Pending(x)'
    BY <1>5, <1>6 DEF Pending
  <2>2. ASSUME NEW s \in Session, Referenced(s)
        PROVE  Referenced(s)'
    <3>1. LoginCall(s, "login1") \in Call /\ LoginCall(s, "login2") \in Call
      BY LoginCalls
    <3>. QED  BY <1>2, <2>1, <2>2, <3>1 DEF Referenced
  <2>. QED  BY <1>2, <2>2 DEF PInv, OpenIsHeld
<1>. QED  BY <1>2, <1>3, <1>11, <1>12, <1>13, <1>14, <1>15, <1>16 DEF PInv

\* How a session loses what holds it.
LEMMA LetGo ==
  ASSUME NEW s \in Session, Referenced(s), ~Referenced(s)'
  PROVE  \/ table[s.client] = s /\ table'[s.client] # s
         \/ \E m \in Command : held[m] = s /\ held'[m] # s
         \/ \E step \in {"login1", "login2"} :
              /\ stage[LoginCall(s, step)] \notin {"none", "done"}
              /\ stage'[LoginCall(s, step)] \in {"none", "done"}
  BY DEF Referenced, Pending

LEMMA RunCommandPlaces ==
  ASSUME IInv, PInv, RunCommand
  PROVE  PInv'
<1>. DEFINE r == Head(ready).req
            rest == Tail(ready)
            k == UserCall(table[r.client], r)
            after == IF r.op = "badsend" THEN Respond(r, "invalid_request")
                     ELSE <<[kind |-> "post", call |-> k]>>
            z == held[CommandOf(r.op)]
<1>1. /\ ready # <<>> /\ r \in Request /\ r.client \in Clients /\ Running("request")
      /\ r.op \in {"send", "badsend", "load"} /\ ~Sends(Head(ready))
      /\ Head(ready).kind = "request"
  BY RunningFields DEF RunCommand, Request, Running, Sends
<1>2. table[r.client] \in Session /\ table[r.client].client = r.client
  BY <1>1 DEF RunCommand, HasReady, Has, IsReady, IInv, StateOK, OwnEntry
<1>3. r.op # "badsend" => k \in Call /\ k.step = "user" /\ k.req = r
  BY <1>1, <1>2 DEF Call, UserCall
<1>4. /\ Finish(conn, outbox, <<>>, after)
      /\ held' = [held EXCEPT ![CommandOf(r.op)] = table[r.client]]
      /\ stage' = IF r.op = "badsend" THEN stage ELSE [stage EXCEPT ![k] = "posted"]
      /\ UNCHANGED <<table, issued, loggedIn>>
  BY DEF RunCommand
<1>. HIDE DEF k
<1>5. /\ \A h \in Members(rest) : h \in Members(ready)
      /\ \A h \in Members(ready) : h = Head(ready) \/ h \in Members(rest)
      /\ Underway(rest, outbox) /\ Head(ready) \in Members(ready)
  BY <1>1, Taken
<1>. HIDE DEF rest
<1>6. r.op # "badsend" => stage[k] = "none"
  BY <1>1, <1>3, <1>5 DEF PInv, Unserved
<1>7. \A x \in Call : \/ stage'[x] = stage[x]
                      \/ r.op # "badsend" /\ x = k /\ stage'[x] = "posted"
  BY <1>4, Known
<1>8. stage' \in [Call -> Stage]
  BY <1>3, <1>4, Known DEF Stage
<1>9. /\ \A h \in Members(ready) : Sends(h) =>
           h.call \in Call /\ stage[h.call] \in {"posted", "sending"}
      /\ \A s \in Session : \A x \in Members(outbox[s]) : x \in Call /\ stage[x] = "sending"
  BY Known DEF PInv, Staged, Sends
<1>10. /\ after \in Seq(Handler) /\ Apart(after)
       /\ \A h \in Members(after) :
            \/ h.kind = "respond"
            \/ h.kind = "post" /\ h.call = k /\ r.op # "badsend"
       /\ r.op # "badsend" => \E h \in Members(after) : Sends(h) /\ h.call = k
  <2>1. CASE r.op = "badsend"
    <3>1. after \in Seq(Handler) /\ Idle(after)
      BY <1>1, <2>1, RespondIdle DEF Code
    <3>. HIDE DEF after
    <3>. QED  BY <2>1, <3>1, IdleFacts
  <2>2. CASE r.op # "badsend"
    <3>1. [kind |-> "post", call |-> k] \in Handler
      BY <1>3, <2>2 DEF Handler
    <3>. QED  BY <2>2, <3>1, One DEF Sends
  <2>. QED  BY <2>1, <2>2
<1>. HIDE DEF after
<1>11. \A g \in Members(rest), h \in Members(after) : ~Same(g, h)
  BY <1>5, <1>6, <1>9, <1>10 DEF Same, Sends
<1>12. Underway(after, outbox)
  BY <1>6, <1>9, <1>10 DEF PInv, Underway, Sends
<1>13. \A h \in Members(rest) : Sends(h) => stage'[h.call] = stage[h.call]
  BY <1>5, <1>6, <1>7, <1>9
<1>14. \A h \in Members(after) :
         h.kind = "respond" \/ (h.kind = "post" /\ stage'[h.call] = "posted")
  BY <1>3, <1>6, <1>7, <1>10, <1>4, Known
<1>15. ASSUME NEW s \in Session
       PROVE  /\ \A x \in Members(outbox[s]) : stage'[x] = "sending"
              /\ conn[s] \in {"none", "connecting"} => stage'[LoginCall(s, "login1")] = "none"
              /\ stage'[LoginCall(s, "login2")] # "none" =>
                   stage'[LoginCall(s, "login1")] = "done"
              /\ s \in loggedIn' => stage'[LoginCall(s, "login2")] = "done"
              /\ \A step \in {"login1", "login2"} :
                   stage'[LoginCall(s, step)] = stage[LoginCall(s, step)]
  <2>1. \A x \in Members(outbox[s]) : stage'[x] = "sending"
    BY <1>6, <1>7, <1>9
  <2>2. \A step \in {"login1", "login2"} :
          stage'[LoginCall(s, step)] = stage[LoginCall(s, step)]
    BY <1>3, <1>7, LoginCalls
  <2>. QED  BY <1>4, <2>1, <2>2 DEF PInv, LoginSteps
<1>16. \A x \in Call : x.step = "user" /\ stage[x] = "none" /\ stage'[x] # "none" =>
         Running("request") /\ x.req = r
  BY <1>1, <1>3, <1>7
<1>17. \A x \in Call : stage'[x] \in {"posted", "sending"} =>
         \/ x \in Members(outbox[x.sess])
         \/ \E h \in Members(rest) \cup Members(<<>>) \cup Members(after) :
              Sends(h) /\ h.call = x
  BY <1>1, <1>5, <1>7, <1>10 DEF PInv, NoneLost
<1>18. ASSUME NEW s \in loggedIn, conn[s] = "open", ~Referenced(s)'
       PROVE  s = z
  <2>1. s \in Session
    BY InvFacts
  <2>2. Referenced(s)
    BY <1>18, <2>1 DEF PInv, OpenIsHeld
  <2>3. \A m \in Command : m # CommandOf(r.op) => held'[m] = held[m]
    BY <1>4, InvFacts
  <2>. QED  BY <1>4, <1>15, <1>18, <2>1, <2>2, <2>3, LetGo
<1>19. <<>> \in Seq(Handler) /\ Apart(<<>>) /\ Members(<<>>) = {}
  BY None
<1>20. Underway(<<>>, outbox)
  BY <1>19 DEF PInv, Underway
<1>. HIDE DEF z, r
<1>21. /\ outbox \in [Session -> Seq(AllowedCall)] /\ conn \in [Session -> ConnState]
  BY InvFacts
<1>22. Fits(outbox, <<>>, after)
  BY <1>5, <1>11, <1>12, <1>19, <1>20 DEF Fits, rest
<1>23. Tells(conn, outbox, <<>>, after)
  <2>1. \A h \in Members(rest) : h.kind = "connected" => conn[h.sess] = conn[h.sess]
    OBVIOUS
  <2>. QED  BY <1>13, <1>14, <1>15, <1>16, <1>17, <1>19, <2>1 DEF Tells, rest, r
<1>24. InOrder(conn)
  BY <1>15 DEF InOrder
<1>. QED
  BY <1>1, <1>4, <1>8, <1>10, <1>18, <1>19, <1>21, <1>22, <1>23, <1>24, FinishKeeps

\* A handler leaves the sockets as they are, or closes one and posts the ends
\* of its send operations.
Closing(sockets, sends, aborts) ==
  \/ sockets = conn /\ sends = outbox /\ aborts = <<>>
  \/ \E s \in Session :
       /\ conn[s] = "open"
       /\ sockets = [conn EXCEPT ![s] = "closed"]
       /\ sends = [outbox EXCEPT ![s] = <<>>]
       /\ aborts = Abort(outbox[s])

\* What is left of the send operations then.
Ended(sockets, sends, aborts) ==
  /\ sockets \in [Session -> ConnState]
  /\ sends \in [Session -> Seq(AllowedCall)]
  /\ aborts \in Seq(Handler) /\ Apart(aborts)
  /\ \A h \in Members(aborts) :
       /\ h.kind = "sent" /\ stage[h.call] = "sending"
       /\ \E s \in Session : h.call \in Members(outbox[s])
       /\ \A s \in Session : h.call \notin Members(sends[s])
  /\ \A s \in Session :
       /\ \/ sockets[s] = conn[s]
          \/ sockets[s] = "closed" /\ conn[s] = "open"
       /\ \A k \in Members(sends[s]) : k \in Members(outbox[s])
       /\ \A k \in Members(outbox[s]) :
            \/ k \in Members(sends[s])
            \/ \E h \in Members(aborts) : Sends(h) /\ h.call = k
       /\ \A i, j \in 1..Len(sends[s]) : sends[s][i] = sends[s][j] => i = j

LEMMA ClosingFacts ==
  ASSUME IInv, PInv, ready # <<>>,
         NEW sockets, NEW sends, NEW aborts, Closing(sockets, sends, aborts)
  PROVE  Ended(sockets, sends, aborts)
<1>0. /\ conn \in [Session -> ConnState]
      /\ outbox \in [Session -> Seq(AllowedCall)] /\ outbox \in [Session -> Seq(Call)]
  BY InvFacts, Known
<1>1. CASE sockets = conn /\ sends = outbox /\ aborts = <<>>
  <2>1. aborts \in Seq(Handler) /\ Members(aborts) = {} /\ Apart(aborts)
    BY <1>1, None
  <2>. QED  BY <1>0, <1>1, <2>1 DEF PInv, Underway, Ended
<1>2. ASSUME NEW s \in Session, conn[s] = "open",
             sockets = [conn EXCEPT ![s] = "closed"],
             sends = [outbox EXCEPT ![s] = <<>>],
             aborts = Abort(outbox[s])
      PROVE  /\ sockets \in [Session -> ConnState]
             /\ sends \in [Session -> Seq(AllowedCall)]
             /\ aborts \in Seq(Handler) /\ Apart(aborts)
             /\ \A h \in Members(aborts) :
                  h.kind = "sent" /\ h.call \in Members(outbox[s])
             /\ \A k \in Members(outbox[s]) :
                  \E h \in Members(aborts) : Sends(h) /\ h.call = k
             /\ sockets[s] = "closed" /\ Members(sends[s]) = {} /\ Len(sends[s]) = 0
             /\ \A x \in Session : x # s => sockets[x] = conn[x] /\ sends[x] = outbox[x]
  <2>1. outbox[s] \in Seq(Call)
        /\ \A i, j \in 1..Len(outbox[s]) : outbox[s][i] = outbox[s][j] => i = j
    BY <1>0 DEF PInv, Underway
  <2>2. sockets \in [Session -> ConnState] /\ sends \in [Session -> Seq(AllowedCall)]
    BY <1>0, <1>2 DEF ConnState
  <2>3. sends[s] = <<>> /\ \A x \in Session : x # s => sends[x] = outbox[x]
    BY <1>0, <1>2
  <2>. QED  BY <1>0, <1>2, <2>1, <2>2, <2>3, AbortFacts, None
<1>3. ASSUME NEW s \in Session, conn[s] = "open",
             sockets = [conn EXCEPT ![s] = "closed"],
             sends = [outbox EXCEPT ![s] = <<>>],
             aborts = Abort(outbox[s])
      PROVE  /\ \A h \in Members(aborts) :
                  /\ h.kind = "sent" /\ stage[h.call] = "sending"
                  /\ h.call \in Members(outbox[s])
                  /\ \A x \in Session : h.call \notin Members(sends[x])
             /\ \A x \in Session :
                  /\ \A k \in Members(sends[x]) : k \in Members(outbox[x])
                  /\ \A k \in Members(outbox[x]) :
                       \/ k \in Members(sends[x])
                       \/ \E h \in Members(aborts) : Sends(h) /\ h.call = k
                  /\ \A i, j \in 1..Len(sends[x]) : sends[x][i] = sends[x][j] => i = j
  <2>1. \A x \in Session : \A k \in Members(outbox[x]) : k.sess = x /\ stage[k] = "sending"
    BY DEF PInv, Underway, Staged
  <2>2. \A h \in Members(aborts) : h.kind = "sent" /\ h.call \in Members(outbox[s])
    BY <1>2, <1>3
  <2>3. \A h \in Members(aborts), x \in Session : h.call \notin Members(sends[x])
    <3>1. SUFFICES ASSUME NEW h \in Members(aborts), NEW x \in Session,
                          h.call \in Members(sends[x])
                   PROVE  FALSE
      OBVIOUS
    <3>2. CASE x = s
      BY <1>2, <1>3, <3>1, <3>2
    <3>3. CASE x # s
      <4>1. sends[x] = outbox[x]
        BY <1>2, <1>3, <3>3
      <4>2. h.call.sess = x /\ h.call.sess = s
        BY <2>1, <2>2, <3>1, <4>1
      <4>. QED  BY <3>3, <4>2
    <3>. QED  BY <3>2, <3>3
  <2>4. ASSUME NEW x \in Session
        PROVE  /\ \A k \in Members(sends[x]) : k \in Members(outbox[x])
               /\ \A k \in Members(outbox[x]) :
                    \/ k \in Members(sends[x])
                    \/ \E h \in Members(aborts) : Sends(h) /\ h.call = k
               /\ \A i, j \in 1..Len(sends[x]) : sends[x][i] = sends[x][j] => i = j
    <3>1. CASE x = s
      <4>1. /\ Members(sends[x]) = {} /\ 1..Len(sends[x]) = {}
            /\ \A k \in Members(outbox[x]) : \E h \in Members(aborts) : Sends(h) /\ h.call = k
        <5>1. /\ Members(sends[s]) = {} /\ Len(sends[s]) = 0
              /\ \A k \in Members(outbox[s]) :
                   \E h \in Members(aborts) : Sends(h) /\ h.call = k
          BY <1>2, <1>3
        <5>. QED  BY <3>1, <5>1
      <4>. QED  BY <4>1
    <3>2. CASE x # s
      <4>1. sends[x] = outbox[x]
        BY <1>2, <1>3, <3>2
      <4>2. \A i, j \in 1..Len(outbox[x]) : outbox[x][i] = outbox[x][j] => i = j
        BY DEF PInv, Underway
      <4>. QED  BY <4>1, <4>2
    <3>. QED  BY <3>1, <3>2
  <2>. QED  BY <2>1, <2>2, <2>3, <2>4
<1>4. CASE ~(sockets = conn /\ sends = outbox /\ aborts = <<>>)
  <2>1. PICK s \in Session :
          /\ conn[s] = "open"
          /\ sockets = [conn EXCEPT ![s] = "closed"]
          /\ sends = [outbox EXCEPT ![s] = <<>>]
          /\ aborts = Abort(outbox[s])
    BY <1>4 DEF Closing
  <2>2. /\ sockets \in [Session -> ConnState]
        /\ sends \in [Session -> Seq(AllowedCall)]
        /\ aborts \in Seq(Handler) /\ Apart(aborts)
        /\ sockets[s] = "closed"
        /\ \A x \in Session : x # s => sockets[x] = conn[x]
    BY <1>2, <2>1
  <2>3. /\ \A h \in Members(aborts) :
             /\ h.kind = "sent" /\ stage[h.call] = "sending"
             /\ h.call \in Members(outbox[s])
             /\ \A x \in Session : h.call \notin Members(sends[x])
        /\ \A x \in Session :
             /\ \A k \in Members(sends[x]) : k \in Members(outbox[x])
             /\ \A k \in Members(outbox[x]) :
                  \/ k \in Members(sends[x])
                  \/ \E h \in Members(aborts) : Sends(h) /\ h.call = k
             /\ \A i, j \in 1..Len(sends[x]) : sends[x][i] = sends[x][j] => i = j
    BY <1>3, <2>1
  <2>4. \A x \in Session : sockets[x] = conn[x] \/ (sockets[x] = "closed" /\ conn[x] = "open")
    BY <2>1, <2>2
  <2>. QED  BY <2>2, <2>3, <2>4 DEF Ended
<1>. QED  BY <1>1, <1>4

\* The handler at the head is that of no callback, or it is the end of one.
HeadEnds ==
  \/ stage' = stage /\ ~Sends(Head(ready))
  \/ \E k \in Call :
       /\ Pending(k)
       /\ stage' = [stage EXCEPT ![k] = "done"]
       /\ IF Sends(Head(ready)) THEN k = Head(ready).call ELSE stage[k] = "waiting"

LEMMA HeadEndsFacts ==
  ASSUME IInv, PInv, ready # <<>>, HeadEnds
  PROVE  /\ stage' \in [Call -> Stage]
         /\ \A x \in Call :
              /\ stage'[x] \in {"posted", "sending"} => stage[x] = stage'[x]
              /\ stage[x] = "none" => stage'[x] = "none"
         /\ \A h \in Members(Tail(ready)) : Sends(h) => stage'[h.call] = stage[h.call]
         /\ \A s \in Session : \A x \in Members(outbox[s]) : stage'[x] = "sending"
         /\ \A x \in Call : stage'[x] \in {"posted", "sending"} =>
              \/ x \in Members(outbox[x.sess])
              \/ \E h \in Members(Tail(ready)) : Sends(h) /\ h.call = x
         /\ \A s \in Session :
              /\ conn[s] \in {"none", "connecting"} => stage'[LoginCall(s, "login1")] = "none"
              /\ stage'[LoginCall(s, "login2")] # "none" =>
                   stage'[LoginCall(s, "login1")] = "done"
              /\ s \in loggedIn => stage'[LoginCall(s, "login2")] = "done"
              /\ s \in loggedIn => \A step \in {"login1", "login2"} :
                   stage'[LoginCall(s, step)] = stage[LoginCall(s, step)]
<1>. DEFINE rest == Tail(ready)
<1>1. /\ Head(ready) \in Members(ready)
      /\ \A h \in Members(rest) : h \in Members(ready) /\ ~Same(Head(ready), h)
      /\ \A h \in Members(ready) : h = Head(ready) \/ h \in Members(rest)
      /\ Underway(ready, outbox)
  BY Taken DEF PInv
<1>. HIDE DEF rest
<1>2. /\ \A h \in Members(ready) : Sends(h) =>
           h.call \in Call /\ stage[h.call] \in {"posted", "sending"}
      /\ \A s \in Session : \A x \in Members(outbox[s]) : x \in Call /\ stage[x] = "sending"
      /\ stage \in [Call -> Stage]
      /\ \A x \in Call : stage[x] \in {"posted", "sending"} =>
           \/ x \in Members(outbox[x.sess])
           \/ \E h \in Members(ready) : Sends(h) /\ h.call = x
  BY Known DEF PInv, Staged, Sends, NoneLost
<1>3. CASE stage' = stage /\ ~Sends(Head(ready))
  <2>1. \A s \in Session :
          /\ conn[s] \in {"none", "connecting"} => stage[LoginCall(s, "login1")] = "none"
          /\ stage[LoginCall(s, "login2")] # "none" => stage[LoginCall(s, "login1")] = "done"
          /\ s \in loggedIn => stage[LoginCall(s, "login2")] = "done"
    BY DEF PInv, LoginSteps
  <2>2. \A x \in Call : stage'[x] \in {"posted", "sending"} =>
          \/ x \in Members(outbox[x.sess])
          \/ \E h \in Members(rest) : Sends(h) /\ h.call = x
    BY <1>1, <1>2, <1>3
  <2>. QED  BY <1>2, <1>3, <2>1, <2>2 DEF rest
<1>4. ASSUME NEW k \in Call, Pending(k), stage' = [stage EXCEPT ![k] = "done"],
             IF Sends(Head(ready)) THEN k = Head(ready).call ELSE stage[k] = "waiting"
      PROVE  /\ stage' \in [Call -> Stage]
             /\ \A x \in Call :
                  /\ stage'[x] \in {"posted", "sending"} => stage[x] = stage'[x]
                  /\ stage[x] = "none" => stage'[x] = "none"
             /\ \A h \in Members(rest) : Sends(h) => stage'[h.call] = stage[h.call]
             /\ \A s \in Session : \A x \in Members(outbox[s]) : stage'[x] = "sending"
             /\ \A x \in Call : stage'[x] \in {"posted", "sending"} =>
                  \/ x \in Members(outbox[x.sess])
                  \/ \E h \in Members(rest) : Sends(h) /\ h.call = x
             /\ \A s \in Session :
                  /\ conn[s] \in {"none", "connecting"} =>
                       stage'[LoginCall(s, "login1")] = "none"
                  /\ stage'[LoginCall(s, "login2")] # "none" =>
                       stage'[LoginCall(s, "login1")] = "done"
                  /\ s \in loggedIn => stage'[LoginCall(s, "login2")] = "done"
                  /\ s \in loggedIn => \A step \in {"login1", "login2"} :
                       stage'[LoginCall(s, step)] = stage[LoginCall(s, step)]
  <2>0. "done" \in Stage
    BY DEF Stage
  <2>1. /\ stage' \in [Call -> Stage]
        /\ stage'[k] = "done"
        /\ \A x \in Call : x # k => stage'[x] = stage[x]
    BY <1>2, <1>4, <2>0
  <2>2. \A h \in Members(rest) : Sends(h) => h.call # k
    BY <1>1, <1>2, <1>4 DEF Same
  <2>3. \A s \in Session : \A x \in Members(outbox[s]) : x # k
    BY <1>1, <1>2, <1>4 DEF Underway
  <2>4. ASSUME NEW x \in Call, stage'[x] \in {"posted", "sending"}
        PROVE  \/ x \in Members(outbox[x.sess])
               \/ \E h \in Members(rest) : Sends(h) /\ h.call = x
    <3>1. x # k /\ stage[x] \in {"posted", "sending"}
      BY <2>1, <2>4
    <3>. QED  BY <1>1, <1>2, <1>4, <3>1
  <2>5. ASSUME NEW s \in Session
        PROVE  /\ conn[s] \in {"none", "connecting"} =>
                    stage'[LoginCall(s, "login1")] = "none"
               /\ stage'[LoginCall(s, "login2")] # "none" =>
                    stage'[LoginCall(s, "login1")] = "done"
               /\ s \in loggedIn => stage'[LoginCall(s, "login2")] = "done"
    BY <1>4, <2>0, LoginGoesOn
  <2>6. ASSUME NEW s \in loggedIn, NEW step \in {"login1", "login2"}
        PROVE  stage'[LoginCall(s, step)] = stage[LoginCall(s, step)]
    <3>1. s \in Session
      BY InvFacts
    <3>2. stage[LoginCall(s, step)] = "done" /\ LoginCall(s, step) \in Call
      BY <3>1, LoginCalls DEF PInv, LoginSteps
    <3>. QED  BY <2>1, <3>2
  <2>7. \A x \in Call :
          /\ stage'[x] \in {"posted", "sending"} => stage[x] = stage'[x]
          /\ stage[x] = "none" => stage'[x] = "none"
    BY <1>4, <2>1 DEF Pending
  <2>8. \A h \in Members(rest) : Sends(h) => stage'[h.call] = stage[h.call]
    BY <1>1, <1>2, <2>1, <2>2
  <2>9. \A s \in Session : \A x \in Members(outbox[s]) : stage'[x] = "sending"
    BY <1>2, <2>1, <2>3
  <2>. QED  BY <2>1, <2>4, <2>5, <2>6, <2>7, <2>8, <2>9
<1>5. CASE ~(stage' = stage /\ ~Sends(Head(ready)))
  <2>1. PICK k \in Call :
          /\ Pending(k)
          /\ stage' = [stage EXCEPT ![k] = "done"]
          /\ IF Sends(Head(ready)) THEN k = Head(ready).call ELSE stage[k] = "waiting"
    BY <1>5 DEF HeadEnds
  <2>. QED  BY <1>4, <2>1 DEF rest
<1>. QED  BY <1>3, <1>5

\* A handler that ends a session or a callback, and posts answers to clients.
LEMMA EndKeeps ==
  ASSUME IInv, PInv, ready # <<>>, HeadEnds,
         NEW sockets, NEW sends, NEW aborts, Closing(sockets, sends, aborts),
         NEW x \in Seq(Handler), Idle(x),
         NEW y \in Seq(Handler), Idle(y),
         NEW before, NEW after,
         \/ before = x /\ after = y \o aborts
         \/ before = aborts \o x /\ after = y,
         Finish(sockets, sends, before, after),
         issued' = issued, held' = held,
         \A s \in Session : s \in loggedIn' =>
           s \in loggedIn \/ stage'[LoginCall(s, "login2")] = "done",
         NEW c \in Clients, table' = table \/ table' = Erase(c)
  PROVE  PInv'
<1>. DEFINE rest == Tail(ready)
<1>1. /\ \A h \in Members(rest) : h \in Members(ready)
      /\ Underway(rest, outbox)
  BY Taken
<1>. HIDE DEF rest
<1>2. /\ sockets \in [Session -> ConnState]
      /\ sends \in [Session -> Seq(AllowedCall)]
      /\ aborts \in Seq(Handler) /\ Apart(aborts)
      /\ \A h \in Members(aborts) :
           /\ h.kind = "sent" /\ stage[h.call] = "sending"
           /\ \E s \in Session : h.call \in Members(outbox[s])
           /\ \A s \in Session : h.call \notin Members(sends[s])
      /\ \A s \in Session :
           /\ \/ sockets[s] = conn[s]
              \/ sockets[s] = "closed" /\ conn[s] = "open"
           /\ \A k \in Members(sends[s]) : k \in Members(outbox[s])
           /\ \A k \in Members(outbox[s]) :
                \/ k \in Members(sends[s])
                \/ \E h \in Members(aborts) : Sends(h) /\ h.call = k
           /\ \A i, j \in 1..Len(sends[s]) : sends[s][i] = sends[s][j] => i = j
  <2>1. Ended(sockets, sends, aborts)
    BY ClosingFacts
  <2>. QED  BY <2>1 DEF Ended
<1>3. /\ Apart(x) /\ Apart(y)
      /\ \A h \in Members(x) \cup Members(y) : ~Sends(h) /\ h.kind = "respond"
      /\ \A g, h : h \in Members(x) \cup Members(y) => ~Same(g, h) /\ ~Same(h, g)
  BY IdleFacts
<1>4. /\ before \in Seq(Handler) /\ Apart(before)
      /\ after \in Seq(Handler) /\ Apart(after)
      /\ \A h \in Members(before) \cup Members(after) :
           h \in Members(aborts) \/ h.kind = "respond"
      /\ \A h \in Members(aborts) : h \in Members(before) \cup Members(after)
      /\ \A g \in Members(before), h \in Members(after) : ~Same(g, h)
  <2>1. CASE before = x /\ after = y \o aborts
    <3>1. /\ y \o aborts \in Seq(Handler) /\ Apart(y \o aborts)
          /\ \A h \in Members(y \o aborts) : h \in Members(y) \/ h \in Members(aborts)
          /\ \A h \in Members(aborts) : h \in Members(y \o aborts)
      BY <1>2, <1>3, MembersConcat, ApartConcat
    <3>. QED  BY <1>3, <2>1, <3>1
  <2>2. CASE before = aborts \o x /\ after = y
    <3>1. /\ aborts \o x \in Seq(Handler) /\ Apart(aborts \o x)
          /\ \A h \in Members(aborts \o x) : h \in Members(aborts) \/ h \in Members(x)
          /\ \A h \in Members(aborts) : h \in Members(aborts \o x)
      BY <1>2, <1>3, MembersConcat, ApartConcat
    <3>. QED  BY <1>3, <2>2, <3>1
  <2>. QED  BY <2>1, <2>2
<1>5. /\ stage' \in [Call -> Stage]
      /\ \A k \in Call :
           /\ stage'[k] \in {"posted", "sending"} => stage[k] = stage'[k]
           /\ stage[k] = "none" => stage'[k] = "none"
      /\ \A h \in Members(rest) : Sends(h) => stage'[h.call] = stage[h.call]
      /\ \A s \in Session : \A k \in Members(outbox[s]) : stage'[k] = "sending"
      /\ \A k \in Call : stage'[k] \in {"posted", "sending"} =>
           \/ k \in Members(outbox[k.sess])
           \/ \E h \in Members(rest) : Sends(h) /\ h.call = k
      /\ \A s \in Session :
           /\ conn[s] \in {"none", "connecting"} => stage'[LoginCall(s, "login1")] = "none"
           /\ stage'[LoginCall(s, "login2")] # "none" =>
                stage'[LoginCall(s, "login1")] = "done"
           /\ s \in loggedIn => stage'[LoginCall(s, "login2")] = "done"
           /\ s \in loggedIn => \A step \in {"login1", "login2"} :
                stage'[LoginCall(s, step)] = stage[LoginCall(s, step)]
  BY HeadEndsFacts DEF rest
<1>6. /\ \A g \in Members(rest), h \in Members(aborts) : ~Same(g, h)
      /\ \A h \in Members(rest) : Sends(h) =>
           \A s \in Session : h.call \notin Members(outbox[s])
  <2>1. \A h \in Members(rest) : Sends(h) =>
          \A s \in Session : h.call \notin Members(outbox[s])
    <3>1. \A s \in Session : \A k \in Members(outbox[s]) :
            \A h \in Members(rest) : Sends(h) => h.call # k
      BY <1>1 DEF Underway
    <3>. QED  BY <3>1
  <2>2. \A h \in Members(aborts) :
          h.kind = "sent" /\ \E s \in Session : h.call \in Members(outbox[s])
    BY <1>2
  <2>3. \A g, h : h.kind = "sent" /\ Same(g, h) => Sends(g) /\ g.call = h.call
    BY DEF Same, Sends
  <2>. QED  BY <2>1, <2>2, <2>3
<1>7. \A g \in Members(rest), h \in Members(before) \cup Members(after) : ~Same(g, h)
  <2>1. \A g, h : h.kind = "respond" => ~Same(g, h)
    BY DEF Same, Sends
  <2>. QED  BY <1>4, <1>6, <2>1
<1>8. Underway(rest, sends) /\ Underway(before, sends) /\ Underway(after, sends)
  <2>1. ASSUME NEW q,
               \A h \in Members(q) : Sends(h) =>
                 \A s \in Session : h.call \notin Members(sends[s])
        PROVE  Underway(q, sends)
    <3>1. \A s \in Session : \A k \in Members(sends[s]) : k.sess = s
      BY <1>1, <1>2 DEF Underway
    <3>. QED  BY <1>2, <2>1, <3>1 DEF Underway
  <2>2. \A h \in Members(rest) : Sends(h) =>
          \A s \in Session : h.call \notin Members(sends[s])
    BY <1>2, <1>6
  <2>3. \A h \in Members(before) \cup Members(after) : Sends(h) =>
          \A s \in Session : h.call \notin Members(sends[s])
    BY <1>2, <1>4 DEF Sends
  <2>. QED  BY <2>1, <2>2, <2>3
<1>9. Fits(sends, before, after)
  BY <1>4, <1>7, <1>8 DEF Fits, rest
<1>10. Tells(sockets, sends, before, after)
  <2>1. \A h \in Members(rest) : h.kind = "connected" => sockets[h.sess] = conn[h.sess]
    <3>1. ASSUME NEW h \in Members(rest), h.kind = "connected"
          PROVE  sockets[h.sess] = conn[h.sess]
      <4>1. conn[h.sess] = "connecting" /\ h.sess \in Session
        BY <1>1, <3>1, Known DEF PInv, Staged
      <4>. QED  BY <1>2, <4>1
    <3>. QED  BY <3>1
  <2>2. \A h \in Members(before) \cup Members(after) :
          h.kind = "respond" \/ (h.kind = "sent" /\ stage'[h.call] = "sending")
    <3>1. \A h \in Members(aborts) : h.kind = "sent" /\ stage'[h.call] = "sending"
      BY <1>2, <1>5
    <3>. QED  BY <1>4, <3>1
  <2>3. \A s \in Session : (\A k \in Members(sends[s]) : stage'[k] = "sending")
                           /\ (sockets[s] = "none" <=> conn[s] = "none")
    BY <1>2, <1>5
  <2>4. \A k \in Call : stage'[k] \in {"posted", "sending"} =>
          \/ k \in Members(sends[k.sess])
          \/ \E h \in Members(rest) \cup Members(before) \cup Members(after) :
               Sends(h) /\ h.call = k
    <3>1. SUFFICES ASSUME NEW k \in Call, stage'[k] \in {"posted", "sending"}
                   PROVE  \/ k \in Members(sends[k.sess])
                          \/ \E h \in Members(rest) \cup Members(before) \cup Members(after) :
                               Sends(h) /\ h.call = k
      OBVIOUS
    <3>2. CASE \E h \in Members(rest) : Sends(h) /\ h.call = k
      BY <3>2
    <3>3. CASE k \in Members(outbox[k.sess])
      <4>1. \/ k \in Members(sends[k.sess])
            \/ \E h \in Members(aborts) : Sends(h) /\ h.call = k
        BY <1>2, <3>3, CallFields
      <4>. QED  BY <1>4, <4>1
    <3>. QED  BY <1>5, <3>1, <3>2, <3>3
  <2>5. \A k \in Call : k.step = "user" /\ stage[k] = "none" /\ stage'[k] # "none" =>
          Running("request") /\ k.req = Head(ready).req
    BY <1>5
  <2>. QED  BY <1>5, <2>1, <2>2, <2>3, <2>4, <2>5 DEF Tells, rest
<1>11. InOrder(sockets)
  <2>1. \A s \in Session : sockets[s] \in {"none", "connecting"} => conn[s] = sockets[s]
    BY <1>2
  <2>. QED  BY <1>5, <2>1 DEF InOrder
<1>12. ASSUME NEW s \in loggedIn, sockets[s] = "open", ~Referenced(s)'
       PROVE  s = table[c]
  <2>1. s \in Session
    BY InvFacts
  <2>2. conn[s] = "open"
    BY <1>2, <1>12, <2>1
  <2>3. Referenced(s)
    BY <2>1, <2>2 DEF PInv, OpenIsHeld
  <2>4. table[s.client] = s /\ table'[s.client] # s
    BY <1>5, <1>12, <2>1, <2>3, LetGo
  <2>5. s.client \in Clients /\ (s.client # c => table'[s.client] = table[s.client])
    BY <2>1, SessionIsRequest, InvFacts DEF Erase
  <2>. QED  BY <2>4, <2>5
<1>13. /\ sockets \in [Session -> ConnState] /\ sends \in [Session -> Seq(AllowedCall)]
       /\ before \in Seq(Handler) /\ Apart(before)
       /\ after \in Seq(Handler) /\ Apart(after)
       /\ stage' \in [Call -> Stage]
  BY <1>2, <1>4, <1>5
<1>14. \A s \in loggedIn : sockets[s] = "open" /\ ~Referenced(s)' => s = table[c]
  BY <1>12
<1>. QED
  BY <1>9, <1>10, <1>11, <1>13, <1>14, FinishKeeps

LEMMA LoseClientPlaces ==
  ASSUME IInv, PInv, LoseClient
  PROVE  PInv'
<1>. DEFINE c == Head(ready).client
<1>1. ready # <<>> /\ c \in Clients /\ ~Sends(Head(ready))
  BY RunningFields DEF LoseClient, Running, Sends
<1>2. /\ Finish(conn, outbox, CloseNotice(c), <<>>)
      /\ stage' = stage /\ table' = Erase(c)
      /\ UNCHANGED <<held, issued, loggedIn>>
  BY DEF LoseClient
<1>3. CloseNotice(c) \in Seq(Handler) /\ Idle(CloseNotice(c))
  BY <1>1, CloseNoticeIdle
<1>4. /\ <<>> \in Seq(Handler) /\ Idle(<<>>) /\ <<>> \o <<>> = <<>>
      /\ Closing(conn, outbox, <<>>) /\ HeadEnds
  BY <1>1, <1>2, None DEF Idle, Closing, HeadEnds
<1>. QED  BY <1>1, <1>2, <1>3, <1>4, EndKeeps

LEMMA FailCallKeeps ==
  ASSUME IInv, PInv, ready # <<>>, NEW k \in Call, Pending(k),
         IF Sends(Head(ready)) THEN k = Head(ready).call ELSE stage[k] = "waiting",
         NEW sockets, NEW sends, NEW aborts, Closing(sockets, sends, aborts),
         FailCall(k, sockets, sends, aborts)
  PROVE  PInv'
<1>. DEFINE c == k.sess.client
            x == IF k.step = "user" THEN <<>> ELSE CloseNotice(c)
<1>1. c \in Clients
  BY CallFields, SessionIsRequest
<1>2. /\ Finish(sockets, sends, x, ErrorAnswer(k) \o aborts)
      /\ stage' = [stage EXCEPT ![k] = "done"]
      /\ table' = table \/ table' = Erase(c)
      /\ UNCHANGED <<held, issued, loggedIn>>
  BY DEF FailCall, KeepCallback
<1>3. x \in Seq(Handler) /\ Idle(x)
  BY <1>1, CloseNoticeIdle, None DEF Idle
<1>4. ErrorAnswer(k) \in Seq(Handler) /\ Idle(ErrorAnswer(k))
  BY ErrorAnswerIdle
<1>5. HeadEnds
  BY <1>2 DEF HeadEnds
<1>. HIDE DEF x, c
<1>. QED  BY <1>1, <1>2, <1>3, <1>4, <1>5, EndKeeps

LEMMA FailCallPlaces ==
  ASSUME IInv, PInv, SendOnClosed \/ SendFailed \/ LoginRefused
  PROVE  PInv'
<1>. DEFINE k == Head(ready).call
<1>1. ready # <<>> /\ k \in Call /\ k.sess \in Session
  BY RunningFields, CallFields DEF SendOnClosed, SendFailed, LoginRefused, AllowedCall
<1>2. CASE SendOnClosed \/ SendFailed
  <2>1. Sends(Head(ready)) /\ Head(ready) \in Members(ready)
    BY <1>1, <1>2, Taken DEF SendOnClosed, SendFailed, Running, Sends
  <2>2. Pending(k)
    BY <2>1 DEF PInv, Staged, Pending, Sends
  <2>3. CASE SendOnClosed
    <3>1. FailCall(k, conn, outbox, <<>>) /\ Closing(conn, outbox, <<>>)
      BY <2>3 DEF SendOnClosed, Closing
    <3>. QED  BY <1>1, <2>1, <2>2, <3>1, FailCallKeeps
  <2>4. CASE SendFailed
    <3>. DEFINE s == k.sess
                sockets == [conn EXCEPT ![s] = "closed"]
                sends == [outbox EXCEPT ![s] = <<>>]
    <3>1. FailCall(k, sockets, sends, Abort(outbox[s])) /\ conn[s] = "open"
      BY <2>4 DEF SendFailed
    <3>2. Closing(sockets, sends, Abort(outbox[s]))
      BY <1>1, <3>1 DEF Closing
    <3>. HIDE DEF s, sockets, sends
    <3>. QED  BY <1>1, <2>1, <2>2, <3>1, <3>2, FailCallKeeps
  <2>. QED  BY <1>2, <2>3, <2>4
<1>3. CASE LoginRefused
  <2>1. /\ FailCall(k, conn, outbox, <<>>) /\ Closing(conn, outbox, <<>>)
        /\ stage[k] = "waiting" /\ ~Sends(Head(ready)) /\ Pending(k)
    BY <1>3 DEF LoginRefused, Closing, Answers, Running, Sends, Pending
  <2>. QED  BY <1>1, <2>1, FailCallKeeps
<1>. QED  BY <1>2, <1>3

LEMMA BrokenPlaces ==
  ASSUME IInv, PInv, Broken
  PROVE  PInv'
<1>. DEFINE s == HandledSession
            c == s.client
            notice == IF table[c] = s THEN <<>> ELSE CloseNotice(c)
            sockets == [conn EXCEPT ![s] = "closed"]
            sends == [outbox EXCEPT ![s] = <<>>]
            aborts == Abort(outbox[s])
<1>1. ready # <<>> /\ ~Sends(Head(ready)) /\ s \in Session /\ c \in Clients
  <2>1. ready # <<>> /\ ~Sends(Head(ready)) /\ s \in Session
    BY RunningFields, CallFields DEF Broken, Running, Sends, HandledSession
  <2>. QED  BY <2>1, SessionIsRequest
<1>2. /\ Finish(sockets, sends, aborts \o notice, <<>>)
      /\ stage' = stage /\ table' = Erase(c)
      /\ UNCHANGED <<held, issued, loggedIn>>
  BY DEF Broken, ApiError
<1>3. notice \in Seq(Handler) /\ Idle(notice)
  BY <1>1, CloseNoticeIdle, None DEF Idle
<1>4. Closing(sockets, sends, aborts) /\ HeadEnds
  BY <1>1, <1>2 DEF Closing, HeadEnds, Broken
<1>5. <<>> \in Seq(Handler) /\ Idle(<<>>)
  BY None DEF Idle
<1>. HIDE DEF s, c, notice, sockets, sends, aborts
<1>. QED  BY <1>1, <1>2, <1>3, <1>4, <1>5, EndKeeps

LEMMA LoginAcceptedPlaces ==
  ASSUME IInv, PInv, LoginAccepted
  PROVE  PInv'
<1>. DEFINE k == Head(ready).call
            c == k.sess.client
            y == IF Has(c) THEN Respond(k.sess, "success") ELSE <<>>
<1>1. /\ ready # <<>> /\ ~Sends(Head(ready)) /\ k \in Call /\ c \in Clients
      /\ k.sess \in Session /\ k.step = "login2" /\ stage[k] = "waiting"
  BY RunningFields, CallFields, SessionIsRequest
     DEF LoginAccepted, Answers, Running, Sends
<1>2. /\ Finish(conn, outbox, <<>>, y)
      /\ stage' = [stage EXCEPT ![k] = "done"]
      /\ loggedIn' = loggedIn \cup {k.sess}
      /\ UNCHANGED <<held, issued, table>>
  BY DEF LoginAccepted, KeepCallback
<1>3. k = LoginCall(k.sess, "login2") /\ stage'[k] = "done"
  BY <1>1, <1>2, LoginCalls, Known
<1>4. y \in Seq(Handler) /\ Idle(y)
  <2>1. k.sess \in Request /\ "success" \in Code
    BY <1>1, SessionIsRequest DEF Code
  <2>. QED  BY <2>1, RespondIdle, None DEF Idle
<1>5. /\ <<>> \in Seq(Handler) /\ Idle(<<>>) /\ y \o <<>> = y
      /\ Closing(conn, outbox, <<>>)
  BY <1>4, None DEF Idle, Closing
<1>6. HeadEnds
  BY <1>1, <1>2 DEF HeadEnds, Pending
<1>7. \A s \in Session : s \in loggedIn' =>
        s \in loggedIn \/ stage'[LoginCall(s, "login2")] = "done"
  BY <1>2, <1>3
<1>. HIDE DEF y, c
<1>. QED  BY <1>1, <1>2, <1>4, <1>5, <1>6, <1>7, EndKeeps

\* A callback of a login is posted: a session has connected, or its challenge
\* has come.
LEMMA LoginPosts ==
  ASSUME IInv, PInv, ready # <<>>, ~Sends(Head(ready)),
         NEW s \in Session, NEW step \in {"login1", "login2"},
         stage[LoginCall(s, step)] = "none",
         step = "login2" => stage[LoginCall(s, "login1")] = "waiting",
         stage' \in [Call -> Stage],
         stage'[LoginCall(s, step)] = "posted",
         step = "login2" => stage'[LoginCall(s, "login1")] = "done",
         \A k \in Call :
           k # LoginCall(s, "login1") /\ k # LoginCall(s, step) => stage'[k] = stage[k],
         NEW sockets \in [Session -> ConnState],
         sockets[s] \in {"open", "closed"}, conn[s] # "none",
         \A x \in Session : x # s => sockets[x] = conn[x],
         \A h \in Members(Tail(ready)) : h.kind = "connected" => h.sess # s,
         Finish(sockets, outbox, <<>>, <<[kind |-> "post", call |-> LoginCall(s, step)]>>),
         UNCHANGED <<issued, loggedIn, held, table>>
  PROVE  PInv'
<1>. DEFINE k == LoginCall(s, step)
            l1 == LoginCall(s, "login1")
            h == [kind |-> "post", call |-> k]
            rest == Tail(ready)
<1>1. /\ \A g \in Members(rest) : g \in Members(ready)
      /\ \A g \in Members(ready) : g = Head(ready) \/ g \in Members(rest)
      /\ Underway(rest, outbox)
  BY Taken
<1>2. /\ k \in Call /\ l1 \in Call /\ k.sess = s /\ k.step # "user"
      /\ step = "login1" => k = l1
      /\ h \in Handler /\ h.kind = "post" /\ h.call = k /\ Sends(h)
  BY LoginCalls DEF Handler, Sends
<1>3. /\ <<h>> \in Seq(Handler) /\ Members(<<h>>) = {h} /\ Apart(<<h>>)
      /\ <<>> \in Seq(Handler) /\ Members(<<>>) = {} /\ Apart(<<>>)
  BY <1>2, One, None
<1>4. /\ \A g \in Members(rest) : Sends(g) =>
           g.call \in Call /\ stage[g.call] \in {"posted", "sending"}
      /\ \A x \in Session : \A y \in Members(outbox[x]) : y \in Call /\ stage[y] = "sending"
  BY <1>1, Known DEF PInv, Staged, Sends
<1>5. /\ stage[k] = "none" /\ stage'[k] = "posted"
      /\ k # l1 => stage[l1] = "waiting" /\ stage'[l1] = "done"
      /\ \A x \in Call : x # l1 /\ x # k => stage'[x] = stage[x]
  BY <1>2
<1>6. \A x \in Call : stage[x] \in {"posted", "sending"} => x # k /\ stage'[x] = stage[x]
  BY <1>5
<1>7. \A x \in Call : stage'[x] \in {"posted", "sending"} => x = k \/ stage[x] = stage'[x]
  BY <1>5
<1>8. s \notin loggedIn /\ stage[LoginCall(s, "login2")] = "none"
  BY <1>2, <1>5 DEF PInv, LoginSteps
<1>9. \A x \in Session : x # s => \A t \in {"login1", "login2"} :
        LoginCall(x, t) \in Call /\ LoginCall(x, t) # k /\ LoginCall(x, t) # l1
  BY LoginCalls
<1>. HIDE DEF rest, h, k, l1
<1>10. \A g \in Members(rest) : ~Same(g, h)
  BY <1>2, <1>4, <1>5 DEF Same, Sends
<1>11. Underway(<<h>>, outbox) /\ Underway(<<>>, outbox)
  BY <1>1, <1>2, <1>3, <1>4, <1>5 DEF Underway
<1>12. Fits(outbox, <<>>, <<h>>)
  BY <1>1, <1>3, <1>10, <1>11 DEF Fits, rest
<1>13. Tells(sockets, outbox, <<>>, <<h>>)
  <2>1. \A g \in Members(rest) : Sends(g) => stage'[g.call] = stage[g.call]
    BY <1>4, <1>6
  <2>2. \A g \in Members(rest) : g.kind = "connected" => sockets[g.sess] = conn[g.sess]
    BY <1>1, Known DEF rest
  <2>3. \A x \in Session : \A y \in Members(outbox[x]) : stage'[y] = "sending"
    BY <1>4, <1>6
  <2>4. \A x \in Session : sockets[x] = "none" <=> conn[x] = "none"
    OBVIOUS
  <2>5. \A x \in Call : x.step = "user" /\ stage[x] = "none" => stage'[x] = "none"
    BY <1>2, <1>5, LoginCalls
  <2>6. ASSUME NEW x \in Call, stage'[x] \in {"posted", "sending"}
        PROVE  \/ x \in Members(outbox[x.sess])
               \/ \E g \in Members(rest) \cup Members(<<>>) \cup Members(<<h>>) :
                    Sends(g) /\ g.call = x
    <3>1. CASE x = k
      BY <1>2, <1>3, <3>1
    <3>2. CASE x # k
      BY <1>1, <1>7, <2>6, <3>2 DEF PInv, NoneLost
    <3>. QED  BY <3>1, <3>2
  <2>. QED  BY <1>2, <1>3, <1>5, <2>1, <2>2, <2>3, <2>4, <2>5, <2>6 DEF Tells, rest
<1>14. InOrder(sockets)
  <2>1. SUFFICES ASSUME NEW x \in Session
                 PROVE  /\ sockets[x] \in {"none", "connecting"} =>
                             stage'[LoginCall(x, "login1")] = "none"
                        /\ stage'[LoginCall(x, "login2")] # "none" =>
                             stage'[LoginCall(x, "login1")] = "done"
                        /\ x \in loggedIn => stage'[LoginCall(x, "login2")] = "done"
    BY DEF InOrder
  <2>2. CASE x = s
    <3>1. LoginCall(s, "login2") # l1 /\ LoginCall(s, "login2") \in Call
      BY LoginCalls DEF l1
    <3>2. stage'[LoginCall(s, "login2")] # "none" => stage'[l1] = "done"
      BY <1>5, <1>8, <3>1 DEF k, l1
    <3>. QED  BY <1>8, <2>2, <3>2 DEF l1
  <2>3. CASE x # s
    BY <1>5, <1>9, <2>3 DEF PInv, LoginSteps
  <2>. QED  BY <2>2, <2>3
<1>15. ASSUME NEW x \in loggedIn, sockets[x] = "open", ~Referenced(x)'
       PROVE  x = s
  <2>1. x \in Session /\ x # s
    BY <1>8, InvFacts
  <2>2. Referenced(x)
    BY <1>15, <2>1 DEF PInv, OpenIsHeld
  <2>3. \A t \in {"login1", "login2"} : stage'[LoginCall(x, t)] = stage[LoginCall(x, t)]
    BY <1>5, <1>9, <2>1
  <2>. QED  BY <1>15, <2>1, <2>2, <2>3, LetGo
<1>16. outbox \in [Session -> Seq(AllowedCall)]
  BY InvFacts
<1>17. Finish(sockets, outbox, <<>>, <<h>>) /\ \A x \in loggedIn :
         sockets[x] = "open" /\ ~Referenced(x)' => x = s
  BY <1>15 DEF h, k
<1>. QED  BY <1>3, <1>12, <1>13, <1>14, <1>16, <1>17, FinishKeeps

\* A connection has failed, or has come for a client that has no session.
LEMMA ConnectedQuietly ==
  ASSUME IInv, PInv, ready # <<>>, ~Sends(Head(ready)), stage' = stage,
         NEW s \in Session, conn[s] = "connecting",
         NEW v \in {"open", "closed"},
         \A h \in Members(Tail(ready)) : h.kind = "connected" => h.sess # s,
         NEW x \in Seq(Handler), Idle(x),
         NEW y \in Seq(Handler), Idle(y),
         Finish([conn EXCEPT ![s] = v], outbox, x, y),
         UNCHANGED <<issued, loggedIn, held>>,
         NEW c \in Clients, table' = table \/ table' = Erase(c)
  PROVE  PInv'
<1>. DEFINE rest == Tail(ready)
            sockets == [conn EXCEPT ![s] = v]
<1>1. /\ \A h \in Members(rest) : h \in Members(ready)
      /\ Underway(rest, outbox)
  BY Taken
<1>2. /\ Apart(x) /\ Apart(y)
      /\ \A h \in Members(x) \cup Members(y) : ~Sends(h) /\ h.kind = "respond"
      /\ \A g, h : h \in Members(x) \cup Members(y) => ~Same(g, h)
  BY IdleFacts
<1>3. /\ sockets \in [Session -> ConnState] /\ sockets[s] = v
      /\ \A z \in Session : z # s => sockets[z] = conn[z]
  BY Known DEF ConnState
<1>4. HeadEnds
  BY DEF HeadEnds
<1>5. /\ stage' \in [Call -> Stage]
      /\ \A h \in Members(rest) : Sends(h) => stage'[h.call] = stage[h.call]
      /\ \A z \in Session : \A k \in Members(outbox[z]) : stage'[k] = "sending"
      /\ \A k \in Call : stage'[k] \in {"posted", "sending"} =>
           \/ k \in Members(outbox[k.sess])
           \/ \E h \in Members(rest) : Sends(h) /\ h.call = k
      /\ \A z \in Session :
           /\ conn[z] \in {"none", "connecting"} => stage'[LoginCall(z, "login1")] = "none"
           /\ stage'[LoginCall(z, "login2")] # "none" =>
                stage'[LoginCall(z, "login1")] = "done"
           /\ z \in loggedIn => stage'[LoginCall(z, "login2")] = "done"
           /\ z \in loggedIn => \A step \in {"login1", "login2"} :
                stage'[LoginCall(z, step)] = stage[LoginCall(z, step)]
  BY <1>4, HeadEndsFacts
<1>6. s \notin loggedIn
  <2>1. /\ stage'[LoginCall(s, "login1")] = "none"
        /\ stage'[LoginCall(s, "login2")] # "none" =>
             stage'[LoginCall(s, "login1")] = "done"
        /\ s \in loggedIn => stage'[LoginCall(s, "login2")] = "done"
    BY <1>5
  <2>. QED  BY <2>1
<1>. HIDE DEF rest, sockets
<1>7. Fits(outbox, x, y)
  <2>1. Underway(x, outbox) /\ Underway(y, outbox)
    BY <1>1, <1>2 DEF Underway
  <2>. QED  BY <1>1, <1>2, <2>1 DEF Fits, rest
<1>8. Tells(sockets, outbox, x, y)
  <2>1. \A h \in Members(rest) : h.kind = "connected" => sockets[h.sess] = conn[h.sess]
    BY <1>1, <1>3, Known DEF rest
  <2>2. \A z \in Session : sockets[z] = "none" <=> conn[z] = "none"
    BY <1>3
  <2>. QED  BY <1>2, <1>5, <2>1, <2>2 DEF Tells, rest
<1>9. InOrder(sockets)
  <2>1. \A z \in Session : sockets[z] \in {"none", "connecting"} => sockets[z] = conn[z]
    BY <1>3
  <2>. QED  BY <1>5, <2>1 DEF InOrder
<1>10. ASSUME NEW z \in loggedIn, sockets[z] = "open", ~Referenced(z)'
       PROVE  z = table[c]
  <2>1. z \in Session /\ z # s
    BY <1>6, InvFacts
  <2>2. Referenced(z)
    BY <1>3, <1>10, <2>1 DEF PInv, OpenIsHeld
  <2>3. table[z.client] = z /\ table'[z.client] # z
    BY <1>5, <1>10, <2>1, <2>2, LetGo
  <2>4. z.client \in Clients /\ (z.client # c => table'[z.client] = table[z.client])
    BY <2>1, SessionIsRequest, InvFacts DEF Erase
  <2>. QED  BY <2>3, <2>4
<1>11. /\ outbox \in [Session -> Seq(AllowedCall)]
       /\ Finish(sockets, outbox, x, y)
  BY InvFacts DEF sockets
<1>12. stage' \in [Call -> Stage] /\ sockets \in [Session -> ConnState]
       /\ Apart(x) /\ Apart(y)
       /\ \A z \in loggedIn : sockets[z] = "open" /\ ~Referenced(z)' => z = table[c]
  BY <1>2, <1>3, <1>5, <1>10
<1>. QED  BY <1>7, <1>8, <1>9, <1>11, <1>12, FinishKeeps

LEMMA ConnectedPlaces ==
  ASSUME IInv, PInv, Connected
  PROVE  PInv'
<1>. DEFINE s == Head(ready).sess
            ok == Head(ready).ok
            c == s.client
            k == LoginCall(s, "login1")
            v == IF ok THEN "open" ELSE "closed"
            x == IF ok THEN <<>> ELSE CloseNotice(c)
            y == IF Has(c) THEN Respond(s, "open_failed") ELSE <<>>
<1>1. /\ ready # <<>> /\ s \in Session /\ s \in Request /\ c \in Clients
      /\ ~Sends(Head(ready)) /\ Head(ready).kind = "connected" /\ v \in {"open", "closed"}
  BY RunningFields, SessionIsRequest DEF Connected, Running, Sends
<1>2. /\ Head(ready) \in Members(ready)
      /\ \A h \in Members(Tail(ready)) : ~Same(Head(ready), h)
  BY <1>1, Taken
<1>3. /\ conn[s] = "connecting"
      /\ \A h \in Members(Tail(ready)) : h.kind = "connected" => h.sess # s
  BY <1>1, <1>2 DEF PInv, Staged, Same
<1>4. /\ table' = IF ok THEN table ELSE Erase(c)
      /\ stage' = IF ok /\ Has(c) THEN [stage EXCEPT ![k] = "posted"] ELSE stage
      /\ UNCHANGED <<held, issued, loggedIn>>
  BY DEF Connected
<1>5. CASE ok /\ Has(c)
  <2>. DEFINE sockets == [conn EXCEPT ![s] = "open"]
  <2>1. Finish(sockets, outbox, <<>>, <<[kind |-> "post", call |-> k]>>)
    BY <1>5 DEF Connected
  <2>2. /\ sockets \in [Session -> ConnState] /\ sockets[s] = "open"
        /\ \A z \in Session : z # s => sockets[z] = conn[z]
    BY <1>1, Known DEF ConnState
  <2>3. k \in Call /\ stage[k] = "none"
    BY <1>1, <1>3, LoginCalls DEF PInv, LoginSteps
  <2>4. /\ stage' \in [Call -> Stage] /\ stage'[k] = "posted"
        /\ \A z \in Call : z # k => stage'[z] = stage[z]
    BY <1>4, <1>5, <2>3, Known DEF Stage
  <2>5. table' = table
    BY <1>4, <1>5
  <2>. HIDE DEF sockets, s
  <2>. QED  BY <1>1, <1>3, <1>4, <2>1, <2>2, <2>3, <2>4, <2>5, LoginPosts
<1>6. CASE ~(ok /\ Has(c))
  <2>1. x \in Seq(Handler) /\ Idle(x)
    BY <1>1, CloseNoticeIdle, None DEF Idle
  <2>2. y \in Seq(Handler) /\ Idle(y)
    BY <1>1, RespondIdle, None DEF Idle, Code
  <2>3. Finish([conn EXCEPT ![s] = v], outbox, x, y)
    BY <1>6 DEF Connected
  <2>4. stage' = stage /\ (table' = table \/ table' = Erase(c))
    BY <1>4, <1>6
  <2>. HIDE DEF s, v, x, y, c
  <2>. QED  BY <1>1, <1>3, <1>4, <2>1, <2>2, <2>3, <2>4, ConnectedQuietly
<1>. QED  BY <1>5, <1>6

LEMMA ChallengePlaces ==
  ASSUME IInv, PInv, Challenge
  PROVE  PInv'
<1>. DEFINE k == Head(ready).call
            s == k.sess
            k2 == LoginCall(s, "login2")
            post == [kind |-> "post", call |-> k2]
<1>1. /\ ready # <<>> /\ k \in Call /\ s \in Session /\ k.step = "login1"
      /\ ~Sends(Head(ready)) /\ Head(ready).kind = "sentence"
      /\ stage[k] = "waiting" /\ conn[s] = "open"
  BY RunningFields, CallFields DEF Challenge, Answers, Running, Sends
<1>2. /\ stage' = [stage EXCEPT ![k] = "done", ![k2] = "posted"]
      /\ ready' = Append(Tail(ready), post)
      /\ UNCHANGED <<issued, table, conn, loggedIn, outbox, held>>
  BY DEF Challenge
<1>3. k = LoginCall(s, "login1") /\ k2 \in Call /\ k2.step = "login2" /\ k # k2
  BY <1>1, LoginCalls
<1>4. stage[k2] = "none"
  BY <1>1, <1>3 DEF PInv, LoginSteps
<1>. HIDE DEF k2
<1>5. /\ stage' \in [Call -> Stage] /\ stage'[k] = "done" /\ stage'[k2] = "posted"
      /\ \A z \in Call : z # k /\ z # k2 => stage'[z] = stage[z]
  BY <1>1, <1>2, <1>3, Known DEF Stage
<1>6. ASSUME NEW z \in Session, conn[z] = "open"
      PROVE  Referenced(z)'
  <2>1. Referenced(z)
    BY <1>6 DEF PInv, OpenIsHeld
  <2>2. CASE z = s
    <3>1. Pending(LoginCall(z, "login2"))'
      BY <1>3, <1>5, <2>2 DEF Pending, k2
    <3>. QED  BY <3>1 DEF Referenced
  <2>3. CASE z # s
    <3>1. \A t \in {"login1", "login2"} :
            stage'[LoginCall(z, t)] = stage[LoginCall(z, t)]
      <4>1. \A t \in {"login1", "login2"} :
              LoginCall(z, t) \in Call /\ LoginCall(z, t).sess = z
        BY LoginCalls
      <4>2. k.sess = s /\ k2.sess = s
        BY <1>1, LoginCalls DEF k2
      <4>. QED  BY <1>5, <2>3, <4>1, <4>2
    <3>. QED  BY <1>2, <2>1, <3>1, LetGo
  <2>. QED  BY <2>2, <2>3
<1>7. post \in Handler
  BY <1>3 DEF Handler
<1>. HIDE DEF post
<1>8. Tail(ready) \in Seq(Handler)
  BY <1>1, Taken
<1>9. Finish(conn, outbox, <<>>, <<post>>)
  <2>1. {z \in Session : conn[z] = "open" /\ ~Referenced(z)'} = {}
    BY <1>6
  <2>2. ready' = Tail(ready) \o <<>> \o <<>> \o <<post>>
    BY <1>2, <1>7, <1>8, One, None
  <2>3. /\ conn = [z \in Session |-> conn[z]]
        /\ outbox = [z \in Session |-> outbox[z]]
    BY Known
  <2>. QED  BY <1>2, <2>1, <2>2, <2>3 DEF Finish
<1>10. \A h \in Members(Tail(ready)) : h.kind = "connected" => h.sess # s
  <2>1. \A h \in Members(Tail(ready)) : h.kind = "connected" => conn[h.sess] = "connecting"
    BY <1>1, Taken DEF PInv, Staged
  <2>. QED  BY <1>1, <2>1
<1>11. /\ stage[LoginCall(s, "login2")] = "none"
       /\ stage[LoginCall(s, "login1")] = "waiting"
       /\ stage'[LoginCall(s, "login2")] = "posted"
       /\ stage'[LoginCall(s, "login1")] = "done"
       /\ \A z \in Call : z # LoginCall(s, "login1") /\ z # LoginCall(s, "login2") =>
            stage'[z] = stage[z]
  BY <1>1, <1>3, <1>4, <1>5 DEF k2
<1>12. Finish(conn, outbox, <<>>, <<[kind |-> "post", call |-> LoginCall(s, "login2")]>>)
  BY <1>9 DEF post, k2
<1>13. /\ stage' \in [Call -> Stage] /\ conn \in [Session -> ConnState]
       /\ conn[s] \in {"open", "closed"} /\ conn[s] # "none"
  BY <1>1, <1>5, Known
<1>. HIDE DEF k, s
<1>. QED  BY <1>1, <1>2, <1>10, <1>11, <1>12, <1>13, LoginPosts

LEMMA NextPlaces ==
  ASSUME IInv, PInv, [Next]_vars
  PROVE  PInv'
<1>1. CASE UNCHANGED vars
  BY <1>1, UnchangedPlaces DEF vars
<1>2. CASE RunHandler
  <2>1. ASSUME LoadTrap  PROVE PInv'
    BY <2>1, UnchangedPlaces DEF LoadTrap
  <2>. QED
    BY <1>2, <2>1, AnswerPlaces, CreateSessionPlaces, RunCommandPlaces, LoseClientPlaces,
       ConnectedPlaces, SendingPlaces, FailCallPlaces, BrokenPlaces, ChallengePlaces,
       LoginAcceptedPlaces, PassOnPlaces DEF RunHandler
<1>3. CASE Environment
  BY <1>3, EnvironmentPlaces
<1>. QED  BY <1>1, <1>2, <1>3 DEF Next

LEMMA InitPlaces == Init => PInv
<1>. SUFFICES ASSUME Init  PROVE PInv
  OBVIOUS
<1>1. Members(ready) = {} /\ \A s \in Session : Len(outbox[s]) = 0 /\ Members(outbox[s]) = {}
  BY None DEF Init, Members
<1>2. Apart(ready) /\ Underway(ready, outbox)
  BY <1>1, None DEF Init, Underway
<1>3. Staged /\ Unserved /\ NoneLost
  BY <1>1 DEF Init, Staged, Unserved, NoneLost
<1>4. LoginSteps
  BY LoginCalls DEF Init, LoginSteps
<1>5. OpenIsHeld
  BY DEF Init, OpenIsHeld
<1>. QED  BY <1>2, <1>3, <1>4, <1>5 DEF PInv

\* Every callback is where its stage says, in one place, and no step loses it.
THEOREM Places == Spec => []PInv
<1>1. IInv /\ PInv /\ [Next]_vars => PInv'
  BY NextPlaces
<1>2. Spec => []IInv
  BY Invariance
<1>. QED  BY InitPlaces, <1>1, <1>2, PTL DEF Spec

-----------------------------------------------------------------------------
(* What follows from the two invariants. *)

\* The asserts of sessions_service::create: a session whose connection or login
\* is still under way is not logged in.
THEOREM LoginsAreAsserted == Spec => []LoginAssertions
<1>1. IInv /\ PInv => LoginAssertions
  <2>1. SUFFICES ASSUME IInv, PInv, NEW s \in loggedIn, s \in Session,
                        \/ conn[s] \in {"none", "connecting"}
                        \/ \E step \in {"login1", "login2"} : Pending(LoginCall(s, step))
                 PROVE  FALSE
    BY DEF LoginAssertions
  <2>2. /\ conn[s] \in {"none", "connecting"} => stage[LoginCall(s, "login1")] = "none"
        /\ stage[LoginCall(s, "login2")] = "done"
        /\ stage[LoginCall(s, "login2")] # "none" => stage[LoginCall(s, "login1")] = "done"
    BY <2>1 DEF PInv, LoginSteps
  <2>. QED  BY <2>1, <2>2 DEF Pending
<1>. QED  BY <1>1, Invariance, Places, PTL

\* session_required_command retains the session it served last: a logged-in
\* connection that outlives its client is one of those, whatever callbacks and
\* sends of the client are still to come.
THEOREM RetainedByCommands == Spec => []OutlivesItsClient
<1>1. IInv /\ PInv /\ LoginAssertions => OutlivesItsClient
  <2>1. SUFFICES ASSUME IInv, PInv, LoginAssertions, NEW s \in loggedIn,
                        s.client \notin live, conn[s] = "open"
                 PROVE  \E m \in Command : held[m] = s
    BY DEF OutlivesItsClient
  <2>2. s \in Session /\ s.client \in Clients
    BY <2>1, InvFacts DEF Session, Request
  <2>3. Referenced(s)
    BY <2>1, <2>2 DEF PInv, OpenIsHeld
  <2>4. table[s.client] # s
    BY <2>1, <2>2, SessionsAssumption DEF IInv, GoneClientHasNoSession, Has
  <2>5. ~Pending(LoginCall(s, "login1")) /\ ~Pending(LoginCall(s, "login2"))
    BY <2>1, <2>2 DEF LoginAssertions
  <2>. QED  BY <2>3, <2>4, <2>5 DEF Referenced
<1>. QED  BY <1>1, Invariance, Places, LoginsAreAsserted, PTL

LEMMA AtMostOne ==
  ASSUME NEW S, \A i, j \in S : i = j
  PROVE  Cardinality(S) = IF S = {} THEN 0 ELSE 1
<1>1. CASE S = {}
  BY <1>1, FS_EmptySet
<1>2. CASE S # {}
  <2>1. PICK i \in S : TRUE
    BY <1>2
  <2>2. S = {i}
    BY <2>1
  <2>. QED  BY <1>2, <2>2, FS_Singleton
<1>. QED  BY <1>1, <1>2

\* The callback of a sentence is in one posted handler, send operation or
\* completion handler from api::send until it waits in read_cbs_ or is gone: it
\* is neither lost nor called twice for its send.
THEOREM EachCallbackInOnePlace == Spec => []CallbackInOnePlace
<1>1. ASSUME IInv, PInv, NEW k \in Call
      PROVE  CallbackHandlers(k) = IF stage[k] \in {"posted", "sending"} THEN 1 ELSE 0
  <2>. DEFINE R == {i \in DOMAIN ready :
                      ready[i].kind \in {"post", "sent"} /\ ready[i].call = k}
              B == outbox[k.sess]
              O == {i \in DOMAIN B : B[i] = k}
  <2>1. /\ ready \in Seq(Handler) /\ B \in Seq(Call) /\ k.sess \in Session
        /\ DOMAIN ready = 1..Len(ready) /\ DOMAIN B = 1..Len(B)
    BY <1>1, Known, CallFields
  <2>2. \A i, j \in R : i = j
    BY <1>1, <2>1 DEF PInv, Apart, Same, Sends
  <2>3. \A i, j \in O : i = j
    BY <1>1, <2>1 DEF PInv, Underway
  <2>4. (R # {}) <=> \E h \in Members(ready) : Sends(h) /\ h.call = k
    BY <2>1 DEF Members, Sends
  <2>5. (O # {}) <=> k \in Members(B)
    BY <2>1 DEF Members
  <2>6. R = {} \/ O = {}
    BY <1>1, <2>1, <2>4, <2>5 DEF PInv, Underway
  <2>7. stage[k] \in {"posted", "sending"} => R # {} \/ O # {}
    BY <1>1, <2>4, <2>5 DEF PInv, NoneLost
  <2>8. R # {} \/ O # {} => stage[k] \in {"posted", "sending"}
    BY <1>1, <2>1, <2>4, <2>5 DEF PInv, Staged, Sends
  <2>9. CallbackHandlers(k) = Cardinality(R) + Cardinality(O)
    BY DEF CallbackHandlers
  <2>. HIDE DEF R, O
  <2>10. /\ Cardinality(R) = IF R = {} THEN 0 ELSE 1
         /\ Cardinality(O) = IF O = {} THEN 0 ELSE 1
    BY <2>2, <2>3, AtMostOne
  <2>. QED  BY <2>6, <2>7, <2>8, <2>9, <2>10
<1>2. IInv /\ PInv => CallbackInOnePlace
  BY <1>1 DEF CallbackInOnePlace
<1>. QED  BY <1>2, Invariance, Places, PTL

\* What a handler has posted in the end.
LEMMA FinishPosts ==
  ASSUME IInv, ready # <<>>,
         NEW sockets, NEW sends \in [Session -> Seq(Call)],
         NEW before \in Seq(Handler), NEW after \in Seq(Handler),
         Finish(sockets, sends, before, after)
  PROVE  \A h \in Members(ready') :
           \/ h \in Members(Tail(ready))
           \/ h \in Members(before)
           \/ h \in Members(after)
           \/ h.kind = "sent"
<1>. DEFINE dying == {s \in Session : sockets[s] = "open" /\ ~Referenced(s)'}
            busy  == {s \in dying : sends[s] # <<>>}
            some  == CHOOSE s \in busy : TRUE
            aborts == IF busy = {} THEN <<>> ELSE Abort(sends[some])
            front == Tail(ready) \o before
            most  == front \o aborts
<1>1. ready' = most \o after
  BY DEF Finish
<1>2. busy # {} => some \in Session
  OBVIOUS
<1>. HIDE DEF busy, some, dying
<1>3. aborts \in Seq(Handler) /\ \A h \in Members(aborts) : h.kind = "sent"
  <2>1. CASE busy = {}
    BY <2>1, None
  <2>2. CASE busy # {}
    <3>. DEFINE calls == sends[some]
    <3>1. calls \in Seq(Call) /\ aborts = Abort(calls)
      BY <1>2, <2>2
    <3>. HIDE DEF calls, aborts
    <3>2. /\ Len(calls) \in Nat
          /\ \A i \in 1..Len(calls) :
               [kind |-> "sent", call |-> calls[i], ok |-> FALSE] \in Handler
      BY <3>1, Elements DEF Handler
    <3>. QED  BY <3>1, <3>2 DEF Abort, Members
  <2>. QED  BY <2>1, <2>2
<1>. HIDE DEF aborts
<1>4. Tail(ready) \in Seq(Handler)
  BY Known, MembersTail
<1>5. /\ front \in Seq(Handler)
      /\ \A h \in Members(front) : h \in Members(Tail(ready)) \/ h \in Members(before)
  BY <1>4, MembersConcat
<1>. HIDE DEF front
<1>6. /\ most \in Seq(Handler)
      /\ \A h \in Members(most) : h \in Members(front) \/ h \in Members(aborts)
  BY <1>3, <1>5, MembersConcat
<1>. HIDE DEF most
<1>7. \A h \in Members(most \o after) : h \in Members(most) \/ h \in Members(after)
  BY <1>6, MembersConcat
<1>. QED  BY <1>1, <1>3, <1>5, <1>6, <1>7

\* A failing read of an API posts no answer to the client that owns it.
THEOREM NoWordOfALostRouter == Spec => RouterLossIsSilent
<1>. DEFINE s == Head(ready).sess
            Silent == Running("broken") /\ table[s.client] = s =>
                        \A i \in DOMAIN ready' :
                          /\ ready'[i].kind = "respond"
                          /\ ready'[i].req.client = s.client
                          => \E j \in DOMAIN ready : ready[j] = ready'[i]
<1>1. ASSUME IInv, IInv', [Next]_vars  PROVE [Silent]_vars
  <2>1. SUFFICES ASSUME Running("broken"), table[s.client] = s, Next
                 PROVE  \A h \in Members(ready') :
                          h.kind = "respond" => h \in Members(ready)
    <3>1. DOMAIN ready = 1..Len(ready) /\ DOMAIN ready' = 1..Len(ready')
      BY <1>1, Known DEF IInv, StateOK
    <3>. QED  BY <1>1, <3>1 DEF Members
  <2>2. /\ ready \in Seq(Handler) /\ ready # <<>> /\ s \in Session
        /\ \A h \in Members(Tail(ready)) : h \in Members(ready)
    BY <1>1, <2>1, Known, RunningFields, MembersTail
  <2>3. CASE Environment
    <3>1. PICK h \in Handler : h.kind # "respond" /\ ready' = Append(ready, h)
      <4>1. ASSUME NEW c \in Clients, ClientRequest(c) \/ ClientLost(c)
            PROVE  \E h : h.kind # "respond" /\ ready' = Append(ready, h)
        BY <4>1 DEF ClientRequest, ClientLost, Complete
      <4>2. ASSUME NEW x \in Session, ConnectCompletes(x) \/ Transmit(x) \/ RouterBreaks(x)
            PROVE  \E h : h.kind # "respond" /\ ready' = Append(ready, h)
        BY <4>2 DEF ConnectCompletes, Transmit, RouterBreaks, Complete
      <4>3. ASSUME NEW k \in Call, RouterAnswers(k)
            PROVE  \E h : h.kind # "respond" /\ ready' = Append(ready, h)
        BY <4>3 DEF RouterAnswers, Complete
      <4>4. PICK h : h.kind # "respond" /\ ready' = Append(ready, h)
        BY <2>3, <4>1, <4>2, <4>3 DEF Environment
      <4>5. ready' \in Seq(Handler) /\ Len(ready') = Len(ready) + 1
            /\ ready'[Len(ready) + 1] = h /\ Len(ready) \in Nat
        BY <1>1, <2>2, <4>4 DEF IInv, StateOK
      <4>6. h \in Handler
        BY <4>5
      <4>. QED  BY <4>4, <4>6
    <3>2. <<h>> \in Seq(Handler) /\ Members(<<h>>) = {h} /\ ready' = ready \o <<h>>
      BY <2>2, <3>1, One
    <3>3. \A g \in Members(ready \o <<h>>) : g \in Members(ready) \/ g = h
      BY <2>2, <3>2, MembersConcat
    <3>. QED  BY <3>1, <3>2, <3>3
  <2>4. CASE IgnoreClosedApi
    <3>1. ready' = Tail(ready) \o <<>> /\ Tail(ready) \in Seq(Handler)
      BY <2>2, <2>4, MembersTail DEF IgnoreClosedApi, FinishWith
    <3>. QED  BY <2>2, <3>1, None
  <2>5. CASE Broken
    <3>. DEFINE sockets == [conn EXCEPT ![s] = "closed"]
                sends == [outbox EXCEPT ![s] = <<>>]
                aborts == Abort(outbox[s])
    <3>1. HandledSession = s
      BY <2>1 DEF HandledSession
    <3>2. Finish(sockets, sends, aborts \o <<>>, <<>>)
      BY <2>1, <2>5, <3>1 DEF Broken, ApiError
    <3>3. /\ outbox \in [Session -> Seq(Call)] /\ outbox[s] \in Seq(Call)
          /\ sends \in [Session -> Seq(Call)]
      BY <1>1, <2>2, Known
    <3>4. aborts \in Seq(Handler) /\ \A h \in Members(aborts) : h.kind = "sent"
      <4>. DEFINE calls == outbox[s]
      <4>1. calls \in Seq(Call)
        BY <3>3
      <4>. HIDE DEF calls
      <4>2. /\ Len(calls) \in Nat
            /\ \A i \in 1..Len(calls) :
                 [kind |-> "sent", call |-> calls[i], ok |-> FALSE] \in Handler
        BY <4>1, Elements DEF Handler
      <4>3. Abort(calls) \in Seq(Handler)
            /\ \A h \in Members(Abort(calls)) : h.kind = "sent"
        BY <4>2 DEF Abort, Members
      <4>. QED  BY <4>3 DEF calls
    <3>. HIDE DEF sockets, sends, aborts
    <3>5. Finish(sockets, sends, aborts, <<>>)
      BY <3>2, <3>4, None
    <3>6. \A h \in Members(ready') :
            h \in Members(Tail(ready)) \/ h \in Members(aborts) \/ h.kind = "sent"
      BY <1>1, <2>2, <3>3, <3>4, <3>5, FinishPosts, None
    <3>. QED  BY <2>2, <3>4, <3>6
  <2>. QED
    BY <2>1, <2>3, <2>4, <2>5
       DEF Next, RunHandler, Running, AnswerAtOnce, RefuseOpen, CreateSession, RefuseCommand,
           RunCommand, LoseClient, SendAnswer, IgnoreGoneClient, Connected, StartSend,
           SendOnClosed, SendDone, SendFailed, Challenge, LoginRefused, LoginAccepted,
           PassOn, LoadRow, LoadTrap
<1>. QED  BY <1>1, Invariance, PTL DEF Spec, RouterLossIsSilent

-----------------------------------------------------------------------------
(* A step moves the entry of one client at most, as SessionTable allows. *)

Keeps(c) ==
  /\ table'[c] = table[c]
  /\ Has(c) => /\ conn'[table[c]] = conn[table[c]]
               /\ table[c] \in loggedIn <=> table[c] \in loggedIn'

Moves(c) ==
  \/ live' = live /\
       \/ EntryState(c)' = EntryState(c)
       \/ EntryState(c)' = "absent"
       \/ c \in live /\ EntryState(c) = "absent" /\ EntryState(c)' = "opening"
       \/ EntryState(c) = "opening" /\ EntryState(c)' = "ready"
       \/ EntryState(c) = "ready" /\ EntryState(c)' = "wedged"
  \/ live' = live \ {c} /\ c \in live /\ EntryState(c)' = "absent"

OneMoves ==
  \/ live' = live /\ \A d \in Clients : Keeps(d)
  \/ \E c \in Clients : /\ Concerns(c) /\ Moves(c)
                        /\ \A d \in Clients \ {c} : Keeps(d)

LEMMA KeepsState ==
  ASSUME NEW c, Keeps(c)
  PROVE  EntryState(c)' = EntryState(c)
  BY DEF Keeps, EntryState, Has, IsReady

\* The end of a handler leaves the socket of an entry as the handler did.
LEMMA EntryAfter ==
  ASSUME NEW s \in Session, table'[s.client] = s,
         NEW sockets, NEW sends, NEW before, NEW after,
         Finish(sockets, sends, before, after)
  PROVE  conn'[s] = sockets[s]
  BY DEF Finish, Referenced

\* The handlers that touch no entry but that of client c.
LEMMA OthersKeep ==
  ASSUME IInv, NEW c \in Clients,
         NEW sockets, NEW sends, NEW before, NEW after,
         Finish(sockets, sends, before, after),
         \A d \in Clients \ {c} : table'[d] = table[d],
         \A s \in Session : s.client # c => sockets[s] = conn[s],
         \A s \in Session : s.client # c => (s \in loggedIn <=> s \in loggedIn')
  PROVE  \A d \in Clients \ {c} : Keeps(d)
<1>1. SUFFICES ASSUME NEW d \in Clients \ {c}, Has(d)
               PROVE  /\ conn'[table[d]] = conn[table[d]]
                      /\ table[d] \in loggedIn <=> table[d] \in loggedIn'
  BY DEF Keeps
<1>2. table[d] \in Session /\ table[d].client = d /\ table'[d] = table[d]
  BY <1>1, InvFacts DEF IInv, OwnEntry, Has
<1>3. conn'[table[d]] = sockets[table[d]]
  BY <1>2, EntryAfter
<1>. QED  BY <1>2, <1>3

LEMMA Erased ==
  ASSUME IInv, NEW c \in Clients, table' = Erase(c)
  PROVE  /\ EntryState(c)' = "absent"
         /\ \A d \in Clients \ {c} : table'[d] = table[d]
<1>1. table'[c] = NoSession /\ \A d \in Clients \ {c} : table'[d] = table[d]
  BY InvFacts DEF Erase
<1>. QED  BY <1>1 DEF EntryState, Has

LEMMA QuietMoves ==
  ASSUME UNCHANGED <<live, table, conn, loggedIn>>
  PROVE  OneMoves
  BY DEF OneMoves, Keeps

LEMMA CreateSessionMoves ==
  ASSUME IInv, CreateSession
  PROVE  OneMoves
<1>0. PICK r \in Session : r = Head(ready).req
  BY RunningFields DEF CreateSession, Session
<1>. DEFINE c == r.client
<1>1. /\ r \in Session /\ c \in Clients /\ c \in live /\ live' = live
      /\ table[c] = NoSession /\ OpenApi(r) /\ Concerns(c)
  BY <1>0, SessionIsRequest DEF CreateSession, Has, Concerns
<1>2. CASE ~addressParses
  BY <1>1, <1>2, QuietMoves DEF OpenApi, FinishWith
<1>3. CASE addressParses
  <2>1. /\ table' = [table EXCEPT ![c] = r]
        /\ conn' = [conn EXCEPT ![r] = "connecting"]
        /\ loggedIn' = loggedIn
    BY <1>1, <1>3 DEF OpenApi
  <2>2. table'[c] = r /\ conn'[r] = "connecting" /\ r # NoSession
    BY <1>1, <2>1, InvFacts, SessionsAssumption
  <2>3. EntryState(c) = "absent" /\ EntryState(c)' = "opening"
    BY <1>1, <2>2 DEF EntryState, Has, IsReady
  <2>4. ASSUME NEW d \in Clients \ {c}
        PROVE  Keeps(d)
    <3>1. table'[d] = table[d]
      BY <2>1, InvFacts
    <3>2. Has(d) => table[d] \in Session /\ table[d] # r
      BY InvFacts DEF IInv, OwnEntry, Has
    <3>3. Has(d) => conn'[table[d]] = conn[table[d]]
      BY <2>1, <3>2, InvFacts
    <3>. QED  BY <2>1, <3>1, <3>3 DEF Keeps
  <2>. QED  BY <1>1, <2>3, <2>4 DEF OneMoves, Moves
<1>. QED  BY <1>2, <1>3

LEMMA RunCommandMoves ==
  ASSUME IInv, RunCommand
  PROVE  OneMoves
<1>. DEFINE c == Head(ready).req.client
<1>1. /\ c \in Clients /\ live' = live /\ Concerns(c)
      /\ table' = table /\ loggedIn' = loggedIn
  BY RunningFields DEF RunCommand, Request, Concerns
<1>2. PICK after : Finish(conn, outbox, <<>>, after)
  BY DEF RunCommand
<1>3. \A d \in Clients \ {c} : Keeps(d)
  BY <1>1, <1>2, OthersKeep
<1>4. Keeps(c)
  <2>1. Has(c) => table[c] \in Session /\ table[c].client = c
    BY <1>1, InvFacts DEF IInv, OwnEntry, Has
  <2>2. Has(c) => conn'[table[c]] = conn[table[c]]
    BY <1>1, <1>2, <2>1, EntryAfter
  <2>. QED  BY <1>1, <2>2 DEF Keeps
<1>. QED  BY <1>1, <1>3, <1>4 DEF OneMoves

LEMMA LoseClientMoves ==
  ASSUME IInv, LoseClient
  PROVE  OneMoves
<1>0. PICK c \in Clients : c = Head(ready).client
  BY RunningFields DEF LoseClient
<1>1. /\ c \in Clients /\ c \in live /\ live' = live \ {c} /\ Concerns(c)
      /\ table' = Erase(c) /\ loggedIn' = loggedIn
      /\ Finish(conn, outbox, CloseNotice(c), <<>>)
  BY <1>0 DEF LoseClient, Concerns
<1>2. EntryState(c)' = "absent" /\ \A d \in Clients \ {c} : table'[d] = table[d]
  BY <1>1, Erased
<1>3. \A d \in Clients \ {c} : Keeps(d)
  BY <1>1, <1>2, OthersKeep
<1>. QED  BY <1>1, <1>2, <1>3 DEF OneMoves, Moves

LEMMA ConnectedMoves ==
  ASSUME IInv, PInv, Connected
  PROVE  OneMoves
<1>0. PICK s \in Session, ok \in BOOLEAN : s = Head(ready).sess /\ ok = Head(ready).ok
  BY RunningFields DEF Connected
<1>. DEFINE c == s.client
            sockets == [conn EXCEPT ![s] = IF ok THEN "open" ELSE "closed"]
<1>1. /\ ready # <<>> /\ s \in Session /\ c \in Clients /\ Concerns(c)
      /\ live' = live /\ loggedIn' = loggedIn
      /\ table' = IF ok THEN table ELSE Erase(c)
      /\ Head(ready).kind = "connected"
  BY <1>0, SessionIsRequest DEF Connected, Concerns, HandledSession, Running
<1>2. PICK before, after : Finish(sockets, outbox, before, after)
  BY <1>0 DEF Connected
<1>3. \A x \in Session : x # s => sockets[x] = conn[x]
  BY InvFacts
<1>4. \A d \in Clients \ {c} : table'[d] = table[d]
  BY <1>1, Erased
<1>5. \A d \in Clients \ {c} : Keeps(d)
  <2>. HIDE DEF sockets, c
  <2>1. \A x \in Session : x.client # c => sockets[x] = conn[x]
    BY <1>3 DEF c
  <2>. QED  BY <1>1, <1>2, <1>4, <2>1, OthersKeep
<1>6. CASE ~ok
  BY <1>1, <1>5, <1>6, Erased DEF OneMoves, Moves
<1>7. CASE ok /\ (~Has(c) \/ table[c] # s)
  <2>1. Keeps(c)
    <3>1. Has(c) => table[c] \in Session /\ table[c].client = c
      BY <1>1, InvFacts DEF IInv, OwnEntry, Has
    <3>2. Has(c) => conn'[table[c]] = sockets[table[c]]
      BY <1>1, <1>2, <1>7, <3>1, EntryAfter
    <3>. QED  BY <1>1, <1>3, <1>7, <3>1, <3>2 DEF Keeps
  <2>. QED  BY <1>1, <1>5, <2>1, KeepsState DEF OneMoves, Moves
<1>8. CASE ok /\ table[c] = s
  <2>1. conn[s] = "connecting"
    BY <1>0, <1>1, Taken DEF PInv, Staged
  <2>2. s \notin loggedIn
    BY <1>1, <2>1 DEF PInv, LoginSteps
  <2>3. sockets[s] = "open"
    BY <1>1, <1>8, InvFacts
  <2>4. conn'[s] = "open"
    BY <1>1, <1>2, <1>8, <2>3, EntryAfter
  <2>5. s # NoSession /\ table'[c] = s
    BY <1>1, <1>8, SessionsAssumption
  <2>6. EntryState(c) = "opening" /\ EntryState(c)' = "opening"
    BY <1>1, <1>8, <2>1, <2>2, <2>4, <2>5 DEF EntryState, Has, IsReady
  <2>. QED  BY <1>1, <1>5, <2>6 DEF OneMoves, Moves
<1>. QED  BY <1>6, <1>7, <1>8

LEMMA FailCallMoves ==
  ASSUME IInv, NEW k \in AllowedCall, Concerns(k.sess.client),
         NEW sockets, NEW sends, NEW aborts, FailCall(k, sockets, sends, aborts),
         \/ sockets = conn
         \/ sockets = [conn EXCEPT ![k.sess] = "closed"] /\ conn[k.sess] = "open"
  PROVE  OneMoves
<1>. DEFINE s == k.sess
            c == s.client
<1>1. /\ k \in Call /\ s \in Session /\ c \in Clients
      /\ live' = live /\ loggedIn' = loggedIn
      /\ table' = IF k.step = "user" THEN table ELSE Erase(c)
  BY CallFields, SessionIsRequest DEF FailCall, AllowedCall
<1>2. PICK before, after : Finish(sockets, sends, before, after)
  BY DEF FailCall
<1>3. \A x \in Session : x # s => sockets[x] = conn[x]
  BY InvFacts
<1>4. \A d \in Clients \ {c} : table'[d] = table[d]
  BY <1>1, Erased
<1>5. \A d \in Clients \ {c} : Keeps(d)
  <2>. HIDE DEF c
  <2>1. \A x \in Session : x.client # c => sockets[x] = conn[x]
    BY <1>3 DEF c
  <2>. QED  BY <1>1, <1>2, <1>4, <2>1, OthersKeep
<1>6. CASE k.step # "user"
  BY <1>1, <1>5, <1>6, Erased DEF OneMoves, Moves
<1>7. CASE k.step = "user"
  <2>1. table' = table /\ s \in loggedIn
    BY <1>1, <1>7 DEF AllowedCall
  <2>2. Has(c) => table[c] \in Session /\ table[c].client = c
    BY <1>1, InvFacts DEF IInv, OwnEntry, Has
  <2>3. Has(c) => conn'[table[c]] = sockets[table[c]]
    BY <1>2, <2>1, <2>2, EntryAfter
  <2>4. CASE ~Has(c) \/ table[c] # s \/ sockets = conn
    <3>1. Keeps(c)
      BY <1>1, <1>3, <2>1, <2>2, <2>3, <2>4 DEF Keeps
    <3>. QED  BY <1>1, <1>5, <3>1, KeepsState DEF OneMoves, Moves
  <2>5. CASE Has(c) /\ table[c] = s /\ sockets # conn
    <3>1. conn[s] = "open" /\ sockets[s] = "closed"
      BY <1>1, <2>5, InvFacts
    <3>2. EntryState(c) = "ready" /\ EntryState(c)' = "wedged"
      BY <2>1, <2>3, <2>5, <3>1 DEF EntryState, Has, IsReady
    <3>. QED  BY <1>1, <1>5, <3>2 DEF OneMoves, Moves
  <2>. QED  BY <2>4, <2>5
<1>. QED  BY <1>6, <1>7

LEMMA SendFailureMoves ==
  ASSUME IInv, SendOnClosed \/ SendFailed \/ LoginRefused
  PROVE  OneMoves
<1>0. PICK k \in Call : k = Head(ready).call
  BY RunningFields DEF SendOnClosed, SendFailed, LoginRefused, AllowedCall
<1>1. ready # <<>> /\ Concerns(k.sess.client) /\ k.sess \in Session
  <2>1. HandledSession = k.sess
    BY <1>0 DEF SendOnClosed, SendFailed, LoginRefused, HandledSession, Running
  <2>. QED  BY <2>1, RunningFields, CallFields DEF SendOnClosed, SendFailed, LoginRefused, Concerns
<1>2. k \in AllowedCall
  BY <1>0, RunningFields DEF SendOnClosed, SendFailed, LoginRefused, AllowedCall
<1>3. CASE SendOnClosed \/ LoginRefused
  <2>1. FailCall(k, conn, outbox, <<>>)
    BY <1>0, <1>3 DEF SendOnClosed, LoginRefused
  <2>. QED  BY <1>1, <1>2, <2>1, FailCallMoves
<1>4. CASE SendFailed
  <2>. DEFINE s == k.sess
  <2>1. /\ FailCall(k, [conn EXCEPT ![s] = "closed"], [outbox EXCEPT ![s] = <<>>],
                    Abort(outbox[s]))
        /\ conn[s] = "open"
    BY <1>0, <1>4 DEF SendFailed
  <2>. QED  BY <1>1, <1>2, <2>1, FailCallMoves
<1>. QED  BY <1>3, <1>4

LEMMA BrokenMoves ==
  ASSUME IInv, Broken
  PROVE  OneMoves
<1>0. PICK s \in Session : s = HandledSession
  BY RunningFields, CallFields DEF Broken, HandledSession, Running
<1>. DEFINE c == s.client
            sockets == [conn EXCEPT ![s] = "closed"]
<1>1. /\ c \in Clients /\ Concerns(c)
      /\ live' = live /\ loggedIn' = loggedIn /\ table' = Erase(c)
  BY <1>0, SessionIsRequest DEF Broken, ApiError, Concerns
<1>2. PICK sends, before : Finish(sockets, sends, before, <<>>)
  BY <1>0 DEF Broken, ApiError
<1>3. EntryState(c)' = "absent" /\ \A d \in Clients \ {c} : table'[d] = table[d]
  BY <1>1, Erased
<1>4. \A x \in Session : x # s => sockets[x] = conn[x]
  BY InvFacts
<1>5. \A d \in Clients \ {c} : Keeps(d)
  <2>. HIDE DEF sockets, c
  <2>1. \A x \in Session : x.client # c => sockets[x] = conn[x]
    BY <1>4 DEF c
  <2>. QED  BY <1>1, <1>2, <1>3, <2>1, OthersKeep
<1>. QED  BY <1>1, <1>3, <1>5 DEF OneMoves, Moves

LEMMA LoginAcceptedMoves ==
  ASSUME IInv, PInv, LoginAccepted
  PROVE  OneMoves
<1>0. PICK k \in Call : k = Head(ready).call
  BY RunningFields DEF LoginAccepted
<1>. DEFINE s == k.sess
            c == s.client
<1>1. /\ s \in Session /\ c \in Clients
      /\ k.step = "login2" /\ stage[k] = "waiting" /\ conn[s] = "open"
      /\ live' = live /\ loggedIn' = loggedIn \cup {s} /\ table' = table
  BY <1>0, CallFields, SessionIsRequest DEF LoginAccepted, Answers
<1>2. Concerns(c)
  BY <1>0, <1>1 DEF LoginAccepted, Concerns, HandledSession, Running
<1>3. PICK after : Finish(conn, outbox, <<>>, after)
  BY DEF LoginAccepted
<1>4. \A d \in Clients \ {c} : Keeps(d)
  <2>1. \A x \in Session : x.client # c => (x \in loggedIn <=> x \in loggedIn')
    BY <1>1
  <2>. QED  BY <1>1, <1>3, <2>1, OthersKeep
<1>5. s \notin loggedIn
  <2>1. k = LoginCall(s, "login2")
    BY <1>1, LoginCalls
  <2>. QED  BY <1>1, <2>1 DEF PInv, LoginSteps
<1>6. CASE table[c] = s
  <2>1. conn'[s] = "open" /\ s # NoSession
    BY <1>1, <1>3, <1>6, EntryAfter, SessionsAssumption
  <2>2. EntryState(c) = "opening" /\ EntryState(c)' = "ready"
    BY <1>1, <1>5, <1>6, <2>1 DEF EntryState, Has, IsReady
  <2>. QED  BY <1>1, <1>2, <1>4, <2>2 DEF OneMoves, Moves
<1>7. CASE table[c] # s
  <2>1. Has(c) => table[c] \in Session /\ table[c].client = c
    BY <1>1, InvFacts DEF IInv, OwnEntry, Has
  <2>2. Has(c) => conn'[table[c]] = conn[table[c]]
    BY <1>1, <1>3, <2>1, EntryAfter
  <2>3. Keeps(c)
    BY <1>1, <1>7, <2>2 DEF Keeps
  <2>. QED  BY <1>1, <1>2, <1>4, <2>3, KeepsState DEF OneMoves, Moves
<1>. QED  BY <1>6, <1>7

LEMMA NextMoves ==
  ASSUME IInv, PInv, [Next]_vars
  PROVE  OneMoves
<1>1. CASE UNCHANGED vars
  BY <1>1, QuietMoves DEF vars
<1>2. CASE Environment
  BY <1>2, QuietMoves DEF Environment, ClientRequest, ClientLost, ConnectCompletes, Transmit,
     RouterBreaks, RouterAnswers
<1>3. CASE \/ AnswerAtOnce \/ RefuseOpen \/ RefuseCommand \/ SendAnswer
           \/ IgnoreGoneClient \/ IgnoreClosedApi \/ StartSend \/ SendDone
           \/ Challenge \/ PassOn \/ LoadRow \/ LoadTrap
  BY <1>3, QuietMoves
     DEF AnswerAtOnce, RefuseOpen, RefuseCommand, SendAnswer, IgnoreGoneClient,
         IgnoreClosedApi, StartSend, SendDone, Challenge, PassOn, LoadRow, LoadTrap, FinishWith
<1>. QED
  BY <1>1, <1>2, <1>3, CreateSessionMoves, RunCommandMoves, LoseClientMoves, ConnectedMoves,
     SendFailureMoves, BrokenMoves, LoginAcceptedMoves DEF Next, RunHandler

\* No handler of one client, or of an API connection that it has opened, touches
\* the session of another client.
THEOREM EachClientAlone == Spec => ClientsAreIsolated
<1>. DEFINE Alone == \A c \in Clients :
                       ~Concerns(c) =>
                         /\ table'[c] = table[c]
                         /\ Has(c) => /\ conn'[table[c]] = conn[table[c]]
                                      /\ table[c] \in loggedIn <=> table[c] \in loggedIn'
<1>1. ASSUME IInv, PInv, [Next]_vars  PROVE Alone
  <2>1. OneMoves
    BY <1>1, NextMoves
  <2>. QED  BY <2>1 DEF OneMoves, Keeps
<1>. QED  BY <1>1, Invariance, Places, PTL DEF Spec, ClientsAreIsolated

\* sessions_service keeps the promise of SessionTable, whatever its clients and
\* the router do.
THEOREM TableImplemented == Spec => ImplementsTable
<1>. DEFINE e == [c \in Clients |-> EntryState(c)]
            g == Clients \ live
<1>1. Init => Table!Init
  <2>1. SUFFICES ASSUME Init  PROVE e = [c \in Clients |-> "absent"] /\ g = {}
    BY DEF Table!Init
  <2>. QED  BY <2>1 DEF Init, EntryState, Has
<1>2. ASSUME IInv, PInv, [Next]_vars
      PROVE  [Table!Next]_<<e, g>>
  <2>1. OneMoves
    BY <1>2, NextMoves
  <2>2. live \subseteq Clients
    BY <1>2 DEF IInv, StateOK
  <2>3. \A c \in Clients : EntryState(c) \in {"absent", "opening", "ready", "wedged"}
    BY DEF EntryState
  <2>4. \A d \in Clients : Keeps(d) => EntryState(d)' = EntryState(d)
    BY KeepsState
  <2>5. CASE live' = live /\ \A d \in Clients : Keeps(d)
    <3>1. e' = e /\ g' = g
      BY <2>4, <2>5
    <3>. QED  BY <3>1
  <2>6. ASSUME NEW c \in Clients, Moves(c), \A d \in Clients \ {c} : Keeps(d)
        PROVE  [Table!Next]_<<e, g>>
    <3>1. e' = [e EXCEPT ![c] = EntryState(c)'] /\ e[c] = EntryState(c)
      BY <2>4, <2>6
    <3>. HIDE DEF e, g
    <3>2. CASE live' = live
      <4>1. g' = g
        BY <3>2 DEF g
      <4>2. CASE EntryState(c)' = EntryState(c)
        <5>1. e' = e
          BY <2>4, <2>6, <4>2 DEF e
        <5>. QED  BY <4>1, <5>1
      <4>3. CASE EntryState(c)' = "absent"
        <5>1. Table!End(c)
          BY <2>3, <3>1, <4>1, <4>3 DEF Table!End, Table!Become, Table!State, e, g
        <5>. QED  BY <5>1 DEF Table!Next
      <4>4. CASE c \in live /\ EntryState(c) = "absent" /\ EntryState(c)' = "opening"
        <5>1. Table!Open(c)
          BY <3>1, <4>1, <4>4 DEF Table!Open, Table!Become, e, g
        <5>. QED  BY <5>1 DEF Table!Next
      <4>5. CASE EntryState(c) = "opening" /\ EntryState(c)' = "ready"
        <5>1. Table!Accepted(c)
          BY <3>1, <4>1, <4>5 DEF Table!Accepted, Table!Become, e, g
        <5>. QED  BY <5>1 DEF Table!Next
      <4>6. CASE EntryState(c) = "ready" /\ EntryState(c)' = "wedged"
        <5>1. Table!Wedge(c)
          BY <3>1, <4>1, <4>6 DEF Table!Wedge, Table!Become, e, g
        <5>. QED  BY <5>1 DEF Table!Next
      <4>7. CASE live' = live \ {c} /\ c \in live
        BY <3>2, <4>7
      <4>. QED  BY <2>6, <4>2, <4>3, <4>4, <4>5, <4>6, <4>7 DEF Moves
    <3>3. CASE live' = live \ {c} /\ c \in live /\ EntryState(c)' = "absent"
      <4>1. g' = g \cup {c}
        BY <2>2, <3>3 DEF g
      <4>2. Table!Leave(c)
        BY <3>1, <3>3, <4>1 DEF Table!Leave, e, g
      <4>. QED  BY <4>2 DEF Table!Next
    <3>. QED  BY <2>6, <3>2, <3>3 DEF Moves
  <2>. QED  BY <2>1, <2>5, <2>6 DEF OneMoves
<1>. QED  BY <1>1, <1>2, Invariance, Places, PTL DEF Spec, ImplementsTable, Table!Spec

=============================================================================
