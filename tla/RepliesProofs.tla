--------------------------- MODULE RepliesProofs ---------------------------
(***************************************************************************)
(* Proofs about what Sessions answers, for any number of clients, requests  *)
(* and replies: the properties that speak of all the answers to a request.  *)
(***************************************************************************)
EXTENDS SessionsProofs

\* A login of session s is under way.
LoggingIn(s) ==
  \E step \in {"login1", "login2"} : Pending(LoginCall(s, step))

\* A request that is still to come, or to be served, has no answer.
UnservedAnswers ==
  /\ \A r \in Request : r.n > issued[r.client] => Codes(r) = {}
  /\ \A h \in Members(ready) : h.kind = "request" => Codes(h.req) = {}

\* Until its login ends an open has no answer, and while its session is the
\* client's it has none but the success.
OpenAnswers ==
  \A s \in Session :
    /\ conn[s] = "connecting" \/ LoggingIn(s) => Codes(s) = {}
    /\ table[s.client] = s =>
         Codes(s) \subseteq (IF s \in loggedIn THEN {"success"} ELSE {})

\* A command's callback is for a session that was logged in then, and there is
\* one for a request at most.
UserCalls ==
  /\ \A k \in Call : k.step = "user" /\ stage[k] # "none" => k.sess \in loggedIn
  /\ \A k, l \in Call :
       /\ k.step = "user" /\ stage[k] # "none"
       /\ l.step = "user" /\ stage[l] # "none"
       /\ k.req = l.req
       => k = l

\* An api_send whose callback is still to be called has not been answered, and
\* one whose callback is kept has not been answered for the last time.
SendAnswers ==
  \A k \in Call : k.step = "user" /\ k.req.op = "send" =>
    /\ stage[k] \in {"posted", "sending"} => Codes(k.req) = {}
    /\ stage[k] = "waiting" => Codes(k.req) \subseteq {"row", "trap", "ret"}

HeldIsLoggedIn == \A m \in Command : held[m] # NoSession => held[m] \in loggedIn

AInv ==
  /\ UnservedAnswers /\ OpenAnswers /\ UserCalls /\ SendAnswers /\ HeldIsLoggedIn
  /\ OpenAnsweredOnce /\ SendAnswersEnd

-----------------------------------------------------------------------------

\* The completion of a send that has reached the router.
HasSent(k) == [kind |-> "sent", call |-> k, ok |-> TRUE]

SentenceFor(k) == \E h \in Members(ready) : h.kind = "sentence" /\ h.call = k

\* The router has a sentence only when its send has completed, and its answer
\* is behind that completion in the queue.
SentFirst ==
  \A k \in Call : conn[k.sess] # "closed" =>
    /\ owed[k] > 0 => \/ stage[k] \in {"waiting", "done"}
                      \/ HasSent(k) \in Members(ready)
    /\ \A i \in 1..Len(ready) : ready[i].kind = "sentence" /\ ready[i].call = k =>
         \/ stage[k] \in {"waiting", "done"}
         \/ \E j \in 1..Len(ready) : j < i /\ ready[j] = HasSent(k)

OneReading ==
  \A i, j \in 1..Len(ready) :
    /\ ready[i].kind = "sentence" /\ ready[j].kind = "sentence"
    /\ ready[i].call.sess = ready[j].call.sess
    => i = j

\* The router is done with a call after its last sentence.
LastSentence ==
  \A h \in Members(ready) : h.kind = "sentence" =>
    (owed[h.call] = 0 <=> h.reply \notin {"row", "blank", "trap"})

EndCode(k) == IF k.req.op = "load" THEN "success" ELSE "blank"

\* A callback that is gone while the router has more to say was that of a
\* command, which a row without parameters has ended.
EndedEarly ==
  \A k \in Call :
    conn[k.sess] # "closed" /\ stage[k] = "done" /\ (owed[k] > 0 \/ SentenceFor(k)) =>
      k.step = "user" /\ (k.req.client \in live => EndCode(k) \in Codes(k.req))

\* A callback that waits has an answer to come, or has taken the last one for
\* a row.
Awaited ==
  \A k \in Call :
    /\ conn[k.sess] # "closed" /\ k.sess.client \in live
    /\ stage[k] = "waiting" \/ HasSent(k) \in Members(ready)
    => owed[k] > 0 \/ SentenceFor(k) \/ "ret" \in Codes(k.req)

BInv == SentFirst /\ OneReading /\ LastSentence /\ EndedEarly /\ Awaited

-----------------------------------------------------------------------------

\* The entry of a client is its latest session,
Latest ==
  \A s \in Session : conn[s] # "none" /\ Has(s.client) => s.n <= table[s.client].n

\* its first request's, until that one's connection ends.
FirstStays ==
  \A s \in Session :
    s.n = 1 /\ s.client \in live /\ conn[s] \in {"connecting", "open"} =>
      table[s.client] = s

\* What is left then of the first login runs before the next session connects.
FirstGoesFirst ==
  \A s \in Session : s.n = 1 /\ Has(s.client) /\ table[s.client] # s =>
    \A i \in 1..Len(ready) :
      Sends(ready[i]) /\ ready[i].call.sess = s /\ ready[i].call.step # "user" =>
        /\ conn[table[s.client]] = "connecting"
        /\ \A j \in 1..Len(ready) :
             ready[j].kind = "connected" /\ ready[j].sess = table[s.client] => i < j

\* Who is told that a session is closed.
Notices ==
  \A r \in Session : "session_closed" \in Codes(r) =>
    r.n > 2 \/ (r.client \notin live /\ "session_closed" \notin Sent(r))

CInv == Latest /\ FirstStays /\ FirstGoesFirst /\ Notices

HInv == AInv /\ BInv /\ CInv

-----------------------------------------------------------------------------
(* What the handlers have in common.  A handler, other than the one that     *)
(* hands an answer to the client, posts the answers A and moves sockets,     *)
(* callbacks and entries as follows.                                         *)

\* The request that runs.
Runs(r) == Running("request") /\ Head(ready).req = r

\* The answers in q are those of A, one to a request.
Says(q, A) ==
  /\ \A h \in Members(q) : h.kind = "respond" => <<h.req, h.code>> \in A
  /\ \A a \in A : \E h \in Members(q) : h.kind = "respond" /\ <<h.req, h.code>> = a
  /\ \A i, j \in 1..Len(q) :
       /\ q[i].kind = "respond" /\ q[j].kind = "respond" /\ q[i].req = q[j].req
       => i = j

\* What a handler posts.
Leaves(h) ==
  \/ h.kind = "respond"
  \/ h.kind = "post" /\ (h.call.step = "user" \/ conn'[h.call.sess] = "open")
  \/ h.kind = "sent" /\ ~h.ok /\ conn[h.call.sess] \in {"connecting", "open"}

Posts(A) ==
  /\ ready # <<>>
  /\ \E q \in Seq(Handler) : /\ ready' = Tail(ready) \o q
                             /\ Says(q, A)
                             /\ \A h \in Members(q) : Leaves(h)

SocketStep(s) ==
  \/ conn'[s] = conn[s]
  \/ /\ conn[s] = "none" /\ conn'[s] = "connecting" /\ Runs(s)
     /\ table[s.client] = NoSession /\ table'[s.client] = s
  \/ /\ conn[s] = "connecting" /\ conn'[s] \in {"open", "closed"}
     /\ Running("connected") /\ Head(ready).sess = s
  \/ conn[s] = "open" /\ conn'[s] = "closed"

StageStep(k, A) ==
  \/ stage'[k] = stage[k]
  \/ /\ stage[k] = "none" /\ stage'[k] = "posted"
     /\ \/ /\ k.step = "user" /\ Runs(k.req)
           /\ k.sess = table[k.req.client] /\ k.sess \in loggedIn
        \/ k.step = "login1" /\ conn[k.sess] = "connecting"
        \/ k.step = "login2" /\ stage[LoginCall(k.sess, "login1")] = "waiting"
  \/ stage[k] = "posted" /\ stage'[k] = "sending"
  \/ stage[k] = "sending" /\ stage'[k] = "waiting" /\ Head(ready) = HasSent(k)
  \/ /\ stage[k] \in {"posted", "sending"} /\ stage'[k] = "done"
     /\ conn'[k.sess] # "open"
  \/ /\ stage[k] = "waiting" /\ stage'[k] = "done"
     /\ Running("sentence") /\ Head(ready).call = k
     /\ \/ conn'[k.sess] # "open"
        \/ Head(ready).reply \notin {"row", "blank", "trap"}
        \/ k.step = "user" /\ <<k.req, EndCode(k)>> \in A

\* What a handler of a call does that leaves its callback in read_cbs_.
HeadStep(k, A) ==
  conn'[k.sess] = "open" =>
    /\ Head(ready) = HasSent(k) => stage'[k] = "waiting"
    /\ Running("sentence") /\ Head(ready).call = k /\ stage'[k] = "waiting" =>
         Head(ready).reply \in {"row", "blank", "trap"} \/ <<k.req, "ret">> \in A

\* An entry goes with its client, or through a connection that has ended.
TableStep(c) ==
  \/ table'[c] = table[c]
  \/ /\ table[c] = NoSession /\ table'[c] \in Session /\ Runs(table'[c])
     /\ table'[c].client = c /\ conn'[table'[c]] = "connecting"
  \/ /\ table'[c] = NoSession
     /\ \/ c \notin live'
        \/ \E x \in Session : /\ x.client = c
                              /\ conn[x] # "none"
                              /\ conn'[x] \notin {"connecting", "open"}

LoginStep(s) ==
  /\ s \in loggedIn => s \in loggedIn'
  /\ s \in loggedIn' =>
       \/ s \in loggedIn
       \/ /\ stage[LoginCall(s, "login2")] = "waiting"
          /\ stage'[LoginCall(s, "login2")] = "done"

\* A connection of r's client, other than r's, whose end r may hear of.
Disturbs(x, r) ==
  /\ x # r /\ x.client = r.client /\ conn[x] # "none"
  /\ \/ conn[x] \in {"connecting", "open"}
     \/ /\ Sends(Head(ready)) /\ Head(ready).call.sess = x
        /\ Head(ready).call.step # "user"

\* Which answer x may be given to r: to the request that runs and has come to
\* nothing; to a session that is closed; to one whose login has ended; to a
\* command.
May(r, x) ==
  \/ /\ Runs(r) /\ x # "session_closed"
     /\ r \in Session => conn'[r] = conn[r] /\ table'[r.client] # r
     /\ \A k \in Call : k.step = "user" /\ k.req = r => stage'[k] = stage[k]
  \/ /\ x = "session_closed" /\ r \in Session
     /\ table[r.client] = r /\ IsReady(r) /\ table'[r.client] = NoSession
     /\ \/ r.client \notin live'
        \/ \E y \in Session : Disturbs(y, r)
  \/ /\ r \in Session /\ x # "session_closed"
     /\ conn[r] = "connecting" \/ LoggingIn(r)
     /\ conn'[r] # "connecting" /\ ~LoggingIn(r)'
     /\ table'[r.client] # r \/ (r \in loggedIn' /\ x = "success")
  \/ \E k \in Call :
       /\ k.step = "user" /\ k.req = r /\ x # "session_closed"
       /\ \/ stage[k] \in {"posted", "sending"} /\ stage'[k] = "done"
          \/ /\ stage[k] = "waiting"
             /\ k.req.op = "send" =>
                  \/ x \in {"row", "trap", "ret"}
                  \/ x \in {"done", "blank"} /\ stage'[k] = "done"

Account(A) ==
  /\ Posts(A)
  /\ A \subseteq Request \X Code
  /\ Running("respond") => Head(ready).req.client \notin live
  /\ \A r \in Request, x \in Code : <<r, x>> \in A => May(r, x)
  /\ UNCHANGED <<issued, owed, replies>> /\ live' \subseteq live
  /\ \A s \in Session : SocketStep(s) /\ LoginStep(s)
  /\ \A k \in Call : StageStep(k, A) /\ HeadStep(k, A)
  /\ \A c \in Clients : TableStep(c)
  /\ \A m \in Command : held'[m] = held[m] \/ held'[m] \in loggedIn

-----------------------------------------------------------------------------
(* What is posted. *)

\* The order in which three sequences are joined does not matter.
Associates(s, t, u) == (s \o t) \o u = s \o (t \o u)

LEMMA Associative ==
  ASSUME NEW S, NEW s \in Seq(S), NEW t \in Seq(S), NEW u \in Seq(S)
  PROVE  Associates(s, t, u)
  BY DEF Associates

LEMMA SaysNothing ==
  ASSUME NEW q \in Seq(Handler), \A h \in Members(q) : h.kind # "respond"
  PROVE  Says(q, {})
  BY DEF Says, Members

LEMMA SaysOne ==
  ASSUME NEW r \in Request, NEW x \in Code
  PROVE  /\ Respond(r, x) \in Seq(Handler)
         /\ Says(Respond(r, x), {<<r, x>>})
         /\ \A h \in Members(Respond(r, x)) : h.kind = "respond"
<1>. DEFINE h == [kind |-> "respond", req |-> r, code |-> x]
<1>1. h \in Handler /\ h.kind = "respond" /\ h.req = r /\ h.code = x
  BY DEF Handler
<1>2. Respond(r, x) = <<h>>
  BY DEF Respond
<1>. HIDE DEF h
<1>3. <<h>> \in Seq(Handler) /\ Members(<<h>>) = {h} /\ 1..Len(<<h>>) = {1} /\ <<h>>[1] = h
  BY <1>1, One
<1>4. Says(<<h>>, {<<r, x>>})
  BY <1>1, <1>3 DEF Says
<1>. QED  BY <1>1, <1>2, <1>3, <1>4

LEMMA SaysConcat ==
  ASSUME NEW s \in Seq(Handler), NEW t \in Seq(Handler), NEW A, NEW B,
         Says(s, A), Says(t, B),
         \A g \in Members(s), h \in Members(t) :
           g.kind = "respond" /\ h.kind = "respond" => g.req # h.req
  PROVE  Says(s \o t, A \cup B)
<1> DEFINE u == s \o t
<1>1. /\ Len(s) \in Nat /\ Len(t) \in Nat
      /\ \A i \in 1..Len(u) :
           \/ i \in 1..Len(s) /\ u[i] = s[i]
           \/ i - Len(s) \in 1..Len(t) /\ u[i] = t[i - Len(s)]
  BY ConcatFacts
<1>2. /\ \A h \in Members(s) : h \in Members(u)
      /\ \A h \in Members(t) : h \in Members(u)
      /\ \A h \in Members(u) : h \in Members(s) \/ h \in Members(t)
  BY MembersConcat
<1> HIDE DEF u
<1>3. /\ \A i \in 1..Len(s) : s[i] \in Members(s)
      /\ \A i \in 1..Len(t) : t[i] \in Members(t)
  BY DEF Members
<1>4. ASSUME NEW i \in 1..Len(u), NEW j \in 1..Len(u),
             u[i].kind = "respond", u[j].kind = "respond", u[i].req = u[j].req
      PROVE  i = j
  <2>1. CASE i \in 1..Len(s) /\ u[i] = s[i] /\ j \in 1..Len(s) /\ u[j] = s[j]
    BY <1>4, <2>1 DEF Says
  <2>2. CASE /\ i - Len(s) \in 1..Len(t) /\ u[i] = t[i - Len(s)]
             /\ j - Len(s) \in 1..Len(t) /\ u[j] = t[j - Len(s)]
    <3>1. i - Len(s) = j - Len(s)
      BY <1>4, <2>2 DEF Says
    <3>. QED  BY <1>1, <3>1
  <2>. QED  BY <1>1, <1>3, <1>4, <2>1, <2>2
<1>5. /\ \A h \in Members(u) : h.kind = "respond" => <<h.req, h.code>> \in A \cup B
      /\ \A a \in A \cup B : \E h \in Members(u) : h.kind = "respond" /\ <<h.req, h.code>> = a
  BY <1>2 DEF Says
<1>. QED  BY <1>4, <1>5 DEF Says, u

\* The handlers that change no session's owner.
LEMMA FinishWithSays ==
  ASSUME IInv, ready # <<>>, NEW q \in Seq(Handler), NEW A, Says(q, A),
         \A h \in Members(q) : Leaves(h), ready' = Tail(ready) \o q
  PROVE  Posts(A)
  BY DEF Posts

\* The handlers that may let go of sessions post the answers A and B, before
\* and after that.
Posting(sockets, sends, before, after, A, B) ==
  /\ sends \in [Session -> Seq(Call)]
  /\ before \in Seq(Handler) /\ Says(before, A) /\ \A h \in Members(before) : Leaves(h)
  /\ after \in Seq(Handler) /\ Says(after, B) /\ \A h \in Members(after) : Leaves(h)
  /\ \A g \in Members(before), h \in Members(after) :
       g.kind = "respond" /\ h.kind = "respond" => g.req # h.req
  /\ \A s \in Session : /\ sockets[s] = "open" => conn[s] \in {"connecting", "open"}
                        /\ \A k \in Members(sends[s]) : k.sess = s

LEMMA FinishSays ==
  ASSUME IInv, ready # <<>>,
         NEW sockets, NEW sends, NEW before, NEW after, NEW A, NEW B,
         Finish(sockets, sends, before, after),
         Posting(sockets, sends, before, after, A, B)
  PROVE  Posts(A \cup B)
<1>0. /\ sends \in [Session -> Seq(Call)]
      /\ before \in Seq(Handler) /\ Says(before, A) /\ \A h \in Members(before) : Leaves(h)
      /\ after \in Seq(Handler) /\ Says(after, B) /\ \A h \in Members(after) : Leaves(h)
      /\ \A g \in Members(before), h \in Members(after) :
           g.kind = "respond" /\ h.kind = "respond" => g.req # h.req
      /\ \A s \in Session : /\ sockets[s] = "open" => conn[s] \in {"connecting", "open"}
                            /\ \A k \in Members(sends[s]) : k.sess = s
  BY DEF Posting
<1>. DEFINE dying == {s \in Session : sockets[s] = "open" /\ ~Referenced(s)'}
            busy  == {s \in dying : sends[s] # <<>>}
            some  == CHOOSE s \in busy : TRUE
            aborts == IF busy = {} THEN <<>> ELSE Abort(sends[some])
            most  == before \o aborts
            q     == most \o after
<1>1. ready' = ((Tail(ready) \o before) \o aborts) \o after
  BY DEF Finish
<1>2. busy # {} => some \in Session /\ sockets[some] = "open"
  OBVIOUS
<1>. HIDE DEF busy, some, dying
<1>3. aborts \in Seq(Handler) /\ \A h \in Members(aborts) : h.kind = "sent" /\ Leaves(h)
  <2>1. CASE busy = {}
    BY <2>1, None
  <2>2. CASE busy # {}
    <3>. DEFINE calls == sends[some]
    <3>1. /\ calls \in Seq(Call) /\ aborts = Abort(calls)
          /\ \A k \in Members(calls) : conn[k.sess] \in {"connecting", "open"}
      BY <1>0, <1>2, <2>2
    <3>. HIDE DEF calls, aborts
    <3>2. /\ Len(calls) \in Nat
          /\ \A i \in 1..Len(calls) :
               /\ [kind |-> "sent", call |-> calls[i], ok |-> FALSE] \in Handler
               /\ calls[i] \in Members(calls)
      BY <3>1, Elements DEF Handler, Members
    <3>3. Abort(calls) \in Seq(Handler)
      BY <3>2 DEF Abort
    <3>4. ASSUME NEW h \in Members(Abort(calls))
          PROVE  h.kind = "sent" /\ Leaves(h)
      <4>1. PICK i \in 1..Len(calls) : h = [kind |-> "sent", call |-> calls[i], ok |-> FALSE]
        BY <3>2 DEF Abort, Members
      <4>2. h.kind = "sent" /\ h.call = calls[i] /\ ~h.ok
        BY <4>1
      <4>. QED  BY <3>1, <3>2, <4>2 DEF Leaves
    <3>. QED  BY <3>1, <3>3, <3>4
  <2>. QED  BY <2>1, <2>2
<1>. HIDE DEF aborts
<1>4. Tail(ready) \in Seq(Handler)
  BY Known, MembersTail
<1>5. /\ most \in Seq(Handler) /\ Says(most, A)
      /\ \A h \in Members(most) : h \in Members(before) \/ h \in Members(aborts)
  <2>1. Says(aborts, {})
    BY <1>3, SaysNothing
  <2>2. Says(most, A \cup {})
    BY <1>0, <1>3, <2>1, SaysConcat
  <2>. QED  BY <1>0, <1>3, <2>2, MembersConcat
<1>6. ready' = Tail(ready) \o q
  <2>. DEFINE rest == Tail(ready)
  <2>1. /\ rest \in Seq(Handler) /\ before \in Seq(Handler)
        /\ most \in Seq(Handler) /\ after \in Seq(Handler)
    BY <1>0, <1>4, <1>5
  <2>. HIDE DEF rest, most
  <2>2. Associates(rest, before, aborts) /\ Associates(rest, most, after)
    BY <1>3, <2>1, Associative
  <2>3. ready' = ((rest \o before) \o aborts) \o after
    BY <1>1 DEF rest
  <2>4. (rest \o before) \o aborts = rest \o most
    BY <2>2 DEF Associates, most
  <2>5. ready' = (rest \o most) \o after
    BY <2>3, <2>4, Zenon
  <2>. QED  BY <2>2, <2>5, Zenon DEF Associates, rest
<1>. HIDE DEF most
<1>7. /\ q \in Seq(Handler) /\ Says(q, A \cup B)
      /\ \A h \in Members(q) : h \in Members(most) \/ h \in Members(after)
  BY <1>0, <1>3, <1>5, SaysConcat, MembersConcat
<1>. HIDE DEF q
<1>. QED  BY <1>0, <1>3, <1>5, <1>6, <1>7 DEF Posts

-----------------------------------------------------------------------------
(* What a request has been answered. *)

\* What a handler's posts add to it.
LEMMA AnswersPosted ==
  ASSUME IInv, IInv', NEW A, Posts(A), replies' = replies, NEW r
  PROVE  /\ \A x : x \in Codes(r)' => x \in Codes(r) \/ <<r, x>> \in A
         /\ \A x, y : InTurn(r, x, y)' =>
              InTurn(r, x, y) \/ (x \in Codes(r) /\ <<r, y>> \in A)
         /\ \A x : <<r, x>> \in A => x \in Codes(r)'
         /\ ~(Running("respond") /\ Head(ready).req = r) =>
              \A x : x \in Codes(r) => x \in Codes(r)'
         /\ Sent(r)' = Sent(r)
<1>. DEFINE rest == Tail(ready)
            new  == ready'
            Mine(h) == h.kind = "respond" /\ h.req = r
            sent == Sent(r)
<1>1. PICK q \in Seq(Handler) : new = rest \o q /\ Says(q, A)
  BY DEF Posts
<1>2. ready # <<>> /\ ready \in Seq(Handler) /\ new \in Seq(Handler)
  BY Known DEF Posts, IInv, StateOK
<1>3. /\ rest \in Seq(Handler) /\ Len(rest) \in Nat /\ 1 \in 1..Len(ready)
      /\ Head(ready) = ready[1]
      /\ \A i \in 1..Len(rest) : i + 1 \in 1..Len(ready) /\ rest[i] = ready[i + 1]
      /\ \A i \in 1..Len(ready) : i = 1 \/ (i - 1 \in 1..Len(rest) /\ rest[i - 1] = ready[i])
  BY <1>2, TailFacts
<1>. HIDE DEF rest
<1>4. /\ Len(q) \in Nat
      /\ \A i \in 1..Len(rest) : i \in 1..Len(new) /\ new[i] = rest[i]
      /\ \A i \in 1..Len(q) : Len(rest) + i \in 1..Len(new) /\ new[Len(rest) + i] = q[i]
      /\ \A i \in 1..Len(new) :
           \/ i \in 1..Len(rest) /\ new[i] = rest[i]
           \/ i - Len(rest) \in 1..Len(q) /\ new[i] = q[i - Len(rest)]
  <2>1. /\ Len(q) \in Nat
        /\ \A i \in 1..Len(rest) : i \in 1..Len(rest \o q) /\ (rest \o q)[i] = rest[i]
        /\ \A i \in 1..Len(q) :
             Len(rest) + i \in 1..Len(rest \o q) /\ (rest \o q)[Len(rest) + i] = q[i]
        /\ \A i \in 1..Len(rest \o q) :
             \/ i \in 1..Len(rest) /\ (rest \o q)[i] = rest[i]
             \/ i - Len(rest) \in 1..Len(q) /\ (rest \o q)[i] = q[i - Len(rest)]
    BY <1>3, ConcatFacts
  <2>. HIDE DEF new
  <2>. QED  BY <1>1, <2>1
<1>5. /\ \A h \in Members(q) : h.kind = "respond" => <<h.req, h.code>> \in A
      /\ \A a \in A : \E h \in Members(q) : h.kind = "respond" /\ <<h.req, h.code>> = a
      /\ \A i, j \in 1..Len(q) : Mine(q[i]) /\ Mine(q[j]) => i = j
      /\ \A i \in 1..Len(q) : Mine(q[i]) => <<r, q[i].code>> \in A
  BY <1>1 DEF Says, Members
<1>6. sent' = sent
  BY DEF Sent
<1>7. /\ \A x : x \in Codes(r) <=>
           x \in sent \/ \E i \in 1..Len(ready) : Mine(ready[i]) /\ x = ready[i].code
      /\ \A x, y : InTurn(r, x, y) <=>
           \/ \E i, j \in DOMAIN replies[r] :
                i < j /\ x = replies[r][i] /\ y = replies[r][j]
           \/ x \in sent /\ \E j \in 1..Len(ready) : Mine(ready[j]) /\ y = ready[j].code
           \/ \E i, j \in 1..Len(ready) :
                /\ i < j
                /\ Mine(ready[i]) /\ x = ready[i].code
                /\ Mine(ready[j]) /\ y = ready[j].code
  <2>1. /\ \A x : x \in Codes(r) <=>
             \/ x \in Sent(r)
             \/ \E i \in 1..Len(ready) : /\ ready[i].kind = "respond" /\ ready[i].req = r
                                         /\ x = ready[i].code
        /\ \A x, y : InTurn(r, x, y) <=>
             \/ \E i, j \in DOMAIN replies[r] :
                  i < j /\ x = replies[r][i] /\ y = replies[r][j]
             \/ /\ x \in Sent(r)
                /\ \E j \in 1..Len(ready) :
                     ready[j].kind = "respond" /\ ready[j].req = r /\ y = ready[j].code
             \/ \E i, j \in 1..Len(ready) :
                  /\ i < j
                  /\ ready[i].kind = "respond" /\ ready[i].req = r /\ x = ready[i].code
                  /\ ready[j].kind = "respond" /\ ready[j].req = r /\ y = ready[j].code
    <3>1. DOMAIN ready = 1..Len(ready)
      BY <1>2
    <3>2. \A i : i \in Posted(r) <=>
            i \in 1..Len(ready) /\ ready[i].kind = "respond" /\ ready[i].req = r
      BY <3>1 DEF Posted
    <3>. QED  BY <3>2 DEF Codes, InTurn
  <2>. QED  BY <2>1
<1>8. /\ \A x : x \in Codes(r)' <=>
           x \in sent \/ \E i \in 1..Len(new) : Mine(new[i]) /\ x = new[i].code
      /\ \A x, y : InTurn(r, x, y)' <=>
           \/ \E i, j \in DOMAIN replies[r] :
                i < j /\ x = replies[r][i] /\ y = replies[r][j]
           \/ x \in sent /\ \E j \in 1..Len(new) : Mine(new[j]) /\ y = new[j].code
           \/ \E i, j \in 1..Len(new) :
                /\ i < j
                /\ Mine(new[i]) /\ x = new[i].code
                /\ Mine(new[j]) /\ y = new[j].code
  <2>1. ready' \in Seq(Handler)
    BY <1>2
  <2>2. /\ \A x : x \in Codes(r)' <=>
             \/ x \in sent'
             \/ \E i \in 1..Len(ready') : /\ ready'[i].kind = "respond" /\ ready'[i].req = r
                                          /\ x = ready'[i].code
        /\ \A x, y : InTurn(r, x, y)' <=>
             \/ \E i, j \in DOMAIN replies'[r] :
                  i < j /\ x = replies'[r][i] /\ y = replies'[r][j]
             \/ /\ x \in sent'
                /\ \E j \in 1..Len(ready') :
                     ready'[j].kind = "respond" /\ ready'[j].req = r /\ y = ready'[j].code
             \/ \E i, j \in 1..Len(ready') :
                  /\ i < j
                  /\ ready'[i].kind = "respond" /\ ready'[i].req = r /\ x = ready'[i].code
                  /\ ready'[j].kind = "respond" /\ ready'[j].req = r /\ y = ready'[j].code
    <3>1. DOMAIN ready' = 1..Len(ready')
      BY <2>1
    <3>2. \A i : i \in Posted(r)' <=>
            i \in 1..Len(ready') /\ ready'[i].kind = "respond" /\ ready'[i].req = r
      BY <3>1 DEF Posted
    <3>. QED  BY <3>2 DEF Codes, InTurn
  <2>. QED  BY <1>6, <2>2
<1>. HIDE DEF new, Mine, sent
\* An answer in the queue was there before, one place behind, or is new.
<1>9. \A i \in 1..Len(new) : Mine(new[i]) =>
        \/ /\ i \in 1..Len(rest) /\ i + 1 \in 1..Len(ready)
           /\ Mine(ready[i + 1]) /\ new[i] = ready[i + 1]
        \/ /\ i - Len(rest) \in 1..Len(q) /\ Mine(q[i - Len(rest)])
           /\ new[i] = q[i - Len(rest)] /\ <<r, new[i].code>> \in A
  BY <1>3, <1>4, <1>5
<1>10. \A x : x \in Codes(r)' => x \in Codes(r) \/ <<r, x>> \in A
  BY <1>7, <1>8, <1>9
<1>11. ASSUME NEW x, NEW y, InTurn(r, x, y)'
       PROVE  InTurn(r, x, y) \/ (x \in Codes(r) /\ <<r, y>> \in A)
  <2>1. CASE \E i, j \in DOMAIN replies[r] :
               i < j /\ x = replies[r][i] /\ y = replies[r][j]
    BY <1>7, <2>1
  <2>2. CASE x \in sent /\ \E j \in 1..Len(new) : Mine(new[j]) /\ y = new[j].code
    BY <1>7, <1>9, <2>2
  <2>3. ASSUME NEW i \in 1..Len(new), NEW j \in 1..Len(new), i < j,
               Mine(new[i]), x = new[i].code, Mine(new[j]), y = new[j].code
        PROVE  InTurn(r, x, y) \/ (x \in Codes(r) /\ <<r, y>> \in A)
    <3>1. CASE /\ j \in 1..Len(rest) /\ j + 1 \in 1..Len(ready)
               /\ Mine(ready[j + 1]) /\ new[j] = ready[j + 1]
      <4>1. i \in 1..Len(rest) /\ i + 1 < j + 1
        BY <1>3, <2>3, <3>1
      <4>2. i + 1 \in 1..Len(ready) /\ Mine(ready[i + 1]) /\ new[i] = ready[i + 1]
        BY <1>3, <1>4, <2>3, <4>1
      <4>. QED  BY <1>7, <2>3, <3>1, <4>1, <4>2
    <3>2. CASE /\ j - Len(rest) \in 1..Len(q) /\ Mine(q[j - Len(rest)])
               /\ <<r, new[j].code>> \in A
      <4>1. CASE i + 1 \in 1..Len(ready) /\ Mine(ready[i + 1]) /\ new[i] = ready[i + 1]
        BY <1>7, <2>3, <3>2, <4>1
      <4>2. CASE i - Len(rest) \in 1..Len(q) /\ Mine(q[i - Len(rest)])
        <5>1. i - Len(rest) = j - Len(rest)
          BY <1>5, <3>2, <4>2
        <5>. QED  BY <1>3, <2>3, <5>1
      <4>. QED  BY <1>9, <2>3, <4>1, <4>2
    <3>. QED  BY <1>9, <2>3, <3>1, <3>2
  <2>. QED  BY <1>8, <1>11, <2>1, <2>2, <2>3
<1>12. ASSUME NEW x, <<r, x>> \in A  PROVE x \in Codes(r)'
  <2>1. PICK h \in Members(q) : h.kind = "respond" /\ <<h.req, h.code>> = <<r, x>>
    BY <1>5, <1>12
  <2>2. Mine(h) /\ h.code = x
    BY <2>1 DEF Mine
  <2>3. PICK i \in 1..Len(q) : h = q[i]
    BY DEF Members
  <2>. QED  BY <1>4, <1>8, <2>2, <2>3
<1>13. ASSUME ~(Running("respond") /\ Head(ready).req = r), NEW x, x \in Codes(r)
       PROVE  x \in Codes(r)'
  <2>1. ~Mine(ready[1])
    BY <1>2, <1>3, <1>13 DEF Mine, Running
  <2>2. \A i \in 1..Len(ready) : Mine(ready[i]) =>
          i - 1 \in 1..Len(new) /\ new[i - 1] = ready[i]
    BY <1>3, <1>4, <2>1
  <2>. QED  BY <1>7, <1>8, <1>13, <2>2
<1>. QED  BY <1>6, <1>10, <1>11, <1>12, <1>13 DEF sent

-----------------------------------------------------------------------------
(* The first part of the invariant: the answers. *)

LEMMA InTurnCodes ==
  ASSUME NEW r, NEW x, NEW y, InTurn(r, x, y)
  PROVE  x \in Codes(r) /\ y \in Codes(r)
  BY DEF InTurn, Codes, Sent

LEMMA RequestKinds ==
  ASSUME NEW r \in Request
  PROVE  /\ r.client \in Clients /\ r.n \in Nat
         /\ r \in Session <=> r.op = "open"
         /\ \A k \in Call : k.step = "user" /\ k.req = r =>
              /\ r \notin Session /\ r.op \in {"send", "load"}
              /\ k.sess.client = r.client
  BY SessionsAssumption DEF Request, Session, Call

\* A session that is not connected yet has no callback anywhere.
LEMMA Early ==
  ASSUME IInv, PInv, UserCalls, NEW k \in Call, stage[k] # "none"
  PROVE  conn[k.sess] \in {"open", "closed"}
<1>1. /\ k.sess \in Session /\ k.step \in {"login1", "login2", "user"}
      /\ conn[k.sess] \in ConnState
  BY CallFields, InvFacts DEF Call
<1>2. /\ conn[k.sess] \in {"none", "connecting"} =>
           stage[LoginCall(k.sess, "login1")] = "none"
      /\ stage[LoginCall(k.sess, "login2")] # "none" =>
           stage[LoginCall(k.sess, "login1")] = "done"
      /\ k.sess \in loggedIn => stage[LoginCall(k.sess, "login2")] = "done"
  BY <1>1 DEF PInv, LoginSteps
<1>3. CASE k.step = "user"
  BY <1>1, <1>2, <1>3 DEF UserCalls, ConnState
<1>4. CASE k.step # "user"
  <2>1. k = LoginCall(k.sess, k.step)
    BY <1>1, <1>4, LoginCalls
  <2>. QED  BY <1>1, <1>2, <1>4, <2>1 DEF ConnState
<1>. QED  BY <1>3, <1>4

\* Whom an answer goes to is not to be served any more.
LEMMA MayFacts ==
  ASSUME IInv, PInv, AInv, ready # <<>>, NEW r \in Request, NEW x, May(r, x)
  PROVE  /\ r.n <= issued[r.client]
         /\ \A h \in Members(Tail(ready)) : h.kind = "request" => h.req # r
<1>1. /\ r.client \in Clients /\ r.n \in Nat
      /\ r \in Session <=> r.op = "open"
  BY RequestKinds
<1>2. /\ Head(ready) \in Members(ready)
      /\ \A h \in Members(Tail(ready)) : h \in Members(ready) /\ ~Same(Head(ready), h)
  BY Taken
<1>3. /\ \A h \in Members(ready) : h.kind = "request" =>
           /\ h.req.n = issued[h.req.client]
           /\ h.req.op = "open" => conn[h.req] = "none"
           /\ \A k \in Call : k.step = "user" /\ k.req = h.req => stage[k] = "none"
      /\ \A s \in Session : conn[s] # "none" => s.n <= issued[s.client]
      /\ \A k \in Call : k.step = "user" /\ stage[k] # "none" => k.req.n <= issued[k.req.client]
  BY DEF PInv, Unserved
<1>4. CASE Runs(r)
  <2>1. r.n = issued[r.client] /\ Head(ready).kind = "request" /\ Head(ready).req = r
    BY <1>2, <1>3, <1>4 DEF Runs, Running
  <2>2. issued[r.client] \in Nat
    BY <1>1, <2>1
  <2>. QED  BY <1>1, <1>2, <2>1, <2>2 DEF Same
<1>5. CASE r \in Session /\ conn[r] # "none"
  BY <1>1, <1>2, <1>3, <1>5
<1>6. CASE \E k \in Call : k.step = "user" /\ k.req = r /\ stage[k] # "none"
  BY <1>2, <1>3, <1>6
<1>7. r \in Session /\ LoggingIn(r) => conn[r] # "none"
  <2>1. SUFFICES ASSUME r \in Session, NEW step \in {"login1", "login2"},
                        Pending(LoginCall(r, step))
                 PROVE  conn[r] # "none"
    BY DEF LoggingIn
  <2>2. LoginCall(r, step) \in Call /\ LoginCall(r, step).sess = r
    BY <2>1, LoginCalls
  <2>. QED  BY <2>1, <2>2, Early DEF Pending, AInv
<1>. QED  BY <1>4, <1>5, <1>6, <1>7 DEF May, IsReady

LEMMA KeepsUnserved ==
  ASSUME IInv, PInv, AInv, IInv', NEW A, Account(A)
  PROVE  UnservedAnswers'
<1>0. ready # <<>> /\ UNCHANGED <<issued, replies>>
  BY DEF Account, Posts
<1>1. ASSUME NEW r \in Request, NEW x, x \in Codes(r)'
      PROVE  x \in Codes(r) \/ May(r, x)
  <2>1. x \in Codes(r) \/ <<r, x>> \in A
    BY <1>0, <1>1, AnswersPosted DEF Account
  <2>2. <<r, x>> \in A => x \in Code
    BY DEF Account
  <2>. QED  BY <2>1, <2>2 DEF Account
<1>2. ASSUME NEW r \in Request, r.n > issued'[r.client]
      PROVE  Codes(r)' = {}
  <2>1. Codes(r) = {} /\ r.n > issued[r.client]
    BY <1>0, <1>2 DEF AInv, UnservedAnswers
  <2>2. \A x : ~May(r, x)
    <3>1. SUFFICES ASSUME NEW x, May(r, x) PROVE FALSE
      OBVIOUS
    <3>2. r.n <= issued[r.client] /\ r.n \in Nat /\ r.client \in Clients
      BY <1>0, <3>1, MayFacts, RequestKinds
    <3>3. issued[r.client] \in Nat
      BY <3>2 DEF IInv, StateOK
    <3>. QED  BY <2>1, <3>2, <3>3
  <2>. QED  BY <1>1, <2>1, <2>2
<1>3. ASSUME NEW h \in Members(ready'), h.kind = "request"
      PROVE  Codes(h.req)' = {}
  <2>1. h \in Members(Tail(ready)) /\ h \in Members(ready) /\ h.req \in Request
    <3>1. PICK q \in Seq(Handler) : /\ ready' = Tail(ready) \o q
                                    /\ \A g \in Members(q) : Leaves(g)
      BY DEF Account, Posts
    <3>2. /\ Tail(ready) \in Seq(Handler)
          /\ \A g \in Members(Tail(ready)) : g \in Members(ready)
      BY <1>0, Taken
    <3>3. h \in Members(Tail(ready)) \/ h \in Members(q)
      BY <1>3, <3>1, <3>2, MembersConcat
    <3>. QED  BY <1>3, <3>1, <3>2, <3>3, Known DEF Leaves
  <2>2. Codes(h.req) = {}
    BY <1>3, <2>1 DEF AInv, UnservedAnswers
  <2>3. \A x : ~May(h.req, x)
    BY <1>0, <1>3, <2>1, MayFacts
  <2>. QED  BY <1>1, <2>1, <2>2, <2>3
<1>. QED  BY <1>2, <1>3 DEF UnservedAnswers

\* The request that runs has no answer and is no session yet.
LEMMA RunsFacts ==
  ASSUME IInv, PInv, AInv, ready # <<>>, NEW r, Runs(r)
  PROVE  /\ r \in Request /\ Codes(r) = {} /\ r.n = issued[r.client]
         /\ r \in Session => conn[r] = "none"
         /\ \A k \in Call : k.step = "user" /\ k.req = r => stage[k] = "none"
<1>1. /\ Head(ready) \in Members(ready) /\ Head(ready).kind = "request"
      /\ Head(ready).req = r
  BY Taken DEF Runs, Running
<1>2. r \in Request
  BY <1>1, Known
<1>. QED  BY <1>1, <1>2, RequestKinds DEF AInv, UnservedAnswers, PInv, Unserved

LEMMA KeepsOpenAnswers ==
  ASSUME IInv, PInv, AInv, IInv', PInv', NEW A, Account(A)
  PROVE  OpenAnswers' /\ OpenAnsweredOnce'
<1>0. ready # <<>> /\ UNCHANGED <<issued, replies>>
  BY DEF Account, Posts
<1>1. ASSUME NEW s \in Session
      PROVE  /\ s \in Request /\ s.client \in Clients
             /\ \A x : x \in Codes(s)' => x \in Codes(s) \/ <<s, x>> \in A
             /\ \A x : <<s, x>> \in A => May(s, x)
             /\ \A x, y : InTurn(s, x, y)' =>
                  InTurn(s, x, y) \/ (x \in Codes(s) /\ <<s, y>> \in A)
             /\ \A k \in Call : k.step = "user" => k.req # s
  <2>1. s \in Request
    BY DEF Session
  <2>2. \A x : <<s, x>> \in A => x \in Code /\ May(s, x)
    BY <2>1 DEF Account
  <2>. QED  BY <1>0, <2>1, <2>2, AnswersPosted, RequestKinds DEF Account
\* Which answers a session may get.
<1>2. ASSUME NEW s \in Session, NEW x, May(s, x)
      PROVE  \/ Runs(s) /\ table'[s.client] # s /\ conn'[s] = conn[s]
             \/ /\ x = "session_closed" /\ table[s.client] = s /\ IsReady(s)
                /\ table'[s.client] = NoSession
             \/ /\ conn[s] = "connecting" \/ LoggingIn(s)
                /\ conn'[s] # "connecting" /\ ~LoggingIn(s)'
                /\ table'[s.client] # s \/ (s \in loggedIn' /\ x = "success")
  BY <1>1, <1>2 DEF May
<1>3. ASSUME NEW s \in Session, NEW step \in {"login1", "login2"},
             Pending(LoginCall(s, step))'
      PROVE  conn[s] = "connecting" \/ LoggingIn(s)
  <2>. DEFINE k == LoginCall(s, step)
  <2>1. k \in Call /\ k.sess = s /\ k.step = step
    BY LoginCalls
  <2>2. StageStep(k, A) /\ stage'[k] \notin {"none", "done"}
    BY <1>3, <2>1 DEF Account, Pending
  <2>. HIDE DEF k
  <2>3. CASE stage[k] \notin {"none", "done"}
    BY <2>3 DEF LoggingIn, Pending, k
  <2>4. CASE stage[k] \in {"none", "done"}
    <3>1. \/ step = "login1" /\ conn[s] = "connecting"
          \/ stage[LoginCall(s, "login1")] = "waiting"
      BY <2>1, <2>2, <2>4 DEF StageStep
    <3>. QED  BY <3>1 DEF LoggingIn, Pending
  <2>. QED  BY <2>3, <2>4
<1>4. ASSUME NEW s \in Session, conn'[s] = "connecting" \/ LoggingIn(s)'
      PROVE  Codes(s)' = {}
  <2>1. Codes(s) = {}
    <3>1. conn[s] = "connecting" \/ LoggingIn(s) => Codes(s) = {}
      BY DEF AInv, OpenAnswers
    <3>2. CASE conn'[s] = "connecting"
      <4>1. SocketStep(s)
        BY DEF Account
      <4>2. conn[s] = "connecting" \/ Runs(s)
        BY <3>2, <4>1 DEF SocketStep
      <4>. QED  BY <1>0, <3>1, <4>2, RunsFacts
    <3>3. CASE LoggingIn(s)'
      <4>1. conn[s] = "connecting" \/ LoggingIn(s)
        BY <1>3, <3>3 DEF LoggingIn
      <4>. QED  BY <3>1, <4>1
    <3>. QED  BY <1>4, <3>2, <3>3
  <2>2. ASSUME NEW x, May(s, x)  PROVE FALSE
    <3>1. CASE Runs(s) /\ conn'[s] = conn[s]
      <4>1. conn'[s] = "none"
        BY <1>0, <3>1, RunsFacts
      <4>2. stage'[LoginCall(s, "login1")] = "none"
            /\ (stage'[LoginCall(s, "login2")] # "none" =>
                  stage'[LoginCall(s, "login1")] = "done")
        BY <4>1 DEF PInv, LoginSteps
      <4>. QED  BY <1>4, <4>1, <4>2 DEF LoggingIn, Pending
    <3>2. CASE IsReady(s)
      <4>1. SocketStep(s) /\ LoginStep(s)
        BY DEF Account
      <4>2. conn'[s] # "connecting" /\ s \in loggedIn'
        BY <3>2, <4>1 DEF IsReady, SocketStep, LoginStep
      <4>3. /\ stage'[LoginCall(s, "login2")] = "done"
            /\ stage'[LoginCall(s, "login2")] # "none" =>
                 stage'[LoginCall(s, "login1")] = "done"
        BY <4>2 DEF PInv, LoginSteps
      <4>. QED  BY <1>4, <4>2, <4>3 DEF LoggingIn, Pending
    <3>. QED  BY <1>2, <1>4, <2>2, <3>1, <3>2
  <2>. QED  BY <1>1, <2>1, <2>2
<1>5. ASSUME NEW s \in Session, table'[s.client] = s, NEW x \in Codes(s)'
      PROVE  s \in loggedIn' /\ x = "success"
  <2>1. CASE x \in Codes(s)
    <3>1. TableStep(s.client) /\ LoginStep(s) /\ s # NoSession
      BY <1>1, SessionsAssumption DEF Account
    <3>2. table[s.client] = s \/ Runs(s)
      BY <1>5, <3>1 DEF TableStep
    <3>3. table[s.client] = s
      BY <1>0, <2>1, <3>2, RunsFacts
    <3>4. s \in loggedIn /\ x = "success"
      BY <2>1, <3>3 DEF AInv, OpenAnswers
    <3>. QED  BY <3>1, <3>4 DEF LoginStep
  <2>2. CASE May(s, x)
    BY <1>2, <1>5, <2>2, SessionsAssumption
  <2>. QED  BY <1>1, <2>1, <2>2
<1>6. ASSUME NEW s \in Session, NEW x, NEW y, InTurn(s, x, y)'
      PROVE  x = "success" /\ y = "session_closed"
  <2>1. CASE InTurn(s, x, y)
    BY <2>1, InTurnCodes DEF AInv, OpenAnsweredOnce
  <2>2. CASE x \in Codes(s) /\ May(s, y)
    <3>1. CASE Runs(s)
      BY <1>0, <2>2, <3>1, RunsFacts
    <3>2. CASE y = "session_closed" /\ table[s.client] = s
      BY <2>2, <3>2 DEF AInv, OpenAnswers
    <3>3. CASE conn[s] = "connecting" \/ LoggingIn(s)
      BY <2>2, <3>3 DEF AInv, OpenAnswers
    <3>. QED  BY <1>2, <2>2, <3>1, <3>2, <3>3
  <2>. QED  BY <1>1, <1>6, <2>1, <2>2
<1>. QED  BY <1>4, <1>5, <1>6 DEF OpenAnswers, OpenAnsweredOnce

LEMMA KeepsSendAnswers ==
  ASSUME IInv, PInv, AInv, IInv', NEW A, Account(A)
  PROVE  UserCalls' /\ SendAnswers' /\ SendAnswersEnd' /\ HeldIsLoggedIn'
<1>0. ready # <<>> /\ UNCHANGED <<issued, replies>>
  BY DEF Account, Posts
<1>1. ASSUME NEW k \in Call, k.step = "user"
      PROVE  /\ StageStep(k, A) /\ k.sess \in Session /\ k.req \in Request
             /\ stage[k] # "none" =>
                  /\ k.sess \in loggedIn
                  /\ \A l \in Call : /\ l.step = "user" /\ stage[l] # "none" /\ l.req = k.req
                                     => l = k
  BY <1>1, CallFields DEF Account, AInv, UserCalls
<1>2. ASSUME NEW k \in Call, k.step = "user", stage'[k] # "none"
      PROVE  \/ stage[k] # "none"
             \/ Runs(k.req) /\ k.sess = table[k.req.client] /\ k.sess \in loggedIn
  BY <1>1, <1>2 DEF StageStep
<1>3. ASSUME NEW k \in Call, NEW l \in Call, k.step = "user", l.step = "user",
             stage'[k] # "none", stage'[l] # "none", k.req = l.req
      PROVE  k = l
  <2>1. CASE Runs(k.req)
    <3>1. stage[k] = "none" /\ stage[l] = "none"
      BY <1>0, <1>3, <2>1, RunsFacts
    <3>2. k.sess = l.sess
      BY <1>2, <1>3, <3>1
    <3>3. k = [sess |-> k.sess, req |-> k.req, step |-> k.step]
          /\ l = [sess |-> l.sess, req |-> l.req, step |-> l.step]
      BY DEF Call
    <3>. QED  BY <1>3, <3>2, <3>3
  <2>2. CASE ~Runs(k.req)
    BY <1>1, <1>2, <1>3, <2>2
  <2>. QED  BY <2>1, <2>2
<1>4. ASSUME NEW k \in Call, k.step = "user", stage'[k] # "none"
      PROVE  k.sess \in loggedIn'
  <2>1. k.sess \in loggedIn /\ k.sess \in Session
    BY <1>1, <1>2, <1>4
  <2>. QED  BY <2>1 DEF Account, LoginStep
<1>5. UserCalls'
  BY <1>3, <1>4 DEF UserCalls
\* What an api_send may be answered.
<1>6. ASSUME NEW r \in Request, r.op = "send", NEW x, <<r, x>> \in A
      PROVE  \/ /\ Runs(r)
                /\ \A k \in Call : k.step = "user" /\ k.req = r => stage'[k] = stage[k]
             \/ \E k \in Call :
                  /\ k.step = "user" /\ k.req = r
                  /\ \/ stage[k] \in {"posted", "sending"} /\ stage'[k] = "done"
                     \/ /\ stage[k] = "waiting"
                        /\ \/ x \in {"row", "trap", "ret"}
                           \/ x \in {"done", "blank"} /\ stage'[k] = "done"
  <2>1. May(r, x) /\ r \notin Session
    BY <1>6, RequestKinds DEF Account
  <2>. QED  BY <1>6, <2>1 DEF May
<1>7. ASSUME NEW r \in Request, NEW x, x \in Codes(r)'
      PROVE  x \in Codes(r) \/ <<r, x>> \in A
  BY <1>0, <1>7, AnswersPosted DEF Account
<1>8. ASSUME NEW k \in Call, k.step = "user", k.req.op = "send"
      PROVE  /\ stage'[k] \in {"posted", "sending"} => Codes(k.req)' = {}
             /\ stage'[k] = "waiting" => Codes(k.req)' \subseteq {"row", "trap", "ret"}
  <2>1. /\ k.req \in Request
        /\ stage[k] \in {"posted", "sending"} => Codes(k.req) = {}
        /\ stage[k] = "waiting" => Codes(k.req) \subseteq {"row", "trap", "ret"}
    BY <1>1, <1>8 DEF AInv, SendAnswers
  <2>2. CASE Runs(k.req)
    <3>1. Codes(k.req) = {} /\ stage[k] = "none"
          /\ \A l \in Call : l.step = "user" /\ l.req = k.req => stage[l] = "none"
      BY <1>0, <1>8, <2>2, RunsFacts
    <3>2. \A x : <<k.req, x>> \in A => stage'[k] = "none"
      BY <1>6, <1>8, <2>1, <3>1
    <3>. QED  BY <1>7, <2>1, <3>1, <3>2
  <2>3. CASE ~Runs(k.req)
    <3>1. stage'[k] # "none" => stage[k] # "none"
      BY <1>2, <1>8, <2>3
    <3>2. ASSUME NEW x, <<k.req, x>> \in A, stage'[k] # "none"
          PROVE  \/ stage'[k] = "done"
                 \/ stage[k] = "waiting" /\ x \in {"row", "trap", "ret"}
      BY <1>1, <1>6, <1>8, <2>1, <2>3, <3>1, <3>2
    <3>3. /\ stage'[k] \in {"posted", "sending"} => stage[k] \in {"posted", "sending"}
          /\ stage'[k] = "waiting" => stage[k] \in {"sending", "waiting"}
      BY <1>1, <1>8, <2>3 DEF StageStep
    <3>. QED  BY <1>7, <2>1, <3>2, <3>3
  <2>. QED  BY <2>2, <2>3
<1>9. ASSUME NEW r \in Request, r.op = "send", NEW x, NEW y, InTurn(r, x, y)'
      PROVE  /\ x \notin {"done", "blank", "unknown_error", "not_open"}
             /\ y \notin {"unknown_error", "not_open"}
  <2>1. InTurn(r, x, y) \/ (x \in Codes(r) /\ <<r, y>> \in A)
    BY <1>0, <1>9, AnswersPosted DEF Account
  <2>2. CASE InTurn(r, x, y)
    BY <1>9, <2>2, InTurnCodes DEF AInv, SendAnswersEnd
  <2>3. CASE x \in Codes(r) /\ <<r, y>> \in A
    <3>1. ~Runs(r)
      BY <1>0, <2>3, RunsFacts
    <3>2. PICK k \in Call :
            /\ k.step = "user" /\ k.req = r
            /\ \/ stage[k] \in {"posted", "sending"}
               \/ stage[k] = "waiting" /\ y \in {"row", "trap", "ret", "done", "blank"}
      BY <1>6, <1>9, <2>3, <3>1
    <3>. QED  BY <1>9, <2>3, <3>2 DEF AInv, SendAnswers
  <2>. QED  BY <2>1, <2>2, <2>3
<1>10. HeldIsLoggedIn'
  <2>1. ASSUME NEW m \in Command, held'[m] # NoSession
        PROVE  held'[m] \in loggedIn'
    <3>1. held'[m] \in loggedIn
      BY <2>1 DEF Account, AInv, HeldIsLoggedIn
    <3>2. held'[m] \in Session
      BY <3>1, InvFacts
    <3>. QED  BY <3>1, <3>2 DEF Account, LoginStep
  <2>. QED  BY <2>1 DEF HeldIsLoggedIn
<1>. QED  BY <1>5, <1>8, <1>9, <1>10 DEF SendAnswers, SendAnswersEnd

LEMMA AccountKeepsAnswers ==
  ASSUME IInv, PInv, AInv, IInv', PInv', NEW A, Account(A)
  PROVE  AInv'
  BY KeepsUnserved, KeepsOpenAnswers, KeepsSendAnswers DEF AInv

-----------------------------------------------------------------------------
(* The second part: the router's answers. *)

\* The queue after a handler: the others move up, what it posts is behind them.
LEMMA QueueAfter ==
  ASSUME IInv, PInv, NEW A, Posts(A)
  PROVE  /\ ready # <<>> /\ 1 \in 1..Len(ready) /\ Head(ready) = ready[1]
         /\ \A i \in 1..Len(ready') :
              Leaves(ready'[i]) \/ (i + 1 \in 1..Len(ready) /\ ready'[i] = ready[i + 1])
         /\ \A i \in 1..Len(ready) :
              i = 1 \/ (i - 1 \in 1..Len(ready') /\ ready'[i - 1] = ready[i])
<1>. DEFINE rest == Tail(ready)
            new  == ready'
<1>1. PICK q \in Seq(Handler) : new = rest \o q /\ \A h \in Members(q) : Leaves(h)
  BY DEF Posts
<1>2. ready # <<>> /\ ready \in Seq(Handler)
  BY Known DEF Posts
<1>3. /\ rest \in Seq(Handler) /\ Len(rest) \in Nat /\ 1 \in 1..Len(ready)
      /\ Head(ready) = ready[1]
      /\ \A i \in 1..Len(rest) : i + 1 \in 1..Len(ready) /\ rest[i] = ready[i + 1]
      /\ \A i \in 1..Len(ready) : i = 1 \/ (i - 1 \in 1..Len(rest) /\ rest[i - 1] = ready[i])
  BY <1>2, TailFacts
<1>. HIDE DEF rest
<1>4. /\ \A i \in 1..Len(rest) : i \in 1..Len(rest \o q) /\ (rest \o q)[i] = rest[i]
      /\ \A i \in 1..Len(rest \o q) :
           \/ i \in 1..Len(rest) /\ (rest \o q)[i] = rest[i]
           \/ i - Len(rest) \in 1..Len(q) /\ (rest \o q)[i] = q[i - Len(rest)]
  BY <1>3, ConcatFacts
<1>. HIDE DEF new
<1>5. \A i \in 1..Len(q) : Leaves(q[i])
  BY <1>1 DEF Members
<1>6. /\ \A i \in 1..Len(new) :
           Leaves(new[i]) \/ (i + 1 \in 1..Len(ready) /\ new[i] = ready[i + 1])
      /\ \A i \in 1..Len(ready) :
           i = 1 \/ (i - 1 \in 1..Len(new) /\ new[i - 1] = ready[i])
  BY <1>1, <1>3, <1>4, <1>5
<1>. QED  BY <1>2, <1>3, <1>6 DEF new

\* What the queue says of a call's completion.
LEMMA HasSentFacts ==
  ASSUME IInv, PInv, NEW k \in Call
  PROVE  /\ HasSent(k).kind = "sent" /\ HasSent(k).call = k /\ HasSent(k).ok
         /\ HasSent(k) \in Members(ready) => stage[k] = "sending"
<1>1. HasSent(k).kind = "sent" /\ HasSent(k).call = k /\ HasSent(k).ok
  BY DEF HasSent
<1>. QED  BY <1>1 DEF PInv, Staged

LEMMA OwedIsNat ==
  ASSUME IInv, NEW k \in Call
  PROVE  owed[k] \in Nat
  BY SessionsAssumption DEF IInv, StateOK

LEMMA AccountKeepsReplies ==
  ASSUME IInv, PInv, AInv, BInv, IInv', PInv', NEW A, Account(A)
  PROVE  BInv'
<1>0. /\ ready # <<>> /\ UNCHANGED <<issued, owed, replies>> /\ live' \subseteq live
      /\ Posts(A)
  BY DEF Account, Posts
<1>1. /\ ready # <<>> /\ 1 \in 1..Len(ready) /\ Head(ready) = ready[1]
      /\ \A i \in 1..Len(ready') :
           Leaves(ready'[i]) \/ (i + 1 \in 1..Len(ready) /\ ready'[i] = ready[i + 1])
      /\ \A i \in 1..Len(ready) :
           i = 1 \/ (i - 1 \in 1..Len(ready') /\ ready'[i - 1] = ready[i])
  BY <1>0, QueueAfter
<1>2. \A i \in 1..Len(ready') : ready'[i].kind = "sentence" =>
        i + 1 \in 1..Len(ready) /\ ready'[i] = ready[i + 1]
  BY <1>1 DEF Leaves
<1>3. \A k \in Call : HasSent(k) \in Members(ready') => HasSent(k) \in Members(ready)
  <2>1. SUFFICES ASSUME NEW k \in Call, NEW i \in 1..Len(ready'), ready'[i] = HasSent(k)
                 PROVE  HasSent(k) \in Members(ready)
    BY DEF Members
  <2>2. ~Leaves(HasSent(k))
    BY HasSentFacts DEF Leaves
  <2>. QED  BY <1>1, <2>1, <2>2 DEF Members
\* A socket that is not closed was not, and if it is not open no callback of it
\* is anywhere.
<1>4. ASSUME NEW k \in Call, conn'[k.sess] # "closed"
      PROVE  /\ conn[k.sess] # "closed"
             /\ StageStep(k, A) /\ HeadStep(k, A)
             /\ conn'[k.sess] = "open" \/ stage[k] = "none"
  <2>1. k.sess \in Session /\ SocketStep(k.sess) /\ StageStep(k, A) /\ HeadStep(k, A)
    BY CallFields DEF Account
  <2>2. conn'[k.sess] = "open" \/ conn[k.sess] \in {"none", "connecting"}
    BY <1>4, <2>1, InvFacts DEF SocketStep, ConnState
  <2>3. conn[k.sess] \in {"none", "connecting"} => stage[k] = "none"
    BY Early DEF AInv
  <2>. QED  BY <1>4, <2>1, <2>2, <2>3 DEF SocketStep
<1>5. ASSUME NEW k \in Call, conn'[k.sess] # "closed", Head(ready) = HasSent(k)
      PROVE  stage'[k] = "waiting"
  <2>1. HasSent(k) \in Members(ready)
    BY <1>1, <1>5 DEF Members
  <2>2. stage[k] = "sending"
    BY <2>1, HasSentFacts
  <2>. QED  BY <1>4, <1>5, <2>2 DEF HeadStep
<1>6. ASSUME NEW k \in Call, stage[k] \in {"waiting", "done"}
      PROVE  stage'[k] \in {"waiting", "done"}
  BY <1>6 DEF Account, StageStep
<1>7. SentFirst'
  <2>1. SUFFICES ASSUME NEW k \in Call, conn'[k.sess] # "closed"
                 PROVE  /\ owed[k] > 0 => \/ stage'[k] \in {"waiting", "done"}
                                          \/ HasSent(k) \in Members(ready')
                        /\ \A i \in 1..Len(ready') :
                             ready'[i].kind = "sentence" /\ ready'[i].call = k =>
                               \/ stage'[k] \in {"waiting", "done"}
                               \/ \E j \in 1..Len(ready') : j < i /\ ready'[j] = HasSent(k)
    BY <1>0 DEF SentFirst, HasSent
  <2>2. /\ owed[k] > 0 => \/ stage[k] \in {"waiting", "done"}
                          \/ HasSent(k) \in Members(ready)
        /\ \A i \in 1..Len(ready) : ready[i].kind = "sentence" /\ ready[i].call = k =>
             \/ stage[k] \in {"waiting", "done"}
             \/ \E j \in 1..Len(ready) : j < i /\ ready[j] = HasSent(k)
    BY <1>4, <2>1 DEF BInv, SentFirst
  <2>3. ASSUME HasSent(k) \in Members(ready)
        PROVE  stage'[k] = "waiting" \/ HasSent(k) \in Members(ready')
    <3>1. PICK i \in 1..Len(ready) : HasSent(k) = ready[i]
      BY <2>3 DEF Members
    <3>. QED  BY <1>1, <1>5, <2>1, <3>1 DEF Members
  <2>4. ASSUME NEW i \in 1..Len(ready'), ready'[i].kind = "sentence", ready'[i].call = k
        PROVE  \/ stage'[k] \in {"waiting", "done"}
               \/ \E j \in 1..Len(ready') : j < i /\ ready'[j] = HasSent(k)
    <3>1. i + 1 \in 1..Len(ready) /\ ready'[i] = ready[i + 1]
      BY <1>2, <2>4
    <3>2. CASE stage[k] \in {"waiting", "done"}
      BY <1>6, <3>2
    <3>3. CASE \E j \in 1..Len(ready) : j < i + 1 /\ ready[j] = HasSent(k)
      <4>1. PICK j \in 1..Len(ready) : j < i + 1 /\ ready[j] = HasSent(k)
        BY <3>3
      <4>2. CASE j = 1
        BY <1>1, <1>5, <2>1, <4>1, <4>2
      <4>3. CASE j # 1
        <5>1. j - 1 \in 1..Len(ready') /\ ready'[j - 1] = HasSent(k)
          BY <1>1, <4>1, <4>3
        <5>2. j - 1 < i
          BY <4>1
        <5>. QED  BY <5>1, <5>2
      <4>. QED  BY <4>2, <4>3
    <3>. QED  BY <2>2, <2>4, <3>1, <3>2, <3>3
  <2>. QED  BY <1>6, <2>2, <2>3, <2>4
<1>8. OneReading'
  <2>1. SUFFICES ASSUME NEW i \in 1..Len(ready'), NEW j \in 1..Len(ready'),
                        ready'[i].kind = "sentence", ready'[j].kind = "sentence",
                        ready'[i].call.sess = ready'[j].call.sess
                 PROVE  i = j
    BY DEF OneReading
  <2>2. /\ i + 1 \in 1..Len(ready) /\ ready'[i] = ready[i + 1]
        /\ j + 1 \in 1..Len(ready) /\ ready'[j] = ready[j + 1]
    BY <1>2, <2>1
  <2>3. i + 1 = j + 1
    BY <2>1, <2>2 DEF BInv, OneReading
  <2>. QED  BY <2>3
<1>9. LastSentence'
  <2>1. \A h \in Members(ready') : h.kind = "sentence" => h \in Members(ready)
    BY <1>2 DEF Members
  <2>. QED  BY <1>0, <2>1 DEF BInv, LastSentence
\* What has been answered stays answered while the client is there.
<1>10. ASSUME NEW k \in Call, k.req.client \in live', NEW x, x \in Codes(k.req)
       PROVE  x \in Codes(k.req)'
  <2>1. ~(Running("respond") /\ Head(ready).req = k.req)
    BY <1>0, <1>10 DEF Account
  <2>. QED  BY <1>0, <1>10, <2>1, AnswersPosted
<1>11. \A r, x : <<r, x>> \in A => x \in Codes(r)'
  BY <1>0, AnswersPosted
\* The sentence that is handled is the only one of its session.
<1>12. ASSUME NEW k \in Call, Running("sentence"), Head(ready).call = k
       PROVE  ~SentenceFor(k)'
  <2>1. SUFFICES ASSUME NEW i \in 1..Len(ready'), ready'[i].kind = "sentence",
                        ready'[i].call = k
                 PROVE  FALSE
    BY DEF SentenceFor, Members
  <2>2. i + 1 \in 1..Len(ready) /\ ready'[i] = ready[i + 1]
    BY <1>2, <2>1
  <2>3. i + 1 = 1
    BY <1>1, <1>12, <2>1, <2>2 DEF BInv, OneReading, Running
  <2>. QED  BY <2>3
<1>13. ASSUME NEW k \in Call, Running("sentence"), Head(ready).call = k
       PROVE  owed[k] = 0 <=> Head(ready).reply \notin {"row", "blank", "trap"}
  <2>1. Head(ready) \in Members(ready) /\ Head(ready).kind = "sentence"
    BY <1>1, <1>13 DEF Members, Running
  <2>. QED  BY <1>13, <2>1 DEF BInv, LastSentence
<1>14. ASSUME NEW k \in Call, SentenceFor(k)'
       PROVE  SentenceFor(k)
  <2>1. \A h \in Members(ready') : h.kind = "sentence" => h \in Members(ready)
    BY <1>2 DEF Members
  <2>. QED  BY <1>14, <2>1 DEF SentenceFor
<1>15. EndedEarly'
  <2>1. SUFFICES ASSUME NEW k \in Call, conn'[k.sess] # "closed", stage'[k] = "done",
                        owed[k] > 0 \/ SentenceFor(k)'
                 PROVE  /\ k.step = "user"
                        /\ k.req.client \in live' => EndCode(k) \in Codes(k.req)'
    BY <1>0 DEF EndedEarly, EndCode
  <2>2. CASE stage[k] = "done"
    <3>1. k.step = "user" /\ (k.req.client \in live => EndCode(k) \in Codes(k.req))
      BY <1>4, <1>14, <2>1, <2>2 DEF BInv, EndedEarly
    <3>. QED  BY <1>0, <1>10, <3>1
  <2>3. CASE stage[k] # "done"
    <3>1. conn'[k.sess] = "open"
      BY <1>4, <2>1, <2>3 DEF StageStep
    <3>2. /\ Running("sentence") /\ Head(ready).call = k
          /\ \/ Head(ready).reply \notin {"row", "blank", "trap"}
             \/ k.step = "user" /\ <<k.req, EndCode(k)>> \in A
      BY <1>4, <2>1, <2>3, <3>1 DEF StageStep
    <3>3. owed[k] > 0
      BY <1>12, <2>1, <3>2
    <3>4. k.step = "user" /\ <<k.req, EndCode(k)>> \in A
      BY <1>13, <3>2, <3>3, OwedIsNat
    <3>. QED  BY <1>11, <3>4
  <2>. QED  BY <2>2, <2>3
<1>16. Awaited'
  <2>1. SUFFICES ASSUME NEW k \in Call, conn'[k.sess] # "closed", k.sess.client \in live',
                        stage'[k] = "waiting" \/ HasSent(k) \in Members(ready')
                 PROVE  owed[k] > 0 \/ SentenceFor(k)' \/ "ret" \in Codes(k.req)'
    BY <1>0 DEF Awaited, HasSent
  <2>2. k.req.client = k.sess.client
    BY DEF Call
  <2>3. stage[k] = "waiting" \/ HasSent(k) \in Members(ready)
    <3>1. CASE stage'[k] = "waiting"
      <4>1. stage[k] = "waiting" \/ Head(ready) = HasSent(k)
        BY <1>4, <2>1, <3>1 DEF StageStep
      <4>. QED  BY <1>1, <4>1 DEF Members
    <3>. QED  BY <1>3, <2>1, <3>1
  <2>4. owed[k] > 0 \/ SentenceFor(k) \/ "ret" \in Codes(k.req)
    BY <1>0, <1>4, <2>1, <2>3 DEF BInv, Awaited
  <2>5. CASE "ret" \in Codes(k.req)
    BY <1>10, <2>1, <2>2, <2>5
  <2>6. CASE SentenceFor(k)
    <3>1. PICK i \in 1..Len(ready) : ready[i].kind = "sentence" /\ ready[i].call = k
      BY <2>6 DEF SentenceFor, Members
    <3>2. CASE i # 1
      <4>1. i - 1 \in 1..Len(ready') /\ ready'[i - 1] = ready[i]
        BY <1>1, <3>2
      <4>. QED  BY <3>1, <4>1 DEF SentenceFor, Members
    <3>3. CASE i = 1
      <4>1. Running("sentence") /\ Head(ready).call = k
        BY <1>1, <3>1, <3>3 DEF Running
      <4>2. stage[k] \in {"waiting", "done"}
        BY <1>4, <2>1, <3>1, <3>3 DEF BInv, SentFirst
      <4>3. HasSent(k) \notin Members(ready) /\ stage[k] = "waiting"
        BY <2>3, <4>2, HasSentFacts
      <4>4. stage'[k] = "waiting" /\ conn'[k.sess] = "open"
        BY <1>3, <1>4, <2>1, <4>3
      <4>5. Head(ready).reply \in {"row", "blank", "trap"} \/ <<k.req, "ret">> \in A
        BY <1>4, <2>1, <4>1, <4>4 DEF HeadStep
      <4>. QED  BY <1>11, <1>13, <4>1, <4>5, OwedIsNat
    <3>. QED  BY <3>2, <3>3
  <2>. QED  BY <2>4, <2>5, <2>6
<1>. QED  BY <1>7, <1>8, <1>9, <1>15, <1>16 DEF BInv

-----------------------------------------------------------------------------
(* The third part: who is told that a session is closed. *)

LEMMA SessionNames ==
  ASSUME NEW r \in Session, NEW s \in Session, r.client = s.client, r.n = s.n
  PROVE  r = s
<1>1. r \in Request /\ s \in Request /\ r.op = "open" /\ s.op = "open"
  BY DEF Session
<1>2. r = [client |-> r.client, op |-> r.op, n |-> r.n]
      /\ s = [client |-> s.client, op |-> s.op, n |-> s.n]
  BY <1>1 DEF Request
<1>. QED  BY <1>1, <1>2

LEMMA SessionNumbers ==
  ASSUME NEW s \in Session
  PROVE  s \in Request /\ s.client \in Clients /\ s.n \in Nat /\ s.n >= 1
         /\ s # NoSession
  BY SessionsAssumption DEF Session, Request

LEMMA AccountKeepsNotices ==
  ASSUME IInv, PInv, AInv, CInv, IInv', PInv', NEW A, Account(A)
  PROVE  CInv'
<1>0. /\ ready # <<>> /\ UNCHANGED <<issued, replies>> /\ live' \subseteq live
      /\ Posts(A)
  BY DEF Account, Posts
<1>1. /\ ready # <<>> /\ 1 \in 1..Len(ready) /\ Head(ready) = ready[1]
      /\ \A i \in 1..Len(ready') :
           Leaves(ready'[i]) \/ (i + 1 \in 1..Len(ready) /\ ready'[i] = ready[i + 1])
  BY <1>0, QueueAfter
<1>2. ASSUME NEW s \in Session
      PROVE  /\ s \in Request /\ s.client \in Clients /\ s.n \in Nat /\ s.n >= 1
             /\ s # NoSession
             /\ SocketStep(s) /\ TableStep(s.client)
  BY SessionNumbers DEF Account
<1>3. \A s \in Session : conn[s] # "none" /\ Has(s.client) => s.n <= table[s.client].n
  BY DEF CInv, Latest
<1>4. ASSUME NEW s \in Session, conn'[s] # "none", table'[s.client] # NoSession
      PROVE  s.n <= table'[s.client].n
  <2>1. CASE table'[s.client] = table[s.client]
    <3>1. conn[s] # "none"
      BY <1>2, <1>4, <2>1 DEF SocketStep
    <3>. QED  BY <1>3, <1>4, <2>1, <3>1 DEF Has
  <2>2. CASE /\ table'[s.client] \in Session /\ Runs(table'[s.client])
             /\ table'[s.client].client = s.client
    <3>. DEFINE r == table'[s.client]
    <3>1. r.n = issued[s.client]
      BY <1>0, <2>2, RunsFacts
    <3>2. CASE conn[s] # "none"
      BY <3>1, <3>2 DEF PInv, Unserved
    <3>3. CASE conn[s] = "none"
      <4>1. Runs(s)
        BY <1>2, <1>4, <3>3 DEF SocketStep
      <4>2. s = r
        BY <2>2, <4>1 DEF Runs
      <4>. QED  BY <1>2, <4>2
    <3>. QED  BY <3>2, <3>3
  <2>. QED  BY <1>2, <1>4, <2>1, <2>2 DEF TableStep
<1>5. Latest'
  BY <1>4 DEF Latest, Has
<1>6. ASSUME NEW s \in Session, s.n = 1, s.client \in live',
             conn'[s] \in {"connecting", "open"}
      PROVE  table'[s.client] = s
  <2>1. CASE Runs(s) /\ table'[s.client] = s
    BY <2>1
  <2>2. CASE conn[s] \in {"connecting", "open"}
    <3>1. table[s.client] = s
      BY <1>0, <1>6, <2>2 DEF CInv, FirstStays
    <3>2. ASSUME NEW x \in Session, x.client = s.client, conn[x] # "none",
                 conn'[x] \notin {"connecting", "open"}
          PROVE  FALSE
      <4>1. x.n <= s.n /\ x.n >= 1 /\ x.n \in Nat
        BY <1>2, <1>3, <3>1, <3>2 DEF Has
      <4>2. x = s
        BY <1>6, <3>2, <4>1, SessionNames
      <4>. QED  BY <1>6, <3>2, <4>2
    <3>. QED  BY <1>2, <1>6, <3>1, <3>2 DEF TableStep
  <2>. QED  BY <1>2, <1>6, <2>1, <2>2 DEF SocketStep
<1>7. FirstStays'
  BY <1>6 DEF FirstStays
<1>8. ASSUME NEW s \in Session, s.n = 1, table'[s.client] # NoSession,
             table'[s.client] # s,
             NEW i \in 1..Len(ready'), Sends(ready'[i]), ready'[i].call.sess = s,
             ready'[i].call.step # "user"
      PROVE  /\ conn'[table'[s.client]] = "connecting"
             /\ \A j \in 1..Len(ready') :
                  ready'[j].kind = "connected" /\ ready'[j].sess = table'[s.client] => i < j
  <2>. DEFINE c == s.client
              r == table'[c]
  <2>1. c \in Clients /\ c \in live' /\ r \in Session
    <3>1. c \in Clients
      BY <1>2
    <3>. QED  BY <1>8, <3>1 DEF IInv, StateOK, GoneClientHasNoSession, Has
  <2>2. \A j \in 1..Len(ready') : ready'[j].kind = "connected" =>
          j + 1 \in 1..Len(ready) /\ ready'[j] = ready[j + 1]
    BY <1>1 DEF Leaves
  <2>3. CASE i + 1 \in 1..Len(ready) /\ ready'[i] = ready[i + 1]
    <3>1. CASE table[c] = r
      <4>1. /\ conn[r] = "connecting"
            /\ \A j \in 1..Len(ready) :
                 ready[j].kind = "connected" /\ ready[j].sess = r => i + 1 < j
        <5>1. /\ Sends(ready[i + 1]) /\ ready[i + 1].call.sess = s
              /\ ready[i + 1].call.step # "user"
          BY <1>8, <2>3
        <5>2. Has(c) /\ table[c] # s /\ table[c] = r
          BY <1>8, <3>1 DEF Has
        <5>. QED  BY <1>8, <2>3, <5>1, <5>2 DEF CInv, FirstGoesFirst
      <4>2. ~(Running("connected") /\ Head(ready).sess = r)
        <5>1. ~(i + 1 < 1)
          OBVIOUS
        <5>. QED  BY <1>1, <4>1, <5>1 DEF Running
      <4>3. conn'[r] = "connecting"
        BY <1>2, <2>1, <4>1, <4>2 DEF SocketStep
      <4>4. ASSUME NEW j \in 1..Len(ready'), ready'[j].kind = "connected", ready'[j].sess = r
            PROVE  i < j
        <5>1. i + 1 < j + 1
          BY <2>2, <4>1, <4>4
        <5>. QED  BY <5>1
      <4>. QED  BY <4>3, <4>4
    <3>2. CASE Runs(r) /\ conn'[r] = "connecting"
      <4>1. conn[r] = "none"
        BY <1>0, <2>1, <3>2, RunsFacts
      <4>2. ASSUME NEW j \in 1..Len(ready'), ready'[j].kind = "connected", ready'[j].sess = r
            PROVE  FALSE
        <5>1. j + 1 \in 1..Len(ready) /\ ready'[j] = ready[j + 1]
          BY <2>2, <4>2
        <5>2. ready[j + 1] \in Members(ready)
          BY <5>1 DEF Members
        <5>3. conn[r] = "connecting"
          BY <4>2, <5>1, <5>2 DEF PInv, Staged
        <5>. QED  BY <4>1, <5>3
      <4>. QED  BY <3>2, <4>2
    <3>. QED  BY <1>2, <1>8, <3>1, <3>2 DEF TableStep
  <2>4. CASE Leaves(ready'[i])
    <3>1. \/ conn'[s] = "open"
          \/ conn[s] \in {"connecting", "open"}
      BY <1>8, <2>4 DEF Leaves, Sends
    <3>2. CASE conn'[s] = "open"
      BY <1>6, <1>8, <2>1, <3>2
    <3>3. CASE conn[s] \in {"connecting", "open"}
      <4>1. table[c] = s
        BY <1>0, <1>8, <2>1, <3>3 DEF CInv, FirstStays
      <4>. QED  BY <1>2, <1>8, <4>1 DEF TableStep
    <3>. QED  BY <3>1, <3>2, <3>3
  <2>. QED  BY <1>1, <2>3, <2>4
<1>9. FirstGoesFirst'
  BY <1>8 DEF FirstGoesFirst, Has
<1>10. ASSUME NEW r \in Session, "session_closed" \in Codes(r)'
       PROVE  r.n > 2 \/ (r.client \notin live' /\ "session_closed" \notin Sent(r)')
  <2>1. /\ "session_closed" \in Codes(r) \/ <<r, "session_closed">> \in A
        /\ Sent(r)' = Sent(r)
    BY <1>0, <1>10, AnswersPosted
  <2>2. CASE "session_closed" \in Codes(r)
    BY <1>0, <2>1, <2>2 DEF CInv, Notices
  <2>3. CASE <<r, "session_closed">> \in A /\ "session_closed" \notin Codes(r)
    <3>1. "session_closed" \notin Sent(r)
      BY <2>3 DEF Codes
    <3>2. /\ table[r.client] = r /\ IsReady(r)
          /\ r.client \notin live' \/ \E y \in Session : Disturbs(y, r)
      <4>1. May(r, "session_closed")
        BY <1>2, <2>3 DEF Account
      <4>. QED  BY <4>1, RunsFacts DEF May
    <3>3. ASSUME NEW y \in Session, Disturbs(y, r), r.client \in live'
          PROVE  r.n > 2
      <4>1. Has(r.client) /\ table[y.client] = r /\ y.client = r.client /\ y # r
        BY <1>2, <3>2, <3>3 DEF Has, Disturbs
      <4>2. y.n <= r.n /\ y.n # r.n
        BY <1>3, <3>3, <4>1, SessionNames DEF Disturbs
      <4>3. SUFFICES ASSUME y.n = 1 PROVE FALSE
        BY <1>2, <4>2
      <4>4. CASE conn[y] \in {"connecting", "open"}
        BY <1>0, <3>3, <4>1, <4>3, <4>4 DEF CInv, FirstStays
      <4>5. CASE /\ Sends(ready[1]) /\ ready[1].call.sess = y
                 /\ ready[1].call.step # "user"
        <5>1. conn[r] = "connecting"
          BY <1>1, <4>1, <4>3, <4>5 DEF CInv, FirstGoesFirst
        <5>. QED  BY <3>2, <5>1 DEF IsReady
      <4>. QED  BY <1>1, <3>3, <4>4, <4>5 DEF Disturbs
    <3>. QED  BY <2>1, <3>1, <3>2, <3>3
  <2>. QED  BY <2>1, <2>2, <2>3
<1>11. Notices'
  BY <1>10 DEF Notices
<1>. QED  BY <1>5, <1>7, <1>9, <1>11 DEF CInv

-----------------------------------------------------------------------------
(* What each handler accounts for. *)

\* A session in the table has begun to connect.
LEMMA EntryHasConnected ==
  ASSUME IInv, PInv, NEW c \in Clients, table[c] # NoSession
  PROVE  /\ table[c] \in Session /\ table[c].client = c
         /\ conn[table[c]] # "none"
<1>1. table[c] \in Session /\ table[c].client = c
  BY InvFacts DEF IInv, OwnEntry, Has
<1>2. conn[table[c]] = "none" => table[c] \in loggedIn
  BY InvFacts
<1>. QED  BY <1>1, <1>2 DEF PInv, LoginSteps

\* A handler that answers A and leaves the sessions and their sockets alone.
LEMMA QuietAccount ==
  ASSUME NEW A, Posts(A), A \subseteq Request \X Code,
         Running("respond") => Head(ready).req.client \notin live,
         \A r \in Request, x \in Code : <<r, x>> \in A => May(r, x),
         UNCHANGED <<live, issued, owed, replies, table, conn, loggedIn, held>>,
         \A k \in Call : StageStep(k, A) /\ HeadStep(k, A)
  PROVE  Account(A)
  BY DEF Account, SocketStep, LoginStep, TableStep

\* Such a handler, of neither a send nor a sentence of an open API, that leaves
\* the callbacks alone too.
LEMMA IdleAccount ==
  ASSUME IInv, ready # <<>>, ~Running("sent"),
         Running("sentence") => conn[Head(ready).call.sess] # "open",
         NEW A, NEW q \in Seq(Handler), Says(q, A), Idle(q), FinishWith(q),
         A \subseteq Request \X Code,
         Running("respond") => Head(ready).req.client \notin live,
         \A r \in Request, x \in Code : <<r, x>> \in A => May(r, x),
         UNCHANGED <<live, issued, owed, replies>>
  PROVE  Account(A)
<1>1. Posts(A)
  BY FinishWithSays DEF FinishWith, Leaves, Idle
<1>2. UNCHANGED <<table, conn, loggedIn, stage, held>>
  BY DEF FinishWith
<1>3. ASSUME NEW k \in Call  PROVE StageStep(k, A) /\ HeadStep(k, A)
  <2>1. Head(ready) # HasSent(k)
    BY DEF HasSent, Running
  <2>. QED  BY <1>2, <2>1 DEF StageStep, HeadStep
<1>. QED  BY <1>1, <1>2, <1>3, QuietAccount

LEMMA AnswerAccount ==
  ASSUME IInv, PInv, AInv,
         \/ AnswerAtOnce \/ RefuseOpen \/ RefuseCommand
         \/ CreateSession /\ ~addressParses
  PROVE  \E A : Account(A)
<1>. DEFINE r == Head(ready).req
<1>1. Running("request") /\ UNCHANGED <<live, issued, owed, replies>>
  BY DEF AnswerAtOnce, RefuseOpen, RefuseCommand, CreateSession
<1>2. /\ ready # <<>> /\ r \in Request /\ r.client \in Clients /\ Runs(r)
      /\ ~Running("sent") /\ ~Running("sentence") /\ ~Running("respond")
  BY <1>1, RunningFields DEF Runs, Running, Request
<1>3. PICK x \in Code : FinishWith(Respond(r, x)) /\ x # "session_closed"
  <2>1. {"data", "unknown_command", "already_open", "pending", "not_open", "open_failed"}
          \subseteq Code
    BY DEF Code
  <2>2. CASE AnswerAtOnce
    BY <2>1, <2>2 DEF AnswerAtOnce, ImmediateCode
  <2>3. CASE RefuseOpen
    BY <2>1, <2>3 DEF RefuseOpen
  <2>4. CASE RefuseCommand
    BY <2>1, <2>4 DEF RefuseCommand
  <2>5. CASE CreateSession /\ ~addressParses
    BY <2>1, <2>5 DEF CreateSession, OpenApi
  <2>. QED  BY <2>2, <2>3, <2>4, <2>5
<1>4. /\ Respond(r, x) \in Seq(Handler) /\ Idle(Respond(r, x))
      /\ Says(Respond(r, x), {<<r, x>>})
  BY <1>2, SaysOne DEF Idle
<1>5. May(r, x)
  <2>1. UNCHANGED <<table, conn, stage>>
    BY <1>3 DEF FinishWith
  <2>2. r \in Session => conn[r] = "none" /\ r # NoSession
    BY <1>2, RunsFacts, SessionsAssumption
  <2>3. r \in Session => table[r.client] # r
    BY <1>2, <2>2, EntryHasConnected
  <2>. QED  BY <1>2, <1>3, <2>1, <2>3 DEF May
<1>6. \A s \in Request, y \in Code : <<s, y>> \in {<<r, x>>} => May(s, y)
  BY <1>5
<1>7. Account({<<r, x>>})
  <2>. HIDE DEF r
  <2>. QED  BY <1>1, <1>2, <1>3, <1>4, <1>6, IdleAccount
<1>. QED  BY <1>7

LEMMA IgnoreAccount ==
  ASSUME IInv, IgnoreGoneClient \/ IgnoreClosedApi
  PROVE  \E A : Account(A)
<1>1. /\ ready # <<>> /\ ~Running("sent")
      /\ Running("sentence") => conn[Head(ready).call.sess] # "open"
      /\ Running("respond") => Head(ready).req.client \notin live
      /\ FinishWith(<<>>) /\ UNCHANGED <<live, issued, owed, replies>>
  BY DEF IgnoreGoneClient, IgnoreClosedApi, Running
<1>2. <<>> \in Seq(Handler) /\ Idle(<<>>) /\ Says(<<>>, {})
  BY None, SaysNothing DEF Idle
<1>3. Account({})
  BY <1>1, <1>2, IdleAccount
<1>. QED  BY <1>3

LEMMA CreateAccount ==
  ASSUME IInv, PInv, AInv, CreateSession, addressParses
  PROVE  \E A : Account(A)
<1>. DEFINE r == Head(ready).req
<1>1. /\ Running("request") /\ r.op = "open" /\ table[r.client] = NoSession
      /\ OpenApi(r) /\ UNCHANGED <<live, issued, owed, replies>>
  BY DEF CreateSession, Has
<1>2. /\ ready # <<>> /\ r \in Session /\ r.client \in Clients /\ Runs(r)
      /\ ~Running("sent") /\ ~Running("sentence") /\ ~Running("respond")
  BY <1>1, RunningFields DEF Runs, Running, Request, Session
<1>3. conn[r] = "none" /\ r # NoSession
  BY <1>2, RunsFacts, SessionsAssumption
<1>. HIDE DEF r
<1>4. /\ table' = [table EXCEPT ![r.client] = r]
      /\ conn' = [conn EXCEPT ![r] = "connecting"]
      /\ ready' = Tail(ready)
      /\ UNCHANGED <<loggedIn, stage, held>>
  BY <1>1 DEF OpenApi
<1>5. Posts({})
  <2>1. Tail(ready) \in Seq(Handler) /\ Tail(ready) \o <<>> = Tail(ready)
    BY <1>2, Taken, None
  <2>2. <<>> \in Seq(Handler) /\ Members(<<>>) = {} /\ Says(<<>>, {})
    BY None, SaysNothing
  <2>. QED  BY <1>2, <1>4, <2>1, <2>2, FinishWithSays
<1>6. ASSUME NEW s \in Session  PROVE SocketStep(s) /\ LoginStep(s)
  BY <1>1, <1>2, <1>3, <1>4, InvFacts DEF SocketStep, LoginStep
<1>7. ASSUME NEW k \in Call  PROVE StageStep(k, {}) /\ HeadStep(k, {})
  <2>1. Head(ready) # HasSent(k)
    BY <1>2 DEF HasSent, Running
  <2>. QED  BY <1>2, <1>4, <2>1 DEF StageStep, HeadStep
<1>8. ASSUME NEW c \in Clients  PROVE TableStep(c)
  <2>1. table'[r.client] = r /\ conn'[r] = "connecting"
    BY <1>2, <1>4, InvFacts
  <2>2. c # r.client => table'[c] = table[c]
    BY <1>2, <1>4, InvFacts
  <2>. QED  BY <1>1, <1>2, <2>1, <2>2 DEF TableStep
<1>. QED  BY <1>1, <1>2, <1>4, <1>5, <1>6, <1>7, <1>8 DEF Account

LEMMA PassOnAccount ==
  ASSUME IInv, PInv, AInv, PassOn \/ LoadRow
  PROVE  \E A : Account(A)
<1>. DEFINE k == Head(ready).call
            reply == Head(ready).reply
<1>1. /\ Running("sentence") /\ ready # <<>> /\ k \in Call /\ k.req \in Request
      /\ k.step = "user" /\ k.req.op \in {"send", "load"}
      /\ UNCHANGED <<live, issued, owed, replies, table, conn, loggedIn, held>>
  BY RunningFields, CallFields DEF PassOn, LoadRow
<1>2. /\ stage[k] = "waiting" /\ reply \in Response
      /\ stage' = KeepCallback(k, ~Empty(reply))
  BY DEF PassOn, LoadRow, Answers, Response
<1>3. PICK x \in Code :
        /\ ready' = Tail(ready) \o Respond(k.req, x) /\ x # "session_closed"
        /\ k.req.op = "send" => x = reply
        /\ k.req.op = "load" /\ Empty(reply) => x = "success"
        /\ k.req.op = "load" => reply # "ret"
  <2>1. CASE PassOn
    <3>1. k.req.op = "send" /\ ready' = Tail(ready) \o Respond(k.req, reply)
      BY <2>1 DEF PassOn, Answers
    <3>2. reply \in Code /\ reply # "session_closed"
      BY <1>2 DEF Code, Response
    <3>. QED  BY <3>1, <3>2
  <2>2. CASE LoadRow
    <3>1. /\ k.req.op = "load" /\ reply \in {"row", "blank", "done"}
          /\ ready' = Tail(ready) \o
               Respond(k.req, IF Empty(reply) THEN "success" ELSE "data")
      BY <2>2 DEF LoadRow, Answers
    <3>2. "success" \in Code /\ "data" \in Code
      BY DEF Code
    <3>. QED  BY <3>1, <3>2
  <2>. QED  BY <2>1, <2>2
<1>. DEFINE A == {<<k.req, x>>}
<1>4. /\ stage'[k] = IF Empty(reply) THEN "done" ELSE "waiting"
      /\ \A l \in Call : l # k => stage'[l] = stage[l]
  BY <1>1, <1>2, InvFacts DEF KeepCallback
<1>5. Posts(A)
  <2>1. /\ Respond(k.req, x) \in Seq(Handler) /\ Says(Respond(k.req, x), A)
        /\ \A h \in Members(Respond(k.req, x)) : Leaves(h)
    BY <1>1, SaysOne DEF Leaves
  <2>. HIDE DEF A, k
  <2>. QED  BY <1>1, <1>3, <2>1, FinishWithSays
<1>6. May(k.req, x)
  <2>1. k.req.op = "send" =>
          x \in {"row", "trap", "ret"} \/ (x \in {"done", "blank"} /\ stage'[k] = "done")
    BY <1>2, <1>3, <1>4 DEF Empty, Response
  <2>. HIDE DEF k
  <2>. QED  BY <1>1, <1>2, <1>3, <2>1 DEF May
<1>7. ASSUME NEW l \in Call  PROVE StageStep(l, A) /\ HeadStep(l, A)
  <2>1. Head(ready) # HasSent(l)
    BY <1>1 DEF HasSent, Running
  <2>2. CASE l # k
    BY <1>4, <2>1, <2>2 DEF StageStep, HeadStep
  <2>3. CASE l = k
    <3>1. stage'[k] = "done" => \/ reply \notin {"row", "blank", "trap"}
                                \/ <<k.req, EndCode(k)>> \in A
      BY <1>1, <1>2, <1>3, <1>4 DEF Empty, EndCode
    <3>2. stage'[k] = "waiting" =>
            reply \in {"row", "blank", "trap"} \/ <<k.req, "ret">> \in A
      BY <1>1, <1>2, <1>3, <1>4 DEF Empty, Response
    <3>3. stage'[k] \in {"done", "waiting"}
      BY <1>4
    <3>. HIDE DEF A
    <3>. QED  BY <1>1, <1>2, <2>1, <2>3, <3>1, <3>2, <3>3 DEF StageStep, HeadStep
  <2>. QED  BY <2>2, <2>3
<1>8. /\ A \subseteq Request \X Code
      /\ \A s \in Request, y \in Code : <<s, y>> \in A => May(s, y)
      /\ ~Running("respond")
  BY <1>1, <1>6 DEF Running
<1>9. Account(A)
  <2>. HIDE DEF A
  <2>. QED  BY <1>1, <1>5, <1>7, <1>8, QuietAccount
<1>. QED  BY <1>9

\* The next send is started, or has succeeded.
LEMMA SendingAccount ==
  ASSUME IInv, PInv, StartSend \/ SendDone
  PROVE  \E A : Account(A)
<1>. DEFINE k == Head(ready).call
<1>1. /\ ready # <<>> /\ k \in Call /\ Head(ready) \in Handler
      /\ ready' = Tail(ready)
      /\ ~Running("sentence") /\ ~Running("respond")
      /\ UNCHANGED <<live, issued, owed, replies, table, conn, loggedIn, held>>
  BY RunningFields, HeadAndTail DEF StartSend, SendDone, AllowedCall, Running
<1>2. Head(ready) \in Members(ready) /\ stage \in [Call -> Stage]
  BY <1>1, Known, MembersTail
<1>3. Posts({})
  <2>1. Tail(ready) \in Seq(Handler) /\ Tail(ready) \o <<>> = Tail(ready)
    BY <1>1, Taken, None
  <2>2. <<>> \in Seq(Handler) /\ Members(<<>>) = {} /\ Says(<<>>, {})
    BY None, SaysNothing
  <2>. QED  BY <1>1, <2>1, <2>2, FinishWithSays
<1>4. CASE StartSend
  <2>1. Head(ready).kind = "post" /\ stage' = [stage EXCEPT ![k] = "sending"]
    BY <1>4 DEF StartSend, Running
  <2>2. stage[k] = "posted"
    BY <1>2, <2>1 DEF PInv, Staged
  <2>3. ASSUME NEW l \in Call  PROVE StageStep(l, {}) /\ HeadStep(l, {})
    <3>1. Head(ready) # HasSent(l)
      BY <2>1 DEF HasSent
    <3>. QED  BY <1>1, <1>2, <2>1, <2>2, <3>1 DEF StageStep, HeadStep
  <2>. QED  BY <1>1, <1>3, <2>3, QuietAccount
<1>5. CASE SendDone
  <2>1. /\ Head(ready).kind = "sent" /\ Head(ready).ok
        /\ stage' = [stage EXCEPT ![k] = "waiting"]
    BY <1>5 DEF SendDone, Running
  <2>2. stage[k] = "sending"
    BY <1>2, <2>1 DEF PInv, Staged
  <2>3. Head(ready) = HasSent(k)
    BY <1>1, <2>1 DEF HasSent, Handler
  <2>4. ASSUME NEW l \in Call  PROVE StageStep(l, {}) /\ HeadStep(l, {})
    <3>1. Head(ready) = HasSent(l) => l = k
      BY DEF HasSent
    <3>. QED  BY <1>1, <1>2, <2>1, <2>2, <2>3, <3>1 DEF StageStep, HeadStep
  <2>. QED  BY <1>1, <1>3, <2>4, QuietAccount
<1>. QED  BY <1>4, <1>5

LEMMA ChallengeAccount ==
  ASSUME IInv, PInv, Challenge
  PROVE  \E A : Account(A)
<1>. DEFINE k  == Head(ready).call
            k2 == LoginCall(k.sess, "login2")
            h  == [kind |-> "post", call |-> k2]
<1>1. /\ Running("sentence") /\ ready # <<>> /\ k \in Call /\ k.sess \in Session
      /\ k.step = "login1" /\ Head(ready).reply = "challenge"
      /\ conn[k.sess] = "open" /\ stage[k] = "waiting"
      /\ ready' = Append(Tail(ready), h)
      /\ UNCHANGED <<live, issued, owed, replies, table, conn, loggedIn, held>>
  BY RunningFields, CallFields DEF Challenge, Answers
<1>2. /\ k2 \in Call /\ k2.sess = k.sess /\ k2.step = "login2"
      /\ k = LoginCall(k.sess, "login1")
  BY <1>1, LoginCalls
<1>3. stage[k2] = "none" /\ k # k2
  BY <1>1, <1>2 DEF PInv, LoginSteps
<1>4. /\ stage'[k] = "done" /\ stage'[k2] = "posted"
      /\ \A l \in Call : l # k /\ l # k2 => stage'[l] = stage[l]
  BY <1>1, <1>2, <1>3, InvFacts DEF Challenge
<1>5. h \in Handler /\ h.kind = "post" /\ h.call = k2
  BY <1>2 DEF Handler
<1>6. Posts({})
  <2>1. /\ Tail(ready) \in Seq(Handler) /\ ready' = Tail(ready) \o <<h>>
        /\ <<h>> \in Seq(Handler) /\ Members(<<h>>) = {h}
    BY <1>1, <1>5, Taken, One
  <2>2. \A g \in Members(<<h>>) : g.kind # "respond" /\ Leaves(g)
    BY <1>1, <1>2, <1>5, <2>1 DEF Leaves
  <2>. HIDE DEF h
  <2>. QED  BY <1>1, <2>1, <2>2, SaysNothing, FinishWithSays
<1>. HIDE DEF h
<1>7. ASSUME NEW l \in Call  PROVE StageStep(l, {}) /\ HeadStep(l, {})
  <2>1. Head(ready) # HasSent(l)
    BY <1>1 DEF HasSent, Running
  <2>2. CASE l = k
    BY <1>1, <1>4, <2>1, <2>2 DEF StageStep, HeadStep
  <2>3. CASE l = k2
    BY <1>1, <1>2, <1>3, <1>4, <2>1, <2>3 DEF StageStep, HeadStep
  <2>. QED  BY <1>4, <2>1, <2>2, <2>3 DEF StageStep, HeadStep
<1>8. ~Running("respond")
  BY <1>1 DEF Running
<1>9. Account({})
  BY <1>1, <1>6, <1>7, <1>8, QuietAccount
<1>. QED  BY <1>9

-----------------------------------------------------------------------------
(* The handlers that may let go of sessions. *)

\* What CloseNotice(c) answers.
Noticed(c) == IF HasReady(c) THEN {<<table[c], "session_closed">>} ELSE {}

LEMMA NoticeSays ==
  ASSUME IInv, NEW c \in Clients
  PROVE  /\ CloseNotice(c) \in Seq(Handler) /\ Says(CloseNotice(c), Noticed(c))
         /\ \A h \in Members(CloseNotice(c)) :
              /\ h.kind = "respond" /\ h.req = table[c] /\ Leaves(h)
              /\ HasReady(c)
         /\ Noticed(c) \subseteq Request \X Code
<1>1. CASE HasReady(c)
  <2>1. table[c] \in Request /\ "session_closed" \in Code
    BY <1>1, InvFacts, SessionIsRequest DEF HasReady, Has, Code
  <2>2. CloseNotice(c) = Respond(table[c], "session_closed")
    BY <1>1 DEF CloseNotice
  <2>3. \A h \in Members(Respond(table[c], "session_closed")) : h.req = table[c]
    <3>. DEFINE g == [kind |-> "respond", req |-> table[c], code |-> "session_closed"]
    <3>1. g \in Handler /\ g.req = table[c]
      BY <2>1 DEF Handler
    <3>2. Respond(table[c], "session_closed") = <<g>>
      BY DEF Respond
    <3>. HIDE DEF g
    <3>. QED  BY <3>1, <3>2, One
  <2>4. Noticed(c) = {<<table[c], "session_closed">>}
    BY <1>1 DEF Noticed
  <2>5. /\ Respond(table[c], "session_closed") \in Seq(Handler)
        /\ Says(Respond(table[c], "session_closed"), Noticed(c))
        /\ \A h \in Members(Respond(table[c], "session_closed")) : h.kind = "respond"
    BY <2>1, <2>4, SaysOne
  <2>6. Noticed(c) \subseteq Request \X Code
    BY <2>1, <2>4
  <2>7. \A h \in Members(CloseNotice(c)) : h.kind = "respond" /\ h.req = table[c] /\ Leaves(h)
    BY <2>2, <2>3, <2>5 DEF Leaves
  <2>. QED  BY <1>1, <2>2, <2>5, <2>6, <2>7
<1>2. CASE ~HasReady(c)
  BY <1>2, None, SaysNothing DEF CloseNotice, Noticed
<1>. QED  BY <1>1, <1>2

\* A client hears that its session is closed when it leaves or another
\* connection of its ends.
LEMMA NoticeMay ==
  ASSUME IInv, NEW c \in Clients, table'[c] = NoSession,
         NEW r, NEW x, <<r, x>> \in Noticed(c),
         c \notin live' \/ \E y \in Session : Disturbs(y, table[c])
  PROVE  May(r, x)
<1>1. /\ r = table[c] /\ x = "session_closed" /\ HasReady(c)
  BY DEF Noticed
<1>2. r \in Session /\ r.client = c /\ IsReady(r)
  BY <1>1, InvFacts DEF HasReady, Has, IInv, OwnEntry
<1>. QED  BY <1>1, <1>2 DEF May

\* What the sockets may become.
LEMMA FinishSockets ==
  ASSUME NEW sockets, NEW sends, NEW before, NEW after,
         Finish(sockets, sends, before, after), NEW s \in Session
  PROVE  /\ conn'[s] = sockets[s] \/ (conn'[s] = "closed" /\ sockets[s] = "open")
         /\ conn'[s] = "open" => sockets[s] = "open" /\ Referenced(s)'
         /\ sockets[s] = "open" /\ Referenced(s)' => conn'[s] = "open"
  BY DEF Finish

LEMMA OutboxOwn ==
  ASSUME IInv, PInv, NEW s \in Session, NEW k \in Members(outbox[s])
  PROVE  k.sess = s
  BY DEF PInv, Underway

\* The send operations of a socket that is closed end in failures.
LEMMA AbortLeaves ==
  ASSUME IInv, PInv, NEW s \in Session, conn[s] = "open"
  PROVE  /\ Abort(outbox[s]) \in Seq(Handler)
         /\ \A h \in Members(Abort(outbox[s])) : h.kind = "sent" /\ Leaves(h)
<1>. DEFINE calls == outbox[s]
<1>1. calls \in Seq(Call) /\ \A k \in Members(calls) : k.sess = s
  BY Known, OutboxOwn
<1>. HIDE DEF calls
<1>2. /\ Len(calls) \in Nat
      /\ \A i \in 1..Len(calls) :
           /\ [kind |-> "sent", call |-> calls[i], ok |-> FALSE] \in Handler
           /\ calls[i] \in Members(calls)
  BY <1>1, Elements DEF Handler, Members
<1>3. Abort(calls) \in Seq(Handler)
  BY <1>2 DEF Abort
<1>4. ASSUME NEW h \in Members(Abort(calls))
      PROVE  h.kind = "sent" /\ Leaves(h)
  <2>1. PICK i \in 1..Len(calls) : h = [kind |-> "sent", call |-> calls[i], ok |-> FALSE]
    BY <1>2 DEF Abort, Members
  <2>2. h.kind = "sent" /\ h.call = calls[i] /\ ~h.ok
    BY <2>1
  <2>. QED  BY <1>1, <1>2, <2>2 DEF Leaves
<1>. QED  BY <1>3, <1>4 DEF calls

LEMMA RunCommandAccount ==
  ASSUME IInv, PInv, RunCommand
  PROVE  \E A : Account(A)
<1>. DEFINE r == Head(ready).req
            k == UserCall(table[r.client], r)
            h == [kind |-> "post", call |-> k]
            after == IF r.op = "badsend" THEN Respond(r, "invalid_request") ELSE <<h>>
            A == IF r.op = "badsend" THEN {<<r, "invalid_request">>} ELSE {}
<1>1. /\ Running("request") /\ ready # <<>> /\ r \in Request /\ r.client \in Clients
      /\ r.op \in {"send", "badsend", "load"} /\ HasReady(r.client)
      /\ Runs(r) /\ Head(ready) \in Members(ready)
      /\ ~Running("sent") /\ ~Running("sentence") /\ ~Running("respond")
  BY RunningFields, Taken DEF RunCommand, Runs, Running, Request
<1>2. /\ held' = [held EXCEPT ![CommandOf(r.op)] = table[r.client]]
      /\ stage' = IF r.op = "badsend" THEN stage ELSE [stage EXCEPT ![k] = "posted"]
      /\ Finish(conn, outbox, <<>>, after)
      /\ UNCHANGED <<live, issued, loggedIn, owed, replies, table>>
  BY DEF RunCommand
<1>3. /\ table[r.client] \in Session /\ table[r.client].client = r.client
      /\ table[r.client] \in loggedIn
  BY <1>1, InvFacts DEF HasReady, Has, IsReady, IInv, OwnEntry
<1>4. r.op # "badsend" =>
        /\ k \in Call /\ k.sess = table[r.client] /\ k.req = r /\ k.step = "user"
        /\ stage[k] = "none"
  <2>1. SUFFICES ASSUME r.op # "badsend"
                 PROVE  /\ k \in Call /\ k.sess = table[r.client] /\ k.req = r
                        /\ k.step = "user" /\ stage[k] = "none"
    OBVIOUS
  <2>2. /\ k \in Call /\ k.sess = table[r.client] /\ k.req = r /\ k.step = "user"
    BY <1>1, <1>3, <2>1 DEF UserCall, Call
  <2>. QED  BY <1>1, <2>2 DEF PInv, Unserved, Running
<1>5. /\ after \in Seq(Handler) /\ Says(after, A)
      /\ \A g \in Members(after) : Leaves(g)
      /\ A \subseteq Request \X Code
  <2>1. CASE r.op = "badsend"
    <3>1. "invalid_request" \in Code
      BY DEF Code
    <3>2. after = Respond(r, "invalid_request") /\ A = {<<r, "invalid_request">>}
      BY <2>1
    <3>3. A \subseteq Request \X Code
      BY <1>1, <3>1, <3>2
    <3>. HIDE DEF after, A
    <3>4. /\ after \in Seq(Handler) /\ Says(after, A)
          /\ \A g \in Members(after) : g.kind = "respond"
      BY <1>1, <3>1, <3>2, SaysOne
    <3>. QED  BY <3>3, <3>4 DEF Leaves
  <2>2. CASE r.op # "badsend"
    <3>1. h \in Handler /\ h.kind = "post" /\ h.call = k
      BY <1>4, <2>2 DEF Handler
    <3>. HIDE DEF h, k
    <3>2. /\ <<h>> \in Seq(Handler) /\ Members(<<h>>) = {h}
          /\ \A g \in Members(<<h>>) : g.kind # "respond"
      BY <3>1, One
    <3>3. after = <<h>> /\ A = {}
      BY <2>2
    <3>. HIDE DEF after, A
    <3>4. /\ after \in Seq(Handler) /\ Says(after, A)
      BY <3>2, <3>3, SaysNothing
    <3>. QED  BY <1>4, <2>2, <3>1, <3>2, <3>3, <3>4 DEF Leaves
  <2>. QED  BY <2>1, <2>2
<1>6. Posts(A)
  <2>1. <<>> \in Seq(Handler) /\ Members(<<>>) = {} /\ Says(<<>>, {}) /\ {} \cup A = A
    BY None, SaysNothing
  <2>2. outbox \in [Session -> Seq(Call)]
    BY Known
  <2>3. \A s \in Session : /\ conn[s] = "open" => conn[s] \in {"connecting", "open"}
                           /\ \A l \in Members(outbox[s]) : l.sess = s
    BY OutboxOwn
  <2>. HIDE DEF A, after
  <2>4. Posting(conn, outbox, <<>>, after, {}, A)
    BY <1>5, <2>1, <2>2, <2>3 DEF Posting
  <2>5. Posts({} \cup A)
    BY <1>1, <1>2, <2>4, FinishSays
  <2>. QED  BY <2>1, <2>5
<1>7. ASSUME NEW x \in Request, NEW y \in Code, <<x, y>> \in A  PROVE May(x, y)
  <2>1. r.op = "badsend" /\ x = r /\ y = "invalid_request"
    BY <1>7
  <2>2. r \notin Session
    BY <2>1, RequestKinds, <1>1
  <2>. QED  BY <1>1, <1>2, <2>1, <2>2 DEF May
<1>8. ASSUME NEW s \in Session  PROVE SocketStep(s) /\ LoginStep(s)
  BY <1>2, FinishSockets DEF SocketStep, LoginStep
<1>9. ASSUME NEW l \in Call  PROVE StageStep(l, A) /\ HeadStep(l, A)
  <2>1. Head(ready) # HasSent(l)
    BY <1>1 DEF HasSent, Running
  <2>2. stage'[l] = stage[l] \/ (r.op # "badsend" /\ l = k /\ stage'[l] = "posted")
    BY <1>2, InvFacts
  <2>3. CASE r.op # "badsend" /\ l = k /\ stage'[l] = "posted"
    <3>. HIDE DEF A
    <3>. QED  BY <1>1, <1>3, <1>4, <2>1, <2>3 DEF StageStep, HeadStep
  <2>. HIDE DEF A, k
  <2>. QED  BY <1>1, <2>1, <2>2, <2>3 DEF StageStep, HeadStep
<1>10. \A c \in Clients : TableStep(c)
  BY <1>2 DEF TableStep
<1>11. \A m \in Command : held'[m] = held[m] \/ held'[m] \in loggedIn
  BY <1>2, <1>3, InvFacts
<1>12. Account(A)
  <2>. HIDE DEF A
  <2>. QED  BY <1>1, <1>2, <1>5, <1>6, <1>7, <1>8, <1>9, <1>10, <1>11 DEF Account
<1>. QED  BY <1>12

LEMMA LoseClientAccount ==
  ASSUME IInv, PInv, LoseClient
  PROVE  \E A : Account(A)
<1>. DEFINE c == Head(ready).client
<1>1. /\ Running("lost") /\ ready # <<>> /\ c \in Clients
      /\ ~Running("sent") /\ ~Running("sentence") /\ ~Running("respond")
  BY RunningFields DEF LoseClient, Running
<1>2. /\ live' = live \ {c} /\ table' = Erase(c)
      /\ Finish(conn, outbox, CloseNotice(c), <<>>)
      /\ UNCHANGED <<held, stage, issued, loggedIn, owed, replies>>
  BY DEF LoseClient
<1>. HIDE DEF c
<1>3. Posts(Noticed(c))
  <2>1. /\ <<>> \in Seq(Handler) /\ Members(<<>>) = {} /\ Says(<<>>, {})
        /\ Noticed(c) \cup {} = Noticed(c)
    BY None, SaysNothing
  <2>2. outbox \in [Session -> Seq(Call)]
    BY Known
  <2>3. \A s \in Session : /\ conn[s] = "open" => conn[s] \in {"connecting", "open"}
                           /\ \A l \in Members(outbox[s]) : l.sess = s
    BY OutboxOwn
  <2>4. Posting(conn, outbox, CloseNotice(c), <<>>, Noticed(c), {})
    BY <1>1, <2>1, <2>2, <2>3, NoticeSays DEF Posting
  <2>5. Posts(Noticed(c) \cup {})
    BY <1>1, <1>2, <2>4, FinishSays
  <2>. QED  BY <2>1, <2>5
<1>4. table'[c] = NoSession /\ \A d \in Clients : d # c => table'[d] = table[d]
  BY <1>1, <1>2, EraseKeeps
<1>5. ASSUME NEW r \in Request, NEW x \in Code, <<r, x>> \in Noticed(c)  PROVE May(r, x)
  BY <1>1, <1>2, <1>4, <1>5, NoticeMay
<1>6. ASSUME NEW s \in Session  PROVE SocketStep(s) /\ LoginStep(s)
  BY <1>2, FinishSockets DEF SocketStep, LoginStep
<1>7. ASSUME NEW k \in Call  PROVE StageStep(k, Noticed(c)) /\ HeadStep(k, Noticed(c))
  <2>1. Head(ready) # HasSent(k)
    BY <1>1 DEF HasSent, Running
  <2>. QED  BY <1>1, <1>2, <2>1 DEF StageStep, HeadStep
<1>8. \A d \in Clients : TableStep(d)
  BY <1>2, <1>4 DEF TableStep
<1>9. Account(Noticed(c))
  BY <1>1, <1>2, <1>3, <1>5, <1>6, <1>7, <1>8, NoticeSays DEF Account
<1>. QED  BY <1>9

LEMMA LoginAcceptedAccount ==
  ASSUME IInv, PInv, LoginAccepted
  PROVE  \E A : Account(A)
<1>. DEFINE k == Head(ready).call
            s == k.sess
            after == IF Has(s.client) THEN Respond(s, "success") ELSE <<>>
            A == IF Has(s.client) THEN {<<s, "success">>} ELSE {}
<1>1. /\ Running("sentence") /\ ready # <<>> /\ k \in Call /\ s \in Session
      /\ s.client \in Clients /\ k.step = "login2" /\ Head(ready).reply = "done"
      /\ conn[s] = "open" /\ stage[k] = "waiting"
      /\ ~Running("sent") /\ ~Running("respond")
  BY RunningFields, CallFields, SessionIsRequest DEF LoginAccepted, Answers, Running
<1>2. /\ loggedIn' = loggedIn \cup {s} /\ stage' = [stage EXCEPT ![k] = "done"]
      /\ Finish(conn, outbox, <<>>, after)
      /\ UNCHANGED <<live, issued, table, held, owed, replies>>
  BY DEF LoginAccepted, KeepCallback
<1>3. /\ k = LoginCall(s, "login2") /\ LoginCall(s, "login1") \in Call
      /\ LoginCall(s, "login1") # k /\ stage[LoginCall(s, "login1")] = "done"
      /\ stage'[k] = "done" /\ \A l \in Call : l # k => stage'[l] = stage[l]
  <2>1. /\ k = LoginCall(s, "login2") /\ LoginCall(s, "login1") \in Call
        /\ LoginCall(s, "login1") # k
    BY <1>1, LoginCalls
  <2>2. stage[LoginCall(s, "login1")] = "done"
    BY <1>1, <2>1 DEF PInv, LoginSteps
  <2>3. stage'[k] = "done" /\ \A l \in Call : l # k => stage'[l] = stage[l]
    BY <1>1, <1>2, InvFacts
  <2>. QED  BY <2>1, <2>2, <2>3
<1>4. /\ after \in Seq(Handler) /\ Says(after, A)
      /\ \A g \in Members(after) : Leaves(g)
      /\ A \subseteq Request \X Code
  <2>1. CASE Has(s.client)
    <3>1. s \in Request /\ "success" \in Code
      BY <1>1, SessionIsRequest DEF Code
    <3>2. after = Respond(s, "success") /\ A = {<<s, "success">>}
      BY <2>1
    <3>3. A \subseteq Request \X Code
      BY <3>1, <3>2
    <3>. HIDE DEF after, A, s
    <3>. QED  BY <3>1, <3>2, <3>3, SaysOne DEF Leaves
  <2>2. CASE ~Has(s.client)
    <3>1. after = <<>> /\ A = {}
      BY <2>2
    <3>2. <<>> \in Seq(Handler) /\ Members(<<>>) = {} /\ Says(<<>>, {})
      BY None, SaysNothing
    <3>. QED  BY <3>1, <3>2
  <2>. QED  BY <2>1, <2>2
<1>5. Posts(A)
  <2>1. <<>> \in Seq(Handler) /\ Members(<<>>) = {} /\ Says(<<>>, {}) /\ {} \cup A = A
    BY None, SaysNothing
  <2>2. outbox \in [Session -> Seq(Call)]
    BY Known
  <2>3. \A x \in Session : \A l \in Members(outbox[x]) : l.sess = x
    BY OutboxOwn
  <2>. HIDE DEF A, after
  <2>4. Posting(conn, outbox, <<>>, after, {}, A)
    BY <1>4, <2>1, <2>2, <2>3 DEF Posting
  <2>5. Posts({} \cup A)
    BY <1>1, <1>2, <2>4, FinishSays
  <2>. QED  BY <2>1, <2>5
<1>6. ASSUME NEW r \in Request, NEW x \in Code, <<r, x>> \in A  PROVE May(r, x)
  <2>1. r = s /\ x = "success"
    BY <1>6
  <2>2. LoggingIn(r) /\ ~LoggingIn(r)'
    <3>1. /\ stage[LoginCall(r, "login2")] = "waiting"
          /\ stage'[LoginCall(r, "login1")] = "done" /\ stage'[LoginCall(r, "login2")] = "done"
      BY <1>1, <1>3, <2>1
    <3>. QED  BY <3>1 DEF LoggingIn, Pending
  <2>3. conn'[s] # "connecting"
    BY <1>1, <1>2, FinishSockets
  <2>. QED  BY <1>1, <1>2, <2>1, <2>2, <2>3 DEF May
<1>7. ASSUME NEW x \in Session  PROVE SocketStep(x) /\ LoginStep(x)
  <2>1. SocketStep(x)
    BY <1>2, FinishSockets DEF SocketStep
  <2>. QED  BY <1>1, <1>2, <1>3, <2>1 DEF LoginStep
<1>8. ASSUME NEW l \in Call  PROVE StageStep(l, A) /\ HeadStep(l, A)
  <2>1. Head(ready) # HasSent(l)
    BY <1>1 DEF HasSent, Running
  <2>. HIDE DEF A, s
  <2>2. CASE l = k
    BY <1>1, <1>3, <2>1, <2>2 DEF StageStep, HeadStep
  <2>3. CASE l # k
    BY <1>3, <2>1, <2>3 DEF StageStep, HeadStep
  <2>. QED  BY <2>2, <2>3
<1>9. \A c \in Clients : TableStep(c)
  BY <1>2 DEF TableStep
<1>10. Account(A)
  <2>. HIDE DEF A
  <2>. QED  BY <1>1, <1>2, <1>4, <1>5, <1>6, <1>7, <1>8, <1>9 DEF Account
<1>. QED  BY <1>10

LEMMA BrokenAccount ==
  ASSUME IInv, PInv, Broken
  PROVE  \E A : Account(A)
<1>. DEFINE s == HandledSession
            c == s.client
            sockets == [conn EXCEPT ![s] = "closed"]
            sends == [outbox EXCEPT ![s] = <<>>]
            aborts == Abort(outbox[s])
            notice == IF table[c] = s THEN <<>> ELSE CloseNotice(c)
            A == IF table[c] = s THEN {} ELSE Noticed(c)
<1>1. /\ ready # <<>> /\ s \in Session /\ c \in Clients /\ conn[s] = "open"
      /\ ~Running("sent") /\ ~Running("respond")
      /\ Running("sentence") => Head(ready).call.sess = s
  <2>1. /\ ready # <<>> /\ s \in Session /\ conn[s] = "open"
        /\ ~Running("sent") /\ ~Running("respond")
        /\ Running("sentence") => Head(ready).call.sess = s
    BY RunningFields, CallFields DEF Broken, Running, HandledSession
  <2>. QED  BY <2>1, SessionIsRequest
<1>2. /\ table' = Erase(c) /\ Finish(sockets, sends, aborts \o notice, <<>>)
      /\ UNCHANGED <<held, stage, live, issued, loggedIn, owed, replies>>
  BY DEF Broken, ApiError
<1>3. table'[c] = NoSession /\ \A d \in Clients : d # c => table'[d] = table[d]
  <2>. HIDE DEF s, c
  <2>. QED  BY <1>1, <1>2, EraseKeeps
<1>4. /\ sockets \in [Session -> ConnState] /\ sends \in [Session -> Seq(Call)]
      /\ sockets[s] = "closed" /\ Members(sends[s]) = {}
      /\ \A x \in Session : x # s => sockets[x] = conn[x] /\ sends[x] = outbox[x]
  <2>1. conn \in [Session -> ConnState] /\ outbox \in [Session -> Seq(Call)]
    BY Known
  <2>2. "closed" \in ConnState /\ <<>> \in Seq(Call) /\ Members(<<>>) = {}
    BY DEF ConnState, Members
  <2>. HIDE DEF s
  <2>. QED  BY <1>1, <2>1, <2>2
<1>5. /\ aborts \in Seq(Handler) /\ \A h \in Members(aborts) : h.kind = "sent" /\ Leaves(h)
  BY <1>1, AbortLeaves
<1>. HIDE DEF s, sockets, sends, aborts
<1>6. /\ notice \in Seq(Handler) /\ Says(notice, A)
      /\ \A h \in Members(notice) : h.kind = "respond" /\ Leaves(h)
      /\ A \subseteq Request \X Code
  <2>1. CASE table[c] = s
    <3>1. <<>> \in Seq(Handler) /\ Members(<<>>) = {} /\ Says(<<>>, {})
      BY None, SaysNothing
    <3>. QED  BY <2>1, <3>1
  <2>2. CASE table[c] # s
    BY <1>1, <2>2, NoticeSays
  <2>. QED  BY <2>1, <2>2
<1>7. Posts(A)
  <2>. DEFINE before == aborts \o notice
  <2>. HIDE DEF notice, A
  <2>1. /\ <<>> \in Seq(Handler) /\ Members(<<>>) = {} /\ Says(<<>>, {})
        /\ A \cup {} = A /\ {} \cup A = A
    BY None, SaysNothing
  <2>2. /\ before \in Seq(Handler) /\ \A h \in Members(before) : Leaves(h)
    BY <1>5, <1>6, MembersConcat
  <2>3. Says(before, {} \cup A)
    BY <1>5, <1>6, SaysNothing, SaysConcat
  <2>4. \A x \in Session : /\ sockets[x] = "open" => conn[x] \in {"connecting", "open"}
                           /\ \A l \in Members(sends[x]) : l.sess = x
    BY <1>4, OutboxOwn
  <2>. HIDE DEF before
  <2>5. Posting(sockets, sends, before, <<>>, A, {})
    BY <1>4, <2>1, <2>2, <2>3, <2>4 DEF Posting
  <2>6. Posts(A \cup {})
    BY <1>1, <1>2, <2>5, FinishSays DEF before
  <2>. QED  BY <2>1, <2>6
<1>8. ASSUME NEW r \in Request, NEW x \in Code, <<r, x>> \in A  PROVE May(r, x)
  <2>1. table[c] # s /\ <<r, x>> \in Noticed(c)
    BY <1>8
  <2>2. table[c] \in Session /\ table[c].client = c
    BY <2>1, <1>1, EntryHasConnected DEF Noticed, HasReady, Has
  <2>3. Disturbs(s, table[c])
    BY <1>1, <2>1, <2>2 DEF Disturbs
  <2>. HIDE DEF c
  <2>. QED  BY <1>1, <1>3, <2>1, <2>3, NoticeMay
<1>9. ASSUME NEW x \in Session  PROVE SocketStep(x) /\ LoginStep(x)
  BY <1>1, <1>2, <1>4, FinishSockets DEF SocketStep, LoginStep
<1>10. conn'[s] = "closed"
  BY <1>1, <1>2, <1>4, FinishSockets
<1>11. ASSUME NEW l \in Call  PROVE StageStep(l, A) /\ HeadStep(l, A)
  <2>1. Head(ready) # HasSent(l)
    BY <1>1 DEF HasSent, Running
  <2>. HIDE DEF A
  <2>. QED  BY <1>1, <1>2, <1>10, <2>1 DEF StageStep, HeadStep
<1>12. ASSUME NEW d \in Clients  PROVE TableStep(d)
  BY <1>1, <1>3, <1>10 DEF TableStep
<1>13. Account(A)
  <2>. HIDE DEF A
  <2>. QED  BY <1>1, <1>2, <1>6, <1>7, <1>8, <1>9, <1>11, <1>12 DEF Account
<1>. QED  BY <1>13

\* What ErrorAnswer(k) answers.
Failed(k) ==
  IF k.step # "user" THEN {<<k.sess, "open_failed">>}
  ELSE IF k.req.op = "send" THEN {<<k.req, "unknown_error">>}
  ELSE {}

LEMMA ErrorSays ==
  ASSUME NEW k \in Call
  PROVE  /\ ErrorAnswer(k) \in Seq(Handler) /\ Says(ErrorAnswer(k), Failed(k))
         /\ \A h \in Members(ErrorAnswer(k)) : h.kind = "respond" /\ Leaves(h)
         /\ Failed(k) \subseteq Request \X Code
<1>1. /\ k.sess \in Request /\ k.req \in Request
      /\ "open_failed" \in Code /\ "unknown_error" \in Code
  BY CallFields, SessionIsRequest DEF Code
<1>2. CASE k.step # "user"
  <2>1. ErrorAnswer(k) = Respond(k.sess, "open_failed") /\ Failed(k) = {<<k.sess, "open_failed">>}
    BY <1>2 DEF ErrorAnswer, Failed
  <2>2. Failed(k) \subseteq Request \X Code
    BY <1>1, <2>1
  <2>. QED  BY <1>1, <2>1, <2>2, SaysOne DEF Leaves
<1>3. CASE k.step = "user" /\ k.req.op = "send"
  <2>1. ErrorAnswer(k) = Respond(k.req, "unknown_error") /\ Failed(k) = {<<k.req, "unknown_error">>}
    BY <1>3 DEF ErrorAnswer, Failed
  <2>2. Failed(k) \subseteq Request \X Code
    BY <1>1, <2>1
  <2>. QED  BY <1>1, <2>1, <2>2, SaysOne DEF Leaves
<1>4. CASE k.step = "user" /\ k.req.op # "send"
  <2>1. ErrorAnswer(k) = <<>> /\ Failed(k) = {}
    BY <1>4 DEF ErrorAnswer, Failed
  <2>. QED  BY <2>1, None, SaysNothing
<1>. QED  BY <1>2, <1>3, <1>4

\* A login that ends.
LEMMA LoginEnds ==
  ASSUME IInv, PInv, NEW k \in Call, Pending(k), k.step # "user",
         stage'[k] = "done", \A l \in Call : l # k => stage'[l] = stage[l]
  PROVE  /\ k.sess \notin loggedIn
         /\ LoggingIn(k.sess) /\ ~LoggingIn(k.sess)'
<1>. DEFINE s == k.sess
            l1 == LoginCall(s, "login1")
            l2 == LoginCall(s, "login2")
<1>1. s \in Session /\ k.step \in {"login1", "login2"}
  BY CallFields DEF Call
<1>2. /\ l1 \in Call /\ l2 \in Call /\ l1 # l2 /\ k \in {l1, l2}
  BY <1>1, LoginCalls
<1>3. /\ stage[l2] # "none" => stage[l1] = "done"
      /\ s \in loggedIn => stage[l2] = "done"
  BY <1>1 DEF PInv, LoginSteps
<1>4. /\ s \notin loggedIn
      /\ stage'[l1] \in {"none", "done"} /\ stage'[l2] \in {"none", "done"}
  BY <1>2, <1>3 DEF Pending
<1>5. ~LoggingIn(s)'
  BY <1>4 DEF LoggingIn, Pending
<1>6. LoggingIn(s)
  BY <1>2 DEF LoggingIn
<1>. QED  BY <1>4, <1>5, <1>6

LEMMA FailCallPosts ==
  ASSUME IInv, PInv, ready # <<>>, NEW k \in Call, Pending(k),
         NEW sockets, NEW sends, NEW aborts, Closing(sockets, sends, aborts),
         FailCall(k, sockets, sends, aborts)
  PROVE  Posts((IF k.step = "user" THEN {} ELSE Noticed(k.sess.client)) \cup Failed(k))
<1>. DEFINE c == k.sess.client
            N == IF k.step = "user" THEN {} ELSE Noticed(c)
            before == IF k.step = "user" THEN <<>> ELSE CloseNotice(c)
            after == ErrorAnswer(k) \o aborts
<1>1. c \in Clients /\ k.sess \in Session /\ stage[k] # "done"
  BY CallFields, SessionIsRequest DEF Pending
<1>2. Finish(sockets, sends, before, after)
  BY DEF FailCall
<1>. HIDE DEF c
<1>3. /\ aborts \in Seq(Handler) /\ \A h \in Members(aborts) : h.kind = "sent" /\ Leaves(h)
  <2>1. CASE aborts = <<>>
    BY <2>1, None
  <2>2. CASE \E s \in Session : conn[s] = "open" /\ aborts = Abort(outbox[s])
    BY <2>2, AbortLeaves
  <2>. QED  BY <2>1, <2>2 DEF Closing
<1>4. /\ after \in Seq(Handler) /\ Says(after, Failed(k)) /\ \A h \in Members(after) : Leaves(h)
      /\ \A h \in Members(after) : h.kind = "respond" => h \in Members(ErrorAnswer(k))
  <2>. DEFINE error == ErrorAnswer(k)
  <2>1. /\ error \in Seq(Handler) /\ Says(error, Failed(k))
        /\ \A h \in Members(error) : h.kind = "respond" /\ Leaves(h)
    BY ErrorSays
  <2>. HIDE DEF error
  <2>2. Says(error \o aborts, Failed(k) \cup {})
    BY <1>3, <2>1, SaysNothing, SaysConcat
  <2>3. /\ error \o aborts \in Seq(Handler)
        /\ \A h \in Members(error \o aborts) : h \in Members(error) \/ h \in Members(aborts)
    BY <1>3, <2>1, MembersConcat
  <2>4. Failed(k) \cup {} = Failed(k)
    OBVIOUS
  <2>. QED  BY <1>3, <2>1, <2>2, <2>3, <2>4 DEF error
<1>5. /\ before \in Seq(Handler) /\ Says(before, N)
      /\ \A g \in Members(before) :
           /\ Leaves(g) /\ k.step # "user" /\ g.req = table[c] /\ HasReady(c)
  BY <1>1, NoticeSays, None, SaysNothing
<1>6. ASSUME NEW g \in Members(before), NEW h \in Members(after), h.kind = "respond"
      PROVE  g.req # h.req
  <2>1. k.step # "user" /\ g.req = table[c] /\ table[c] \in loggedIn
    BY <1>5 DEF HasReady, IsReady
  <2>2. k.sess \notin loggedIn
    <3>1. k.step \in {"login1", "login2"}
      BY <2>1 DEF Call
    <3>2. k = LoginCall(k.sess, k.step)
      BY <1>1, <3>1, LoginCalls
    <3>3. stage[LoginCall(k.sess, "login2")] # "none" =>
            stage[LoginCall(k.sess, "login1")] = "done"
      BY <1>1 DEF PInv, LoginSteps
    <3>4. k.sess \in loggedIn => stage[LoginCall(k.sess, "login2")] = "done"
      BY <1>1 DEF PInv, LoginSteps
    <3>. QED  BY <1>1, <3>1, <3>2, <3>3, <3>4
  <2>3. <<h.req, h.code>> \in Failed(k)
    BY <1>4, <1>6 DEF Says
  <2>4. h.req = k.sess
    BY <2>1, <2>3 DEF Failed
  <2>. QED  BY <2>1, <2>2, <2>4
<1>7. /\ sends \in [Session -> Seq(Call)]
      /\ \A s \in Session : /\ sockets[s] = "open" => conn[s] \in {"connecting", "open"}
                            /\ \A l \in Members(sends[s]) : l.sess = s
  <2>1. Ended(sockets, sends, aborts)
    BY ClosingFacts
  <2>2. sends \in [Session -> Seq(AllowedCall)]
    BY <2>1 DEF Ended
  <2>. QED  BY <2>1, <2>2, OutboxOwn, AllowedIsTyped DEF Ended
<1>. HIDE DEF N, before, after
<1>8. Posting(sockets, sends, before, after, N, Failed(k))
  BY <1>4, <1>5, <1>6, <1>7 DEF Posting
<1>9. Posts(N \cup Failed(k))
  BY <1>2, <1>8, FinishSays
<1>. QED  BY <1>9 DEF N, c

LEMMA FailCallAccount ==
  ASSUME IInv, PInv, AInv, ready # <<>>, NEW k \in Call, Pending(k),
         Head(ready).call = k,
         NEW sockets, NEW sends, NEW aborts, Closing(sockets, sends, aborts),
         FailCall(k, sockets, sends, aborts),
         \/ Sends(Head(ready)) /\ sockets[k.sess] # "open"
            /\ stage[k] \in {"posted", "sending"}
         \/ Running("sentence") /\ k.step # "user" /\ conn[k.sess] = "open"
            /\ stage[k] = "waiting"
  PROVE  \E A : Account(A)
<1>. DEFINE s == k.sess
            c == s.client
            N == IF k.step = "user" THEN {} ELSE Noticed(c)
            A == N \cup Failed(k)
<1>1. /\ s \in Session /\ c \in Clients /\ k.req \in Request /\ ~Running("respond")
      /\ conn[s] \in {"open", "closed"} /\ s # NoSession
      /\ k.step \in {"login1", "login2", "user"}
      /\ k.step = "user" => k.req \notin Session
  <2>1. s \in Session /\ k.req \in Request /\ k.step \in {"login1", "login2", "user"}
    BY CallFields DEF Call
  <2>2. conn[s] \in {"open", "closed"}
    BY Early DEF AInv, Pending
  <2>3. k.step = "user" => k.req \notin Session
    BY <2>1, RequestKinds
  <2>. QED  BY <2>1, <2>2, <2>3, SessionIsRequest, SessionsAssumption DEF Running, Sends
<1>2. /\ stage' = [stage EXCEPT ![k] = "done"]
      /\ table' = IF k.step = "user" THEN table ELSE Erase(c)
      /\ Finish(sockets, sends, IF k.step = "user" THEN <<>> ELSE CloseNotice(c),
                ErrorAnswer(k) \o aborts)
      /\ UNCHANGED <<held, live, issued, loggedIn, owed, replies>>
  BY DEF FailCall, KeepCallback
<1>3. stage'[k] = "done" /\ \A l \in Call : l # k => stage'[l] = stage[l]
  BY <1>2, InvFacts
<1>4. k.step # "user" => s \notin loggedIn /\ LoggingIn(s) /\ ~LoggingIn(s)'
  BY <1>3, LoginEnds
<1>5. /\ k.step # "user" => table'[c] = NoSession
      /\ \A d \in Clients : d # c \/ k.step = "user" => table'[d] = table[d]
  BY <1>1, <1>2, EraseKeeps
<1>6. /\ \A x \in Session : \/ sockets[x] = conn[x]
                            \/ sockets[x] = "closed" /\ conn[x] = "open"
  BY ClosingFacts DEF Ended
<1>. HIDE DEF s, c
<1>7. conn'[s] = "closed"
  <2>1. CASE sockets[s] # "open"
    BY <1>1, <1>2, <1>6, <2>1, FinishSockets
  <2>2. CASE sockets[s] = "open"
    <3>1. k.step # "user"
      BY <2>2 DEF s
    <3>2. \A m \in Command : held'[m] # s
      BY <1>1, <1>2, <1>4, <3>1 DEF AInv, HeldIsLoggedIn
    <3>3. table'[s.client] # s
      BY <1>1, <1>5, <3>1 DEF c
    <3>4. ~Referenced(s)'
      BY <1>4, <3>1, <3>2, <3>3 DEF Referenced, LoggingIn
    <3>. QED  BY <1>1, <1>2, <2>2, <3>4, FinishSockets
  <2>. QED  BY <2>1, <2>2
<1>8. Posts(A)
  BY FailCallPosts DEF c, s
<1>9. A \subseteq Request \X Code
  BY <1>1, NoticeSays, ErrorSays
<1>10. ASSUME NEW r \in Request, NEW x \in Code, <<r, x>> \in A  PROVE May(r, x)
  <2>1. CASE k.step # "user" /\ <<r, x>> \in Noticed(c)
    <3>1. table[c] \in Session /\ table[c].client = c /\ table[c] # s
      BY <1>1, <1>4, <2>1, EntryHasConnected DEF Noticed, HasReady, IsReady, Has
    <3>2. Disturbs(s, table[c])
      BY <1>1, <2>1, <3>1 DEF Disturbs, s, c
    <3>. QED  BY <1>1, <1>5, <2>1, <3>2, NoticeMay
  <2>2. CASE k.step # "user" /\ <<r, x>> \in Failed(k)
    <3>1. r = s /\ x = "open_failed"
      BY <2>2 DEF Failed, s
    <3>2. conn'[r] # "connecting" /\ LoggingIn(r) /\ ~LoggingIn(r)' /\ table'[r.client] # r
      BY <1>1, <1>4, <1>5, <1>7, <2>2, <3>1 DEF c
    <3>. QED  BY <1>1, <3>1, <3>2 DEF May
  <2>3. CASE k.step = "user"
    <3>1. r = k.req /\ x = "unknown_error"
      BY <1>10, <2>3 DEF Failed
    <3>. QED  BY <1>3, <2>3, <3>1 DEF May
  <2>. QED  BY <1>10, <2>1, <2>2, <2>3
<1>11. ASSUME NEW x \in Session  PROVE SocketStep(x) /\ LoginStep(x)
  BY <1>2, <1>6, FinishSockets DEF SocketStep, LoginStep
<1>12. ASSUME NEW l \in Call  PROVE StageStep(l, A) /\ HeadStep(l, A)
  <2>. HIDE DEF A
  <2>1. CASE l = k
    BY <1>1, <1>3, <1>7, <2>1 DEF StageStep, HeadStep, s
  <2>2. CASE l # k
    <3>1. Head(ready) # HasSent(l)
      BY <2>2 DEF HasSent
    <3>. QED  BY <1>3, <2>2, <3>1 DEF StageStep, HeadStep
  <2>. QED  BY <2>1, <2>2
<1>13. ASSUME NEW d \in Clients  PROVE TableStep(d)
  <2>1. CASE d = c /\ k.step # "user"
    BY <1>1, <1>5, <1>7, <2>1 DEF TableStep, c
  <2>2. CASE d # c \/ k.step = "user"
    BY <1>5, <2>2 DEF TableStep
  <2>. QED  BY <2>1, <2>2
<1>14. Account(A)
  <2>. HIDE DEF A
  <2>. QED  BY <1>1, <1>2, <1>8, <1>9, <1>10, <1>11, <1>12, <1>13 DEF Account
<1>. QED  BY <1>14

LEMMA FailureAccount ==
  ASSUME IInv, PInv, AInv, SendOnClosed \/ SendFailed \/ LoginRefused
  PROVE  \E A : Account(A)
<1>. DEFINE k == Head(ready).call
<1>1. ready # <<>> /\ k \in Call /\ k.sess \in Session
  BY RunningFields, CallFields DEF SendOnClosed, SendFailed, LoginRefused, AllowedCall
<1>2. CASE SendOnClosed \/ SendFailed
  <2>1. Sends(Head(ready)) /\ Head(ready) \in Members(ready)
    BY <1>1, <1>2, Taken DEF SendOnClosed, SendFailed, Running, Sends
  <2>2. stage[k] \in {"posted", "sending"} /\ Pending(k)
    BY <2>1 DEF PInv, Staged, Pending, Sends
  <2>3. CASE SendOnClosed
    <3>1. /\ FailCall(k, conn, outbox, <<>>) /\ Closing(conn, outbox, <<>>)
          /\ conn[k.sess] # "open"
      BY <2>3 DEF SendOnClosed, Closing
    <3>. QED  BY <1>1, <2>1, <2>2, <3>1, FailCallAccount
  <2>4. CASE SendFailed
    <3>. DEFINE s == k.sess
                sockets == [conn EXCEPT ![s] = "closed"]
                sends == [outbox EXCEPT ![s] = <<>>]
    <3>1. FailCall(k, sockets, sends, Abort(outbox[s])) /\ conn[s] = "open"
      BY <2>4 DEF SendFailed
    <3>2. Closing(sockets, sends, Abort(outbox[s])) /\ sockets[s] # "open"
      BY <1>1, <3>1, InvFacts DEF Closing
    <3>3. sockets[k.sess] # "open"
      BY <3>2
    <3>. HIDE DEF s, sockets, sends
    <3>. QED  BY <1>1, <2>1, <2>2, <3>1, <3>2, <3>3, FailCallAccount
  <2>. QED  BY <1>2, <2>3, <2>4
<1>3. CASE LoginRefused
  <2>1. /\ FailCall(k, conn, outbox, <<>>) /\ Closing(conn, outbox, <<>>)
        /\ stage[k] = "waiting" /\ conn[k.sess] = "open" /\ k.step # "user"
        /\ Running("sentence") /\ Pending(k)
        /\ Head(ready).reply \in {"trap", "done"}
    BY <1>3 DEF LoginRefused, Closing, Answers, Pending
  <2>. QED  BY <1>1, <2>1, FailCallAccount
<1>. QED  BY <1>2, <1>3

LEMMA ConnectedAccount ==
  ASSUME IInv, PInv, Connected
  PROVE  \E A : Account(A)
<1>1. PICK s \in Session : s = Head(ready).sess
  BY RunningFields DEF Connected
<1>. DEFINE ok == Head(ready).ok
            c == s.client
            l1 == LoginCall(s, "login1")
            h == [kind |-> "post", call |-> l1]
            sockets == [conn EXCEPT ![s] = IF ok THEN "open" ELSE "closed"]
            before == IF ok THEN <<>> ELSE CloseNotice(c)
            after == IF ~Has(c) THEN <<>>
                     ELSE IF ok THEN <<h>> ELSE Respond(s, "open_failed")
            N == IF ok THEN {} ELSE Noticed(c)
            E == IF ~ok /\ Has(c) THEN {<<s, "open_failed">>} ELSE {}
            A == N \cup E
<1>2. /\ Running("connected") /\ ready # <<>> /\ Head(ready).sess = s
      /\ ok \in BOOLEAN /\ c \in Clients /\ s \in Request
      /\ conn[s] = "connecting"
      /\ ~Running("sent") /\ ~Running("sentence") /\ ~Running("respond")
  <2>1. /\ Running("connected") /\ ready # <<>> /\ ok \in BOOLEAN
        /\ Head(ready) \in Members(ready)
    BY RunningFields, Taken DEF Connected
  <2>. QED  BY <1>1, <2>1, SessionIsRequest DEF Running, PInv, Staged
<1>3. /\ table' = (IF ok THEN table ELSE Erase(c))
      /\ stage' = (IF ok /\ Has(c) THEN [stage EXCEPT ![l1] = "posted"] ELSE stage)
      /\ Finish(sockets, outbox, before, after)
      /\ UNCHANGED <<held, live, issued, loggedIn, owed, replies>>
  BY <1>1 DEF Connected
<1>4. /\ l1 \in Call /\ l1.sess = s /\ l1.step = "login1"
      /\ stage[l1] = "none" /\ stage[LoginCall(s, "login2")] = "none"
      /\ ~LoggingIn(s) /\ s \notin loggedIn
  <2>1. l1 \in Call /\ l1.sess = s /\ l1.step = "login1"
    BY LoginCalls
  <2>2. stage[l1] = "none" /\ stage[LoginCall(s, "login2")] = "none" /\ s \notin loggedIn
    BY <1>2 DEF PInv, LoginSteps
  <2>. QED  BY <2>1, <2>2 DEF LoggingIn, Pending
<1>5. /\ stage' \in [Call -> Stage]
      /\ \A l \in Call : \/ stage'[l] = stage[l]
                         \/ ok /\ Has(c) /\ l = l1 /\ stage'[l] = "posted"
      /\ ok /\ Has(c) => stage'[l1] = "posted"
  <2>1. "posted" \in Stage
    BY DEF Stage
  <2>. HIDE DEF ok, c, l1
  <2>. QED  BY <1>3, <1>4, <2>1, InvFacts
<1>6. /\ ~ok => table'[c] = NoSession
      /\ \A d \in Clients : ok \/ d # c => table'[d] = table[d]
  <2>. HIDE DEF ok, c
  <2>. QED  BY <1>2, <1>3, EraseKeeps
<1>7. /\ sockets[s] = IF ok THEN "open" ELSE "closed"
      /\ \A x \in Session : x # s => sockets[x] = conn[x]
  BY <1>2, InvFacts
<1>. HIDE DEF ok, c, sockets
<1>8. ok /\ Has(c) => conn'[s] = "open"
  <2>1. SUFFICES ASSUME ok, Has(c)  PROVE conn'[s] = "open"
    OBVIOUS
  <2>2. stage'[LoginCall(s, "login1")] = "posted"
    BY <1>5, <2>1
  <2>3. Referenced(s)'
    BY <2>2 DEF Referenced, Pending
  <2>. QED  BY <1>3, <1>7, <2>1, <2>3, FinishSockets
<1>9. /\ before \in Seq(Handler) /\ Says(before, N) /\ N \subseteq Request \X Code
      /\ \A g \in Members(before) : Leaves(g) /\ ~ok /\ g.req = table[c] /\ HasReady(c)
  BY <1>2, NoticeSays, None, SaysNothing
<1>10. /\ after \in Seq(Handler) /\ Says(after, E) /\ E \subseteq Request \X Code
       /\ \A g \in Members(after) : Leaves(g)
  <2>1. CASE ~Has(c)
    BY <2>1, None, SaysNothing
  <2>2. CASE Has(c) /\ ok
    <3>1. h \in Handler /\ h.kind = "post" /\ h.call = l1
      BY <1>4 DEF Handler
    <3>2. after = <<h>> /\ E = {}
      BY <2>2
    <3>. HIDE DEF h, after, E, l1
    <3>3. /\ <<h>> \in Seq(Handler) /\ Members(<<h>>) = {h}
          /\ \A g \in Members(<<h>>) : g.kind # "respond"
      BY <3>1, One
    <3>4. after \in Seq(Handler) /\ Says(after, E)
      BY <3>2, <3>3, SaysNothing
    <3>. QED  BY <1>4, <1>8, <2>2, <3>1, <3>2, <3>3, <3>4 DEF Leaves
  <2>3. CASE Has(c) /\ ~ok
    <3>1. after = Respond(s, "open_failed") /\ E = {<<s, "open_failed">>}
      BY <2>3
    <3>2. "open_failed" \in Code
      BY DEF Code
    <3>3. E \subseteq Request \X Code
      BY <1>2, <3>1, <3>2
    <3>. HIDE DEF after, E
    <3>. QED  BY <1>2, <3>1, <3>2, <3>3, SaysOne DEF Leaves
  <2>. QED  BY <2>1, <2>2, <2>3
<1>11. ASSUME NEW f \in Members(before), NEW g \in Members(after), g.kind = "respond"
       PROVE  f.req # g.req
  <2>1. f.req = table[c] /\ table[c] \in loggedIn
    BY <1>9 DEF HasReady, IsReady
  <2>2. <<g.req, g.code>> \in E
    BY <1>10, <1>11 DEF Says
  <2>3. g.req = s
    BY <2>2
  <2>. QED  BY <1>4, <2>1, <2>3
<1>. HIDE DEF before, after, l1
<1>12. Posts(A)
  <2>1. /\ outbox \in [Session -> Seq(Call)]
        /\ \A x \in Session : /\ sockets[x] = "open" => conn[x] \in {"connecting", "open"}
                              /\ \A l \in Members(outbox[x]) : l.sess = x
    BY <1>2, <1>7, Known, OutboxOwn
  <2>. HIDE DEF N, E
  <2>2. Posting(sockets, outbox, before, after, N, E)
    BY <1>9, <1>10, <1>11, <2>1 DEF Posting
  <2>. QED  BY <1>2, <1>3, <2>2, FinishSays
<1>13. ASSUME NEW r \in Request, NEW x \in Code, <<r, x>> \in A  PROVE May(r, x)
  <2>1. CASE ~ok /\ <<r, x>> \in Noticed(c)
    <3>1. table[c] \in Session /\ table[c].client = c /\ table[c] # s
      BY <1>2, <1>4, <2>1, EntryHasConnected DEF Noticed, HasReady, IsReady, Has
    <3>2. Disturbs(s, table[c])
      BY <1>2, <3>1 DEF Disturbs, c
    <3>. QED  BY <1>2, <1>6, <2>1, <3>2, NoticeMay
  <2>2. CASE ~ok /\ r = s /\ x = "open_failed"
    <3>1. conn'[r] = "closed"
      BY <1>3, <1>7, <2>2, FinishSockets
    <3>2. ~LoggingIn(r)'
      <4>1. /\ stage'[LoginCall(r, "login1")] = stage[LoginCall(s, "login1")]
            /\ stage'[LoginCall(r, "login2")] = stage[LoginCall(s, "login2")]
        BY <1>3, <2>2
      <4>. QED  BY <1>4, <2>2, <4>1 DEF LoggingIn, Pending, l1
    <3>3. table'[r.client] # r
      BY <1>2, <1>6, <2>2, SessionsAssumption DEF c
    <3>. QED  BY <1>2, <2>2, <3>1, <3>2, <3>3 DEF May
  <2>. QED  BY <1>13, <2>1, <2>2
<1>14. ASSUME NEW x \in Session  PROVE SocketStep(x) /\ LoginStep(x)
  <2>1. CASE x = s
    BY <1>2, <1>3, <1>7, <2>1, FinishSockets DEF SocketStep, LoginStep
  <2>2. CASE x # s
    BY <1>3, <1>7, <2>2, FinishSockets DEF SocketStep, LoginStep
  <2>. QED  BY <2>1, <2>2
<1>15. ASSUME NEW l \in Call  PROVE StageStep(l, A) /\ HeadStep(l, A)
  <2>1. Head(ready) # HasSent(l)
    BY <1>2 DEF HasSent, Running
  <2>. HIDE DEF A
  <2>. QED  BY <1>2, <1>4, <1>5, <2>1 DEF StageStep, HeadStep
<1>16. ASSUME NEW d \in Clients  PROVE TableStep(d)
  <2>1. CASE d = c /\ ~ok
    <3>1. conn'[s] = "closed"
      BY <1>3, <1>7, <2>1, FinishSockets
    <3>. QED  BY <1>2, <1>6, <2>1, <3>1 DEF TableStep, c
  <2>2. CASE d # c \/ ok
    BY <1>6, <2>2 DEF TableStep
  <2>. QED  BY <2>1, <2>2
<1>17. A \subseteq Request \X Code
  BY <1>9, <1>10
<1>18. Account(A)
  <2>. HIDE DEF A
  <2>. QED  BY <1>2, <1>3, <1>12, <1>13, <1>14, <1>15, <1>16, <1>17 DEF Account
<1>. QED  BY <1>18

LEMMA HandlerAccount ==
  ASSUME IInv, PInv, AInv, RunHandler, ~SendAnswer, ~LoadTrap
  PROVE  \E A : Account(A)
<1>1. CreateSession => \E A : Account(A)
  BY AnswerAccount, CreateAccount
<1>. QED
  BY <1>1, AnswerAccount, IgnoreAccount, RunCommandAccount, LoseClientAccount,
     ConnectedAccount, SendingAccount, FailureAccount, BrokenAccount, ChallengeAccount,
     LoginAcceptedAccount, PassOnAccount DEF RunHandler

-----------------------------------------------------------------------------
(* The other steps. *)

\* An answer that is handed to the client was posted before.
LEMMA SendAnswerCodes ==
  ASSUME IInv, IInv', SendAnswer, NEW r \in Request
  PROVE  /\ \A x : x \in Codes(r)' <=> x \in Codes(r)
         /\ \A x, y : InTurn(r, x, y)' => InTurn(r, x, y)
         /\ r # Head(ready).req => Sent(r)' = Sent(r)
<1>. DEFINE Mine(h) == h.kind = "respond" /\ h.req = r
            new == ready'
            old == replies[r]
            code == Head(ready).code
<1>1. /\ Running("respond") /\ ready # <<>> /\ Head(ready).req \in Request
      /\ code \in Code
      /\ new = Tail(ready)
      /\ replies' = [replies EXCEPT ![Head(ready).req] = Append(@, code)]
  <2>1. /\ Running("respond") /\ ready # <<>> /\ Head(ready).req \in Request
        /\ code \in Code
        /\ ready' = Tail(ready) \o <<>>
        /\ replies' = [replies EXCEPT ![Head(ready).req] = Append(@, code)]
    BY RunningFields DEF SendAnswer, FinishWith
  <2>2. Tail(ready) \o <<>> = Tail(ready)
    BY <2>1, Known, MembersTail, None
  <2>. QED  BY <2>1, <2>2
<1>2. /\ ready \in Seq(Handler) /\ new \in Seq(Handler)
      /\ replies[r] \in Seq(Code) /\ replies \in [Request -> Seq(Code)]
  BY Known DEF IInv, StateOK
<1>3. /\ 1 \in 1..Len(ready) /\ Head(ready) = ready[1]
      /\ \A i \in 1..Len(new) : i + 1 \in 1..Len(ready) /\ new[i] = ready[i + 1]
      /\ \A i \in 1..Len(ready) : i = 1 \/ (i - 1 \in 1..Len(new) /\ new[i - 1] = ready[i])
  BY <1>1, <1>2, TailFacts
<1>4. (Mine(ready[1]) <=> r = Head(ready).req) /\ ready[1].code = code
  BY <1>1, <1>3 DEF Running
<1>5. replies'[r] = IF r = Head(ready).req THEN Append(old, code) ELSE old
  BY <1>1, <1>2
<1>6. /\ DOMAIN old = 1..Len(old) /\ Len(old) \in Nat
      /\ DOMAIN Append(old, code) = 1..(Len(old) + 1)
      /\ \A i \in 1..Len(old) : Append(old, code)[i] = old[i]
      /\ Append(old, code)[Len(old) + 1] = code
  BY <1>1, <1>2
<1>. HIDE DEF new, old, code
<1>7. \A x : x \in Sent(r) <=> \E i \in 1..Len(old) : x = old[i]
  BY <1>6 DEF Sent, old
<1>8. /\ \A x : x \in Sent(r)' <=> x \in Sent(r) \/ (r = Head(ready).req /\ x = code)
      /\ \A x, y : (\E i, j \in DOMAIN replies'[r] :
                      i < j /\ x = replies'[r][i] /\ y = replies'[r][j]) =>
           \/ \E i, j \in DOMAIN replies[r] :
                i < j /\ x = replies[r][i] /\ y = replies[r][j]
           \/ x \in Sent(r) /\ r = Head(ready).req /\ y = code
  <2>1. CASE r # Head(ready).req
    <3>1. replies'[r] = replies[r]
      BY <1>5, <2>1 DEF old
    <3>2. Sent(r)' = Sent(r)
      BY <3>1 DEF Sent
    <3>. QED  BY <2>1, <3>1, <3>2
  <2>2. CASE r = Head(ready).req
    <3>1. replies'[r] = Append(old, code)
      BY <1>5, <2>2
    <3>2. \A x : x \in Sent(r)' <=> \E i \in 1..(Len(old) + 1) : x = Append(old, code)[i]
      BY <1>6, <3>1 DEF Sent
    <3>3. \A i \in 1..(Len(old) + 1) : i \in 1..Len(old) \/ i = Len(old) + 1
      BY <1>6
    <3>4. \A x : x \in Sent(r)' <=> x \in Sent(r) \/ x = code
      BY <1>6, <1>7, <3>2, <3>3
    <3>5. DOMAIN replies'[r] = 1..(Len(old) + 1) /\ DOMAIN replies[r] = 1..Len(old)
      BY <1>6, <3>1 DEF old
    <3>6. ASSUME NEW x, NEW y,
                 \E i, j \in DOMAIN replies'[r] :
                   i < j /\ x = replies'[r][i] /\ y = replies'[r][j]
          PROVE  \/ \E i, j \in DOMAIN replies[r] :
                      i < j /\ x = replies[r][i] /\ y = replies[r][j]
                 \/ x \in Sent(r) /\ r = Head(ready).req /\ y = code
      <4>1. PICK i \in 1..(Len(old) + 1), j \in 1..(Len(old) + 1) :
              i < j /\ x = Append(old, code)[i] /\ y = Append(old, code)[j]
        BY <3>1, <3>5, <3>6
      <4>2. \/ \E m, n \in 1..Len(old) : m < n /\ x = old[m] /\ y = old[n]
            \/ x \in Sent(r) /\ y = code
        <5>1. i \in 1..Len(old) /\ x = old[i]
          BY <1>6, <4>1
        <5>2. CASE j \in 1..Len(old)
          BY <1>6, <4>1, <5>1, <5>2
        <5>3. CASE j = Len(old) + 1
          BY <1>6, <1>7, <4>1, <5>1, <5>3
        <5>. QED  BY <3>3, <5>2, <5>3
      <4>3. old = replies[r]
        BY DEF old
      <4>. QED  BY <2>2, <3>5, <4>2, <4>3
    <3>. QED  BY <2>2, <3>4, <3>6
  <2>. QED  BY <2>1, <2>2
<1>9. /\ \A x : x \in Codes(r) <=>
           x \in Sent(r) \/ \E i \in 1..Len(ready) : Mine(ready[i]) /\ x = ready[i].code
      /\ \A x, y : InTurn(r, x, y) <=>
           \/ \E i, j \in DOMAIN replies[r] :
                i < j /\ x = replies[r][i] /\ y = replies[r][j]
           \/ x \in Sent(r) /\ \E j \in 1..Len(ready) : Mine(ready[j]) /\ y = ready[j].code
           \/ \E i, j \in 1..Len(ready) :
                /\ i < j
                /\ Mine(ready[i]) /\ x = ready[i].code
                /\ Mine(ready[j]) /\ y = ready[j].code
  <2>1. DOMAIN ready = 1..Len(ready)
    BY <1>2
  <2>2. \A i : i \in Posted(r) <=> i \in 1..Len(ready) /\ Mine(ready[i])
    BY <2>1 DEF Posted
  <2>. HIDE DEF Mine
  <2>. QED  BY <2>2 DEF Codes, InTurn
<1>10. /\ \A x : x \in Codes(r)' <=>
            x \in Sent(r)' \/ \E i \in 1..Len(new) : Mine(new[i]) /\ x = new[i].code
       /\ \A x, y : InTurn(r, x, y)' <=>
            \/ \E i, j \in DOMAIN replies'[r] :
                 i < j /\ x = replies'[r][i] /\ y = replies'[r][j]
            \/ x \in Sent(r)' /\ \E j \in 1..Len(new) : Mine(new[j]) /\ y = new[j].code
            \/ \E i, j \in 1..Len(new) :
                 /\ i < j
                 /\ Mine(new[i]) /\ x = new[i].code
                 /\ Mine(new[j]) /\ y = new[j].code
  <2>1. DOMAIN ready' = 1..Len(ready')
    BY <1>2 DEF new
  <2>2. \A i : i \in Posted(r)' <=> i \in 1..Len(ready') /\ Mine(ready'[i])
    BY <2>1 DEF Posted
  <2>. HIDE DEF Mine
  <2>. QED  BY <2>2 DEF Codes, InTurn, new
<1>. HIDE DEF Mine
<1>11. ASSUME NEW x  PROVE x \in Codes(r)' <=> x \in Codes(r)
  <2>1. (x \in Sent(r)' <=> x \in Sent(r) \/ (Mine(ready[1]) /\ x = ready[1].code))
    BY <1>4, <1>8
  <2>2. (\E i \in 1..Len(ready) : Mine(ready[i]) /\ x = ready[i].code) <=>
          \/ Mine(ready[1]) /\ x = ready[1].code
          \/ \E i \in 1..Len(new) : Mine(new[i]) /\ x = new[i].code
    <3>1. ASSUME NEW i \in 1..Len(ready), Mine(ready[i]), x = ready[i].code
          PROVE  \/ Mine(ready[1]) /\ x = ready[1].code
                 \/ \E j \in 1..Len(new) : Mine(new[j]) /\ x = new[j].code
      BY <1>3, <3>1
    <3>2. ASSUME NEW i \in 1..Len(new), Mine(new[i]), x = new[i].code
          PROVE  \E j \in 1..Len(ready) : Mine(ready[j]) /\ x = ready[j].code
      BY <1>3, <3>2
    <3>. QED  BY <1>3, <3>1, <3>2
  <2>. QED  BY <1>9, <1>10, <2>1, <2>2
<1>12. ASSUME NEW x, NEW y, InTurn(r, x, y)'  PROVE InTurn(r, x, y)
  <2>1. CASE \E i, j \in DOMAIN replies'[r] :
               i < j /\ x = replies'[r][i] /\ y = replies'[r][j]
    <3>1. CASE \E i, j \in DOMAIN replies[r] :
                 i < j /\ x = replies[r][i] /\ y = replies[r][j]
      BY <1>9, <3>1
    <3>2. CASE x \in Sent(r) /\ r = Head(ready).req /\ y = code
      BY <1>3, <1>4, <1>9, <3>2
    <3>. QED  BY <1>8, <2>1, <3>1, <3>2
  <2>2. CASE x \in Sent(r)' /\ \E j \in 1..Len(new) : Mine(new[j]) /\ y = new[j].code
    <3>1. PICK j \in 1..Len(new) : Mine(new[j]) /\ y = new[j].code
      BY <2>2
    <3>2. j + 1 \in 1..Len(ready) /\ Mine(ready[j + 1]) /\ y = ready[j + 1].code /\ 1 < j + 1
      BY <1>3, <3>1
    <3>3. x \in Sent(r) \/ (Mine(ready[1]) /\ x = ready[1].code)
      BY <1>4, <1>8, <2>2
    <3>. QED  BY <1>3, <1>9, <3>2, <3>3
  <2>3. ASSUME NEW i \in 1..Len(new), NEW j \in 1..Len(new), i < j,
               Mine(new[i]), x = new[i].code, Mine(new[j]), y = new[j].code
        PROVE  InTurn(r, x, y)
    <3>1. /\ i + 1 \in 1..Len(ready) /\ new[i] = ready[i + 1]
          /\ j + 1 \in 1..Len(ready) /\ new[j] = ready[j + 1] /\ i + 1 < j + 1
      BY <1>3, <2>3
    <3>. QED  BY <1>9, <2>3, <3>1
  <2>. QED  BY <1>10, <1>12, <2>1, <2>2, <2>3
<1>13. r # Head(ready).req => Sent(r)' = Sent(r)
  BY <1>5 DEF Sent, old
<1>. QED  BY <1>11, <1>12, <1>13

\* A completion is at the end of the queue and is not an answer.
LEMMA CompleteCodes ==
  ASSUME IInv, NEW h \in Handler, Complete(h)
  PROVE  /\ Len(ready) \in Nat
         /\ Len(ready) + 1 \in 1..Len(ready') /\ ready'[Len(ready) + 1] = h
         /\ \A i \in 1..Len(ready) : i \in 1..Len(ready') /\ ready'[i] = ready[i]
         /\ \A i \in 1..Len(ready') :
              \/ i \in 1..Len(ready) /\ ready'[i] = ready[i]
              \/ i = Len(ready) + 1 /\ ready'[i] = h
         /\ h.kind # "respond" /\ replies' = replies =>
              \A r : Codes(r)' = Codes(r) /\ Sent(r)' = Sent(r)
                     /\ \A x, y : InTurn(r, x, y)' => InTurn(r, x, y)
<1>. DEFINE new == ready'
<1>1. ready \in Seq(Handler) /\ new = Append(ready, h)
  BY Known DEF Complete
<1>2. /\ Len(ready) \in Nat /\ DOMAIN ready = 1..Len(ready)
      /\ DOMAIN new = 1..Len(new)
      /\ Len(ready) + 1 \in 1..Len(new) /\ new[Len(ready) + 1] = h
      /\ \A i \in 1..Len(ready) : i \in 1..Len(new) /\ new[i] = ready[i]
      /\ \A i \in 1..Len(new) :
           \/ i \in 1..Len(ready) /\ new[i] = ready[i]
           \/ i = Len(ready) + 1 /\ new[i] = h
  BY <1>1
<1>3. ASSUME h.kind # "respond", replies' = replies, NEW r
      PROVE  Codes(r)' = Codes(r) /\ Sent(r)' = Sent(r)
             /\ \A x, y : InTurn(r, x, y)' => InTurn(r, x, y)
  <2>1. Posted(r)' = Posted(r) /\ \A i \in Posted(r) : ready'[i] = ready[i]
    BY <1>2, <1>3 DEF Posted, new
  <2>2. Sent(r)' = Sent(r)
    BY <1>3 DEF Sent
  <2>3. Codes(r)' = Codes(r)
    BY <2>1, <2>2 DEF Codes
  <2>4. \A x, y : InTurn(r, x, y)' => InTurn(r, x, y)
    BY <1>3, <2>1, <2>2 DEF InTurn
  <2>. QED  BY <2>2, <2>3, <2>4
<1>. QED  BY <1>2, <1>3 DEF new

\* A step that posts no answer and leaves the sessions and callbacks as they are.
LEMMA SteadyAnswers ==
  ASSUME IInv, IInv', AInv, UNCHANGED <<table, conn, loggedIn, stage, held>>,
         \A c \in Clients : issued[c] <= issued'[c],
         \A r \in Request : \A x : x \in Codes(r)' => x \in Codes(r),
         \A r \in Request : \A x, y : InTurn(r, x, y)' => InTurn(r, x, y),
         \A h \in Members(ready') : h.kind = "request" => h.req \in Request /\ Codes(h.req) = {}
  PROVE  AInv'
<1>1. UnservedAnswers'
  <2>1. ASSUME NEW r \in Request, r.n > issued'[r.client]  PROVE Codes(r)' = {}
    <3>1. /\ r.client \in Clients /\ r.n \in Nat
          /\ issued[r.client] \in Int /\ issued'[r.client] \in Int
      BY SessionsAssumption DEF Request, IInv, StateOK
    <3>2. r.n > issued[r.client]
      BY <2>1, <3>1
    <3>. QED  BY <3>2 DEF AInv, UnservedAnswers
  <2>2. ASSUME NEW h \in Members(ready'), h.kind = "request"  PROVE Codes(h.req)' = {}
    <3>1. PICK r \in Request : r = h.req
      BY <2>2
    <3>2. Codes(r)' = {}
      BY <2>2, <3>1
    <3>. QED  BY <3>1, <3>2
  <2>. QED  BY <2>1, <2>2 DEF UnservedAnswers
<1>2. OpenAnswers' /\ OpenAnsweredOnce'
  <2>1. ASSUME NEW s \in Session
        PROVE  /\ s \in Request
               /\ LoggingIn(s)' => LoggingIn(s)
               /\ conn[s] = "connecting" \/ LoggingIn(s) => Codes(s) = {}
               /\ table[s.client] = s =>
                    Codes(s) \subseteq (IF s \in loggedIn THEN {"success"} ELSE {})
               /\ \A x, y \in Codes(s) :
                    InTurn(s, x, y) => x = "success" /\ y = "session_closed"
    BY SessionIsRequest DEF AInv, OpenAnswers, OpenAnsweredOnce, LoggingIn, Pending
  <2>2. OpenAnswers'
    BY <2>1 DEF OpenAnswers
  <2>3. OpenAnsweredOnce'
    BY <2>1 DEF OpenAnsweredOnce
  <2>. QED  BY <2>2, <2>3
<1>3. UserCalls' /\ HeldIsLoggedIn'
  BY DEF AInv, UserCalls, HeldIsLoggedIn
<1>4. SendAnswers' /\ SendAnswersEnd'
  <2>1. ASSUME NEW k \in Call, k.step = "user", k.req.op = "send"
        PROVE  /\ stage'[k] \in {"posted", "sending"} => Codes(k.req)' = {}
               /\ stage'[k] = "waiting" => Codes(k.req)' \subseteq {"row", "trap", "ret"}
    <3>1. k.req \in Request
      BY CallFields
    <3>2. /\ stage[k] \in {"posted", "sending"} => Codes(k.req) = {}
          /\ stage[k] = "waiting" => Codes(k.req) \subseteq {"row", "trap", "ret"}
      BY <2>1 DEF AInv, SendAnswers
    <3>3. \A x : x \in Codes(k.req)' => x \in Codes(k.req)
      BY <3>1
    <3>. QED  BY <3>2, <3>3
  <2>2. SendAnswersEnd'
    <3>1. ASSUME NEW r \in Request, r.op = "send",
                 NEW x \in Codes(r)', NEW y \in Codes(r)', InTurn(r, x, y)'
          PROVE  /\ x \notin {"done", "blank", "unknown_error", "not_open"}
                 /\ y \notin {"unknown_error", "not_open"}
      BY <3>1 DEF AInv, SendAnswersEnd
    <3>. QED  BY <3>1 DEF SendAnswersEnd
  <2>. QED  BY <2>1, <2>2 DEF SendAnswers
<1>. QED  BY <1>1, <1>2, <1>3, <1>4 DEF AInv

LEMMA SendAnswerKeeps ==
  ASSUME IInv, PInv, HInv, IInv', SendAnswer
  PROVE  HInv'
<1>. DEFINE new == ready'
<1>1. /\ ready # <<>> /\ Head(ready).kind = "respond" /\ Head(ready).req.client \in live
      /\ new = Tail(ready)
      /\ UNCHANGED <<live, issued, owed, table, conn, loggedIn, stage, held>>
  <2>1. /\ ready # <<>> /\ Head(ready).kind = "respond" /\ Head(ready).req.client \in live
        /\ ready' = Tail(ready) \o <<>>
        /\ UNCHANGED <<live, issued, owed, table, conn, loggedIn, stage, held>>
    BY DEF SendAnswer, FinishWith, Running
  <2>2. Tail(ready) \o <<>> = Tail(ready)
    BY <2>1, Known, MembersTail, None
  <2>. QED  BY <2>1, <2>2
<1>2. /\ 1 \in 1..Len(ready) /\ Head(ready) = ready[1]
      /\ \A i \in 1..Len(new) : i + 1 \in 1..Len(ready) /\ new[i] = ready[i + 1]
      /\ \A i \in 1..Len(ready) : i = 1 \/ (i - 1 \in 1..Len(new) /\ new[i - 1] = ready[i])
  BY <1>1, Known, TailFacts
<1>. HIDE DEF new
<1>3. /\ \A h \in Members(new) : h \in Members(ready)
      /\ \A h \in Members(ready) : h = ready[1] \/ h \in Members(new)
  BY <1>1, <1>2, Known, MembersTail
<1>4. \A r \in Request :
        /\ \A x : x \in Codes(r)' <=> x \in Codes(r)
        /\ \A x, y : InTurn(r, x, y)' => InTurn(r, x, y)
        /\ r # Head(ready).req => Sent(r)' = Sent(r)
  BY SendAnswerCodes
<1>5. AInv'
  <2>1. \A c \in Clients : issued[c] <= issued'[c]
    BY <1>1, SessionsAssumption DEF IInv, StateOK
  <2>2. \A h \in Members(ready') : h.kind = "request" => h.req \in Request /\ Codes(h.req) = {}
    BY <1>3, Known DEF new, HInv, AInv, UnservedAnswers
  <2>. QED  BY <1>1, <1>4, <2>1, <2>2, SteadyAnswers DEF HInv
<1>6. ASSUME NEW k \in Call
      PROVE  /\ k.req \in Request
             /\ SentenceFor(k)' <=> SentenceFor(k)
             /\ HasSent(k)' = HasSent(k)
             /\ HasSent(k) \in Members(new) <=> HasSent(k) \in Members(ready)
  <2>1. SentenceFor(k)' <=> SentenceFor(k)
    BY <1>1, <1>2, <1>3 DEF SentenceFor, new
  <2>2. HasSent(k).kind = "sent"
    BY DEF HasSent
  <2>. QED  BY <1>1, <1>2, <1>3, <2>1, <2>2, CallFields DEF HasSent
<1>7. SentFirst'
  <2>1. ASSUME NEW k \in Call, conn[k.sess] # "closed", NEW i \in 1..Len(new),
               new[i].kind = "sentence", new[i].call = k
        PROVE  \/ stage[k] \in {"waiting", "done"}
               \/ \E j \in 1..Len(new) : j < i /\ new[j] = HasSent(k)
    <3>1. i + 1 \in 1..Len(ready) /\ ready[i + 1] = new[i]
      BY <1>2
    <3>2. \/ stage[k] \in {"waiting", "done"}
          \/ \E j \in 1..Len(ready) : j < i + 1 /\ ready[j] = HasSent(k)
      BY <2>1, <3>1 DEF HInv, BInv, SentFirst
    <3>3. ASSUME NEW j \in 1..Len(ready), j < i + 1, ready[j] = HasSent(k)
          PROVE  j - 1 \in 1..Len(new) /\ j - 1 < i /\ new[j - 1] = HasSent(k)
      <4>1. j # 1
        BY <1>1, <1>2, <3>3 DEF HasSent
      <4>. QED  BY <1>2, <3>3, <4>1
    <3>. QED  BY <3>2, <3>3
  <2>2. ASSUME NEW k \in Call, conn[k.sess] # "closed", owed[k] > 0
        PROVE  stage[k] \in {"waiting", "done"} \/ HasSent(k) \in Members(new)
    BY <1>6, <2>2 DEF HInv, BInv, SentFirst
  <2>. QED  BY <1>1, <1>6, <2>1, <2>2 DEF SentFirst, new, HasSent
<1>8. OneReading' /\ LastSentence'
  <2>1. \A i, j \in 1..Len(new) :
          /\ new[i].kind = "sentence" /\ new[j].kind = "sentence"
          /\ new[i].call.sess = new[j].call.sess
          => i = j
    <3>1. ASSUME NEW i \in 1..Len(new), NEW j \in 1..Len(new),
                 new[i].kind = "sentence", new[j].kind = "sentence",
                 new[i].call.sess = new[j].call.sess
          PROVE  i = j
      <4>1. /\ i + 1 \in 1..Len(ready) /\ new[i] = ready[i + 1]
            /\ j + 1 \in 1..Len(ready) /\ new[j] = ready[j + 1]
        BY <1>2
      <4>2. PICK k, l \in 1..Len(ready) :
              k = i + 1 /\ l = j + 1 /\ ready[k] = new[i] /\ ready[l] = new[j]
        BY <4>1
      <4>3. k = l
        BY <3>1, <4>2 DEF HInv, BInv, OneReading
      <4>. QED  BY <4>2, <4>3
    <3>. QED  BY <3>1
  <2>. QED  BY <1>1, <1>3, <2>1 DEF HInv, BInv, OneReading, LastSentence, new
<1>9. EndedEarly' /\ Awaited'
  <2>1. ASSUME NEW k \in Call
        PROVE  /\ conn[k.sess] # "closed" /\ stage[k] = "done" /\ (owed[k] > 0 \/ SentenceFor(k)) =>
                    k.step = "user" /\ (k.req.client \in live => EndCode(k) \in Codes(k.req)')
               /\ /\ conn[k.sess] # "closed" /\ k.sess.client \in live
                  /\ stage[k] = "waiting" \/ HasSent(k) \in Members(new)
                  => owed[k] > 0 \/ SentenceFor(k) \/ "ret" \in Codes(k.req)'
    BY <1>4, <1>6 DEF HInv, BInv, EndedEarly, Awaited
  <2>2. \A k \in Call : EndCode(k)' = EndCode(k)
    BY DEF EndCode
  <2>. QED  BY <1>1, <1>6, <2>1, <2>2 DEF EndedEarly, Awaited, new
<1>10. Latest' /\ FirstStays'
  BY <1>1 DEF HInv, CInv, Latest, FirstStays, Has
<1>11. FirstGoesFirst'
  <2>1. ASSUME NEW s \in Session, s.n = 1, Has(s.client), table[s.client] # s,
               NEW i \in 1..Len(new),
               Sends(new[i]), new[i].call.sess = s, new[i].call.step # "user"
        PROVE  /\ conn[table[s.client]] = "connecting"
               /\ \A j \in 1..Len(new) :
                    new[j].kind = "connected" /\ new[j].sess = table[s.client] => i < j
    <3>1. /\ conn[table[s.client]] = "connecting"
          /\ \A j \in 1..Len(ready) :
               ready[j].kind = "connected" /\ ready[j].sess = table[s.client] => i + 1 < j
      BY <1>2, <2>1 DEF HInv, CInv, FirstGoesFirst
    <3>2. ASSUME NEW j \in 1..Len(new), new[j].kind = "connected", new[j].sess = table[s.client]
          PROVE  i < j
      <4>1. i + 1 < j + 1
        BY <1>2, <3>1, <3>2
      <4>. QED  BY <4>1
    <3>. QED  BY <3>1, <3>2
  <2>2. \A s \in Session : Has(s.client)' <=> Has(s.client)
    BY <1>1 DEF Has
  <2>. QED  BY <1>1, <2>1, <2>2 DEF FirstGoesFirst, Sends, new
<1>12. Notices'
  <2>1. ASSUME NEW r \in Session, "session_closed" \in Codes(r)'
        PROVE  r.n > 2 \/ (r.client \notin live /\ "session_closed" \notin Sent(r)')
    <3>1. r \in Request /\ "session_closed" \in Codes(r)
      BY <1>4, <2>1, SessionIsRequest
    <3>2. r.n > 2 \/ (r.client \notin live /\ "session_closed" \notin Sent(r))
      BY <3>1 DEF HInv, CInv, Notices
    <3>. QED  BY <1>1, <1>4, <3>1, <3>2
  <2>. QED  BY <1>1, <2>1 DEF Notices
<1>. QED
  BY <1>5, <1>7, <1>8, <1>9, <1>10, <1>11, <1>12 DEF HInv, BInv, CInv

\* What the environment may complete.
Arrives(h) ==
  /\ h.kind # "respond"
  /\ \A c \in Clients : issued[c] <= issued'[c]
  /\ h.kind = "request" => h.req \in Request /\ Codes(h.req) = {}
  /\ \A k \in Call : \/ owed'[k] = owed[k]
                     \/ h = HasSent(k)
                     \/ h.kind = "sentence" /\ h.call = k
  /\ h.kind = "sentence" =>
       /\ owed[h.call] > 0
       /\ owed'[h.call] = 0 <=> h.reply \notin {"row", "blank", "trap"}
       /\ \A i \in 1..Len(ready) :
            ready[i].kind = "sentence" => ready[i].call.sess # h.call.sess
  /\ Sends(h) =>
       /\ h.kind = "sent" /\ h.call \in Call /\ conn[h.call.sess] = "open"
       /\ h.call \in Members(outbox[h.call.sess])
       /\ h.ok => owed'[h.call] > 0

LEMMA ArrivalKeeps ==
  ASSUME IInv, PInv, HInv, IInv', NEW h \in Handler, Complete(h), Arrives(h),
         UNCHANGED <<live, table, conn, loggedIn, stage, held, replies>>
  PROVE  HInv'
<1>. DEFINE new == ready'
            n == Len(ready)
<1>1. /\ n \in Nat /\ n + 1 \in 1..Len(new) /\ new[n + 1] = h
      /\ \A i \in 1..n : i \in 1..Len(new) /\ new[i] = ready[i]
      /\ \A i \in 1..Len(new) : \/ i \in 1..n /\ new[i] = ready[i]
                                \/ i = n + 1 /\ new[i] = h
      /\ \A r : /\ Codes(r)' = Codes(r) /\ Sent(r)' = Sent(r)
                /\ \A x, y : InTurn(r, x, y)' => InTurn(r, x, y)
  BY CompleteCodes DEF Arrives
<1>. HIDE DEF new, n
<1>2. /\ \A g \in Members(new) : g \in Members(ready) \/ g = h
      /\ \A g \in Members(ready) : g \in Members(new)
      /\ h \in Members(new)
  BY <1>1 DEF Members, n
<1>3. AInv'
  <2>1. \A g \in Members(ready') : g.kind = "request" => g.req \in Request /\ Codes(g.req) = {}
    BY <1>2, Known DEF new, HInv, AInv, UnservedAnswers, Arrives
  <2>. QED  BY <1>1, <2>1, SteadyAnswers DEF HInv, Arrives
<1>4. ASSUME NEW k \in Call
      PROVE  /\ HasSent(k).kind = "sent" /\ HasSent(k).call = k /\ HasSent(k).ok
             /\ HasSent(k)' = HasSent(k) /\ EndCode(k)' = EndCode(k)
             /\ SentenceFor(k)' <=> SentenceFor(k) \/ (h.kind = "sentence" /\ h.call = k)
             /\ HasSent(k) \in Members(new) <=> HasSent(k) \in Members(ready) \/ h = HasSent(k)
             /\ k.req \in Request /\ owed[k] \in Nat /\ owed'[k] \in Nat
             /\ h = HasSent(k) => /\ conn[k.sess] = "open" /\ stage[k] = "sending"
                                  /\ owed'[k] > 0
                                  /\ HasSent(k) \notin Members(ready)
  <2>1. SentenceFor(k)' <=> SentenceFor(k) \/ (h.kind = "sentence" /\ h.call = k)
    BY <1>2 DEF SentenceFor, new
  <2>2. /\ HasSent(k).kind = "sent" /\ HasSent(k).call = k /\ HasSent(k).ok
        /\ HasSent(k)' = HasSent(k) /\ EndCode(k)' = EndCode(k)
    BY DEF HasSent, EndCode
  <2>3. /\ k.req \in Request /\ k.sess \in Session /\ owed[k] \in Nat /\ owed'[k] \in Nat
    BY CallFields, SessionsAssumption DEF IInv, StateOK
  <2>4. h = HasSent(k) =>
          /\ conn[k.sess] = "open" /\ stage[k] = "sending" /\ owed'[k] > 0
          /\ HasSent(k) \notin Members(ready)
    BY <2>2, <2>3 DEF Arrives, Sends, PInv, Staged, Underway
  <2>. QED  BY <1>2, <2>1, <2>2, <2>3, <2>4
<1>5. SentFirst'
  <2>1. ASSUME NEW k \in Call, conn[k.sess] # "closed", owed[k] > 0
        PROVE  stage[k] \in {"waiting", "done"} \/ HasSent(k) \in Members(ready)
    BY <2>1 DEF HInv, BInv, SentFirst
  <2>2. ASSUME NEW k \in Call, conn[k.sess] # "closed", owed'[k] > 0
        PROVE  stage[k] \in {"waiting", "done"} \/ HasSent(k) \in Members(new)
    <3>1. CASE owed'[k] = owed[k]
      BY <1>4, <2>1, <2>2, <3>1
    <3>2. CASE h = HasSent(k)
      BY <1>4, <3>2
    <3>3. CASE h.kind = "sentence" /\ h.call = k
      BY <1>4, <2>1, <2>2, <3>3 DEF Arrives
    <3>. QED  BY <3>1, <3>2, <3>3 DEF Arrives
  <2>3. ASSUME NEW k \in Call, conn[k.sess] # "closed", NEW i \in 1..Len(new),
               new[i].kind = "sentence", new[i].call = k
        PROVE  \/ stage[k] \in {"waiting", "done"}
               \/ \E j \in 1..Len(new) : j < i /\ new[j] = HasSent(k)
    <3>1. CASE i \in 1..n /\ new[i] = ready[i]
      <4>1. \/ stage[k] \in {"waiting", "done"}
            \/ \E j \in 1..n : j < i /\ ready[j] = HasSent(k)
        BY <2>3, <3>1 DEF HInv, BInv, SentFirst, n
      <4>. QED  BY <1>1, <4>1
    <3>2. CASE i = n + 1 /\ new[i] = h
      <4>1. stage[k] \in {"waiting", "done"} \/ HasSent(k) \in Members(ready)
        BY <2>1, <2>3, <3>2 DEF Arrives
      <4>2. HasSent(k) \in Members(ready) => \E j \in 1..n : ready[j] = HasSent(k)
        BY DEF Members, n
      <4>3. \A j \in 1..n : j < n + 1
        BY <1>1
      <4>. QED  BY <1>1, <3>2, <4>1, <4>2, <4>3
    <3>. QED  BY <1>1, <3>1, <3>2
  <2>. QED  BY <1>4, <2>2, <2>3 DEF SentFirst, new
<1>6. OneReading'
  <2>1. ASSUME NEW i \in 1..Len(new), NEW j \in 1..Len(new),
               new[i].kind = "sentence", new[j].kind = "sentence",
               new[i].call.sess = new[j].call.sess
        PROVE  i = j
    BY <1>1, <2>1 DEF HInv, BInv, OneReading, Arrives, n
  <2>. QED  BY <2>1 DEF OneReading, new
<1>7. LastSentence'
  <2>1. ASSUME NEW g \in Members(new), g.kind = "sentence"
        PROVE  owed'[g.call] = 0 <=> g.reply \notin {"row", "blank", "trap"}
    <3>1. CASE g = h
      BY <2>1, <3>1 DEF Arrives
    <3>2. CASE g \in Members(ready)
      <4>1. PICK i \in 1..Len(ready) : g = ready[i]
        BY <3>2 DEF Members
      <4>2. g.call \in Call
        BY <2>1, <3>2, Known, HandlerFields
      <4>3. ~(h.kind = "sentence" /\ h.call = g.call)
        BY <2>1, <4>1 DEF Arrives
      <4>4. h # HasSent(g.call)
        <5>1. SUFFICES ASSUME h = HasSent(g.call)  PROVE FALSE
          OBVIOUS
        <5>2. /\ conn[g.call.sess] = "open" /\ stage[g.call] = "sending"
              /\ HasSent(g.call) \notin Members(ready)
          BY <1>4, <4>2, <5>1
        <5>3. \E j \in 1..Len(ready) : ready[j] = HasSent(g.call)
          BY <2>1, <4>1, <4>2, <5>2 DEF HInv, BInv, SentFirst
        <5>. QED  BY <5>2, <5>3 DEF Members
      <4>5. owed'[g.call] = owed[g.call]
        BY <4>2, <4>3, <4>4 DEF Arrives
      <4>. QED  BY <2>1, <3>2, <4>5 DEF HInv, BInv, LastSentence
    <3>. QED  BY <1>2, <3>1, <3>2
  <2>. QED  BY <2>1 DEF LastSentence, new
<1>8. EndedEarly'
  <2>1. ASSUME NEW k \in Call, conn[k.sess] # "closed", stage[k] = "done",
               owed'[k] > 0 \/ SentenceFor(k)'
        PROVE  k.step = "user" /\ (k.req.client \in live => EndCode(k) \in Codes(k.req))
    <3>1. owed[k] > 0 \/ SentenceFor(k)
      BY <1>4, <2>1 DEF Arrives
    <3>. QED  BY <2>1, <3>1 DEF HInv, BInv, EndedEarly
  <2>. QED  BY <1>1, <1>4, <2>1 DEF EndedEarly
<1>9. Awaited'
  <2>1. ASSUME NEW k \in Call, conn[k.sess] # "closed", k.sess.client \in live,
               stage[k] = "waiting" \/ HasSent(k) \in Members(new)
        PROVE  owed'[k] > 0 \/ SentenceFor(k)' \/ "ret" \in Codes(k.req)
    <3>1. CASE h = HasSent(k)
      BY <1>4, <3>1
    <3>2. CASE h.kind = "sentence" /\ h.call = k
      BY <1>4, <3>2
    <3>3. CASE h # HasSent(k) /\ owed'[k] = owed[k]
      BY <1>4, <2>1, <3>3 DEF HInv, BInv, Awaited
    <3>. QED  BY <3>1, <3>2, <3>3 DEF Arrives
  <2>. QED  BY <1>1, <1>4, <2>1 DEF Awaited, new
<1>10. Latest' /\ FirstStays'
  BY DEF HInv, CInv, Latest, FirstStays, Has
<1>11. FirstGoesFirst'
  <2>1. ASSUME NEW s \in Session, s.n = 1, Has(s.client), table[s.client] # s,
               NEW i \in 1..Len(new),
               Sends(new[i]), new[i].call.sess = s, new[i].call.step # "user"
        PROVE  /\ conn[table[s.client]] = "connecting"
               /\ \A j \in 1..Len(new) :
                    new[j].kind = "connected" /\ new[j].sess = table[s.client] => i < j
    <3>1. CASE i \in 1..n /\ new[i] = ready[i]
      <4>1. /\ conn[table[s.client]] = "connecting"
            /\ \A j \in 1..n :
                 ready[j].kind = "connected" /\ ready[j].sess = table[s.client] => i < j
        BY <2>1, <3>1 DEF HInv, CInv, FirstGoesFirst, n
      <4>2. i < n + 1
        BY <1>1, <3>1
      <4>. QED  BY <1>1, <4>1, <4>2
    <3>2. CASE i = n + 1 /\ new[i] = h
      <4>1. conn[s] = "open" /\ s.client \in Clients
        BY <2>1, <3>2, SessionIsRequest DEF Arrives
      <4>2. s.client \in live
        BY <2>1, <4>1 DEF IInv, GoneClientHasNoSession
      <4>3. table[s.client] = s
        BY <2>1, <4>1, <4>2 DEF HInv, CInv, FirstStays
      <4>. QED  BY <2>1, <4>3
    <3>. QED  BY <1>1, <3>1, <3>2
  <2>. QED  BY <2>1 DEF FirstGoesFirst, Sends, Has, new
<1>12. Notices'
  BY <1>1 DEF HInv, CInv, Notices
<1>. QED
  BY <1>3, <1>5, <1>6, <1>7, <1>8, <1>9, <1>10, <1>11, <1>12 DEF HInv, BInv, CInv

\* What completes for a client or for a connection, or with an error.
LEMMA QuietArrival ==
  ASSUME IInv, PInv, HInv, IInv', NEW h \in Handler, Complete(h),
         h.kind \in {"lost", "connected", "broken"},
         UNCHANGED <<live, issued, table, conn, loggedIn, stage, owed, held, replies>>
  PROVE  HInv'
<1>1. \A c \in Clients : issued[c] <= issued'[c]
  BY InvFacts
<1>2. Arrives(h)
  BY <1>1 DEF Arrives, Sends
<1>. QED  BY <1>2, ArrivalKeeps

LEMMA RequestArrives ==
  ASSUME IInv, PInv, HInv, IInv', NEW c \in Clients, ClientRequest(c)
  PROVE  HInv'
<1>1. PICK op \in Ops :
        Complete([kind |-> "request",
                  req |-> [client |-> c, op |-> op, n |-> issued[c] + 1]])
  BY DEF ClientRequest
<1>. DEFINE r == [client |-> c, op |-> op, n |-> issued[c] + 1]
            h == [kind |-> "request", req |-> r]
<1>2. issued[c] + 1 \in 1..MaxReqs /\ issued[c] \in Nat
  BY InvFacts, SessionsAssumption DEF ClientRequest
<1>3. /\ h \in Handler /\ h.kind = "request" /\ h.req = r
      /\ r \in Request /\ r.client = c /\ r.n = issued[c] + 1
  BY <1>2 DEF Handler, Request
<1>4. /\ issued' = [issued EXCEPT ![c] = @ + 1]
      /\ UNCHANGED <<live, table, conn, loggedIn, stage, owed, held, replies>>
  BY DEF ClientRequest
<1>5. \A d \in Clients : issued[d] <= issued'[d]
  <2>1. ASSUME NEW d \in Clients  PROVE issued[d] <= issued'[d]
    BY <1>2, <1>4, InvFacts
  <2>. QED  BY <2>1
<1>. HIDE DEF r
<1>6. Codes(r) = {}
  <2>1. r.n > issued[r.client]
    BY <1>2, <1>3
  <2>. QED  BY <1>3, <2>1 DEF HInv, AInv, UnservedAnswers
<1>7. Complete(h)
  BY <1>1 DEF r
<1>. HIDE DEF h
<1>8. Arrives(h)
  BY <1>3, <1>4, <1>5, <1>6 DEF Arrives, Sends
<1>. QED  BY <1>3, <1>4, <1>7, <1>8, ArrivalKeeps

LEMMA TransmitArrives ==
  ASSUME IInv, PInv, HInv, IInv', NEW s \in Session, Transmit(s)
  PROVE  HInv'
<1>. DEFINE k == Head(outbox[s])
<1>1. outbox[s] \in Seq(Call) /\ outbox[s] # <<>> /\ conn[s] = "open"
  BY Known DEF Transmit
<1>2. k \in Call /\ k \in Members(outbox[s])
  BY <1>1, MembersTail
<1>3. k.sess = s
  BY <1>2, OutboxOwn
<1>4. PICK ok \in BOOLEAN :
        /\ Complete([kind |-> "sent", call |-> k, ok |-> ok])
        /\ owed' = IF ok THEN [owed EXCEPT ![k] = MaxRows + 1] ELSE owed
  BY DEF Transmit
<1>. DEFINE h == [kind |-> "sent", call |-> k, ok |-> ok]
<1>5. UNCHANGED <<live, issued, table, conn, loggedIn, stage, held, replies>>
  BY DEF Transmit
<1>. HIDE DEF k
<1>6. h \in Handler /\ h.kind = "sent" /\ h.call = k /\ h.ok = ok
  BY <1>2 DEF Handler
<1>7. ok => h = HasSent(k)
  BY DEF HasSent
<1>8. \A l \in Call : owed'[l] = owed[l] \/ (ok /\ l = k)
  BY <1>4, InvFacts
<1>9. ok => owed'[k] > 0
  BY <1>2, <1>4, InvFacts, SessionsAssumption
<1>10. \A c \in Clients : issued[c] <= issued'[c]
  BY <1>5, InvFacts
<1>11. Complete(h)
  BY <1>4
<1>. HIDE DEF h
<1>12. Arrives(h)
  <2>1. \A l \in Call : owed'[l] = owed[l] \/ h = HasSent(l)
    BY <1>7, <1>8
  <2>. QED  BY <1>1, <1>2, <1>3, <1>6, <1>9, <1>10, <2>1 DEF Arrives, Sends
<1>. QED  BY <1>5, <1>6, <1>11, <1>12, ArrivalKeeps

LEMMA SentenceArrives ==
  ASSUME IInv, PInv, HInv, IInv', NEW k \in Call, RouterAnswers(k)
  PROVE  HInv'
<1>1. PICK reply \in Reply :
        /\ reply \in {"row", "blank", "trap"} => owed[k] > 1
        /\ owed' = [owed EXCEPT ![k] =
                      IF reply \notin {"row", "blank", "trap"} THEN 0 ELSE @ - 1]
        /\ Complete([kind |-> "sentence", call |-> k, reply |-> reply])
  BY DEF RouterAnswers
<1>. DEFINE h == [kind |-> "sentence", call |-> k, reply |-> reply]
<1>2. h \in Handler /\ h.kind = "sentence" /\ h.call = k /\ h.reply = reply
  BY DEF Handler
<1>3. /\ owed[k] > 0 /\ owed[k] \in Nat
      /\ \A l \in Call : l # k => owed'[l] = owed[l]
      /\ owed'[k] = IF reply \notin {"row", "blank", "trap"} THEN 0 ELSE owed[k] - 1
  BY <1>1, InvFacts, OwedIsNat DEF RouterAnswers
<1>4. UNCHANGED <<live, issued, table, conn, loggedIn, stage, held, replies>>
  BY DEF RouterAnswers
<1>5. \A i \in 1..Len(ready) : ready[i].kind = "sentence" => ready[i].call.sess # k.sess
  BY Known DEF RouterAnswers, Reading
<1>6. \A c \in Clients : issued[c] <= issued'[c]
  BY <1>4, InvFacts
<1>7. owed'[k] = 0 <=> reply \notin {"row", "blank", "trap"}
  BY <1>1, <1>3
<1>8. Complete(h)
  BY <1>1
<1>. HIDE DEF h
<1>9. Arrives(h)
  BY <1>2, <1>3, <1>5, <1>6, <1>7 DEF Arrives, Sends
<1>. QED  BY <1>2, <1>4, <1>8, <1>9, ArrivalKeeps

LEMMA EnvironmentReplies ==
  ASSUME IInv, PInv, HInv, IInv', Environment
  PROVE  HInv'
<1>1. ASSUME NEW c \in Clients, ClientLost(c)
      PROVE  HInv'
  <2>. DEFINE h == [kind |-> "lost", client |-> c]
  <2>1. h \in Handler /\ h.kind = "lost"
    BY DEF Handler
  <2>2. /\ Complete(h)
        /\ UNCHANGED <<live, issued, table, conn, loggedIn, stage, owed, held, replies>>
    BY <1>1 DEF ClientLost
  <2>. HIDE DEF h
  <2>. QED  BY <2>1, <2>2, QuietArrival
<1>2. ASSUME NEW s \in Session, ConnectCompletes(s)
      PROVE  HInv'
  <2>1. PICK ok \in BOOLEAN : Complete([kind |-> "connected", sess |-> s, ok |-> ok])
    BY <1>2 DEF ConnectCompletes
  <2>. DEFINE h == [kind |-> "connected", sess |-> s, ok |-> ok]
  <2>2. h \in Handler /\ h.kind = "connected" /\ Complete(h)
    BY <2>1 DEF Handler
  <2>3. UNCHANGED <<live, issued, table, conn, loggedIn, stage, owed, held, replies>>
    BY <1>2 DEF ConnectCompletes
  <2>. HIDE DEF h
  <2>. QED  BY <2>2, <2>3, QuietArrival
<1>3. ASSUME NEW s \in Session, RouterBreaks(s)
      PROVE  HInv'
  <2>. DEFINE h == [kind |-> "broken", sess |-> s]
  <2>1. h \in Handler /\ h.kind = "broken"
    BY DEF Handler
  <2>2. /\ Complete(h)
        /\ UNCHANGED <<live, issued, table, conn, loggedIn, stage, owed, held, replies>>
    BY <1>3 DEF RouterBreaks
  <2>. HIDE DEF h
  <2>. QED  BY <2>1, <2>2, QuietArrival
<1>. QED
  BY <1>1, <1>2, <1>3, RequestArrives, TransmitArrives, SentenceArrives DEF Environment

-----------------------------------------------------------------------------
(* The invariant. *)

LEMMA StandsStill ==
  ASSUME IInv, PInv, HInv, IInv',
         UNCHANGED <<ready, live, issued, table, conn, loggedIn, stage, owed, held, replies>>
  PROVE  HInv'
<1>1. \A r : Codes(r)' = Codes(r) /\ Sent(r)' = Sent(r)
  BY DEF Codes, Sent, Posted
<1>2. \A r, x, y : InTurn(r, x, y)' => InTurn(r, x, y)
  BY DEF InTurn, Sent, Posted
<1>3. \A c \in Clients : issued[c] <= issued'[c]
  BY InvFacts
<1>4. \A h \in Members(ready') : h.kind = "request" => h.req \in Request /\ Codes(h.req) = {}
  BY Known DEF HInv, AInv, UnservedAnswers
<1>5. AInv'
  BY <1>1, <1>2, <1>3, <1>4, SteadyAnswers DEF HInv
<1>6. ASSUME NEW k \in Call
      PROVE  /\ HasSent(k)' = HasSent(k) /\ EndCode(k)' = EndCode(k)
             /\ SentenceFor(k)' <=> SentenceFor(k)
  BY DEF HasSent, EndCode, SentenceFor
<1>7. SentFirst' /\ OneReading' /\ LastSentence'
  BY <1>6 DEF HInv, BInv, SentFirst, OneReading, LastSentence
<1>8. EndedEarly' /\ Awaited'
  BY <1>1, <1>6 DEF HInv, BInv, EndedEarly, Awaited
<1>9. CInv'
  BY <1>1 DEF HInv, CInv, Latest, FirstStays, FirstGoesFirst, Notices, Has
<1>. QED  BY <1>5, <1>7, <1>8, <1>9 DEF HInv, BInv

LEMMA InitReplies == Init => HInv
<1>. SUFFICES ASSUME Init  PROVE HInv
  OBVIOUS
<1>1. Len(ready) = 0 /\ Members(ready) = {}
  BY None DEF Init, Members
<1>2. ASSUME NEW r \in Request  PROVE Sent(r) = {} /\ Posted(r) = {} /\ Codes(r) = {}
  BY DEF Init, Sent, Posted, Codes
<1>3. UnservedAnswers /\ HeldIsLoggedIn /\ UserCalls /\ SendAnswers
  BY <1>1, <1>2 DEF Init, UnservedAnswers, HeldIsLoggedIn, UserCalls, SendAnswers
<1>4. OpenAnswers /\ OpenAnsweredOnce /\ SendAnswersEnd
  BY <1>2, SessionIsRequest DEF OpenAnswers, OpenAnsweredOnce, SendAnswersEnd
<1>5. BInv
  BY <1>1 DEF Init, BInv, SentFirst, OneReading, LastSentence, EndedEarly, Awaited,
              SentenceFor
<1>6. CInv
  BY <1>1, <1>2, SessionIsRequest
  DEF Init, CInv, Latest, FirstStays, FirstGoesFirst, Notices, Has
<1>. QED  BY <1>3, <1>4, <1>5, <1>6 DEF HInv, AInv

LEMMA NextReplies ==
  ASSUME IInv, PInv, HInv, [Next]_vars
  PROVE  HInv'
<1>1. IInv' /\ PInv'
  BY NextInv, NextPlaces
<1>2. CASE UNCHANGED vars
  BY <1>1, <1>2, StandsStill DEF vars
<1>3. CASE RunHandler /\ LoadTrap
  BY <1>1, <1>3, StandsStill DEF LoadTrap
<1>4. CASE RunHandler /\ SendAnswer
  BY <1>1, <1>4, SendAnswerKeeps
<1>5. CASE RunHandler /\ ~SendAnswer /\ ~LoadTrap
  <2>1. PICK A : Account(A)
    BY <1>5, HandlerAccount DEF HInv
  <2>. QED
    BY <1>1, <2>1, AccountKeepsAnswers, AccountKeepsReplies, AccountKeepsNotices DEF HInv
<1>6. CASE Environment
  BY <1>1, <1>6, EnvironmentReplies
<1>. QED  BY <1>2, <1>3, <1>4, <1>5, <1>6 DEF Next

\* Whatever the clients ask, the router says and fails, the answers posted and
\* sent agree with the callbacks, the sockets and the table.
THEOREM RepliesInvariant == Spec => []HInv
<1>1. IInv /\ PInv /\ HInv /\ [Next]_vars => HInv'
  BY NextReplies
<1>. QED  BY InitReplies, Invariance, Places, <1>1, PTL DEF Spec

\* The callbacks of an api_open, of its connection, its login and the closing of
\* its session, together answer it once, or with a success and then one
\* ros_session_closed, in whatever order they run.
THEOREM EachOpenAnsweredOnce == Spec => []OpenAnsweredOnce
<1>1. HInv => OpenAnsweredOnce
  BY DEF HInv, AInv
<1>. QED  BY <1>1, RepliesInvariant, PTL

\* api_send passes responses on up to the first without parameters and says
\* nothing after it; unknown_error comes from a send that has failed, before any
\* response.
THEOREM EachSendAnswerEnds == Spec => []SendAnswersEnd
<1>1. HInv => SendAnswersEnd
  BY DEF HInv, AInv
<1>. QED  BY <1>1, RepliesInvariant, PTL

\* A session whose connection ends while a callback of its login is in read_cbs_
\* is out of the table and of the commands, and its api_open has no answer.
THEOREM LeaksAreSilent == Spec => []LeakIsSilent
<1>1. IInv /\ PInv /\ HInv => LeakIsSilent
  <2>1. SUFFICES ASSUME IInv, PInv, HInv, NEW s \in Session,
                        conn[s] = "closed", LoginWaits(s)
                 PROVE  /\ table[s.client] # s
                        /\ \A m \in Command : held[m] # s
                        /\ Codes(s) = {}
    BY DEF LeakIsSilent
  <2>2. LoggingIn(s)
    BY <2>1 DEF LoginWaits, LoggingIn, Pending
  <2>3. s \notin loggedIn
    BY <2>1 DEF PInv, LoginSteps, LoginWaits
  <2>4. Codes(s) = {}
    BY <2>1, <2>2 DEF HInv, AInv, OpenAnswers
  <2>5. s # NoSession /\ s.client \in Clients
    BY SessionIsRequest, SessionsAssumption
  <2>6. table[s.client] # s
    BY <2>1, <2>3, <2>5, InvFacts
  <2>7. \A m \in Command : held[m] # s
    BY <2>1, <2>3, <2>5 DEF HInv, AInv, HeldIsLoggedIn
  <2>. QED  BY <2>4, <2>6, <2>7
<1>. QED  BY <1>1, Invariance, Places, RepliesInvariant, PTL

\* on_response_read finds the callback of the tag it has read: the completion of
\* the send has put it into read_cbs_ before, and it is gone only when a row
\* without parameters has been taken for the end.
THEOREM EachReplyFindsItsCallback == Spec => []ReplyFindsCallback
<1>1. IInv /\ HInv => ReplyFindsCallback
  <2>. DEFINE k == Head(ready).call
  <2>1. SUFFICES ASSUME IInv, HInv, Running("sentence"), conn[k.sess] = "open"
                 PROVE  \/ stage[k] = "waiting"
                        \/ /\ stage[k] = "done"
                           /\ k.req.client \in live =>
                                (IF k.req.op = "load" THEN "success" ELSE "blank")
                                  \in Codes(k.req)
    BY DEF ReplyFindsCallback
  <2>2. /\ k \in Call /\ 1 \in 1..Len(ready) /\ Head(ready) = ready[1]
        /\ ready[1].kind = "sentence" /\ ready[1].call = k
    BY <2>1, RunningFields, Known, TailFacts DEF Running
  <2>3. stage[k] \in {"waiting", "done"}
    BY <2>1, <2>2 DEF HInv, BInv, SentFirst
  <2>4. SentenceFor(k)
    BY <2>2 DEF SentenceFor, Members
  <2>. QED  BY <2>1, <2>2, <2>3, <2>4 DEF HInv, BInv, EndedEarly, EndCode
<1>. QED  BY <1>1, Invariance, RepliesInvariant, PTL

\* A callback in read_cbs_ of an open api to which the router has nothing more
\* to say is that of an api_send that was passed a !done with parameters.
THEOREM NothingElseStrands == Spec => []OnlyRetStrands
<1>1. HInv => OnlyRetStrands
  BY DEF HInv, BInv, Awaited, OnlyRetStrands, SentenceFor, Members
<1>. QED  BY <1>1, RepliesInvariant, PTL

\* The close callback of an api_open reaches a client only from the third
\* request on: the callbacks of two earlier sessions of the client must have
\* come late, one to free its entry and one to close the session that took it.
THEOREM NoticesNeedTwoStaleOpens == Spec => []ClosedNoticeNeedsTwoStaleOpens
<1>1. HInv => ClosedNoticeNeedsTwoStaleOpens
  BY DEF HInv, CInv, Notices, ClosedNoticeNeedsTwoStaleOpens, Codes
<1>. QED  BY <1>1, RepliesInvariant, PTL

=============================================================================
