-------------------------- MODULE TcpClientProofs --------------------------
(***************************************************************************)
(* For connections of any length: the hooks run once, as the connection       *)
(* closes, nothing is served after them, and nothing is ever left in          *)
(* send_queue_ when a handler has run; the types hold, one read is under way  *)
(* as long as the connection is open, every answer is in one place and is     *)
(* reported once, the answers are on the wire in order, and the connection    *)
(* implements Connection.                                                     *)
(*                                                                          *)
(* JInv is one invariant because its parts lean on each other: the order of  *)
(* the answers being sent needs the order of those still posted, and that a  *)
(* callback is called once needs that no answer is in two places.            *)
(***************************************************************************)
EXTENDS TcpClient, TLAPS, FiniteSetTheorems

-----------------------------------------------------------------------------
(* The hooks and send_queue_. *)

IInv ==
  /\ state \in State
  /\ HooksOnceAsItCloses
  /\ NothingQueued

\* A connection starts open, with no hook run and nothing queued.
LEMMA InitIInv == Init => IInv
  BY DEF Init, IInv, State, HooksOnceAsItCloses, NothingQueued

\* The hooks run on a connection that is open, which on_error then closes.
LEMMA OnErrorIInv ==
  ASSUME IInv, IsOpen, NEW n, OnError(n)
  PROVE  state' \in State /\ hooks' = 1 /\ state' = "closed"
  BY DEF IInv, IsOpen, OnError, State, HooksOnceAsItCloses

\* What is put into the queue by respond is taken out by send_next.
LEMMA QueueEmptied ==
  ASSUME IInv, NEW r
  PROVE  Tail(Append(sendQueue, r)) = <<>>
  BY DEF IInv, NothingQueued

\* Every step keeps the invariant.
LEMMA NextIInv == IInv /\ [Next]_vars => IInv'
<1> SUFFICES ASSUME IInv, [Next]_vars
             PROVE  IInv'
  OBVIOUS
<1>1. CASE Start
  BY <1>1 DEF Start, IInv, State, HooksOnceAsItCloses, NothingQueued
<1>2. CASE StartThrows
  BY <1>2 DEF StartThrows, IInv, State, HooksOnceAsItCloses, NothingQueued
<1>3. CASE RunHandler
  <2>1. CASE ReadHeader
    BY <2>1 DEF ReadHeader, ReadOk, IsOpen, IInv, State, HooksOnceAsItCloses, NothingQueued
  <2>2. CASE ReadEmptyRequest
    BY <2>2 DEF ReadEmptyRequest, ReadOk, Deliver, IsOpen, IInv, State,
                HooksOnceAsItCloses, NothingQueued
  <2>3. CASE ReadBody
    BY <2>3 DEF ReadBody, ReadOk, Deliver, IsOpen, IInv, State, HooksOnceAsItCloses,
                NothingQueued
  <2>4. CASE ReadError
    BY <2>4, OnErrorIInv DEF ReadError, IInv, HooksOnceAsItCloses, NothingQueued
  <2>5. CASE ReadAfterClose
    BY <2>5 DEF ReadAfterClose, IInv, HooksOnceAsItCloses, NothingQueued
  <2>6. CASE StartSend
    BY <2>6, QueueEmptied DEF StartSend, SendNext, IInv, HooksOnceAsItCloses, NothingQueued
  <2>7. CASE SendNotConnected
    BY <2>7, QueueEmptied DEF SendNotConnected, IInv, HooksOnceAsItCloses, NothingQueued
  <2>8. CASE SendDone
    BY <2>8 DEF SendDone, IInv, HooksOnceAsItCloses, NothingQueued
  <2>9. CASE SendError
    BY <2>9, OnErrorIInv DEF SendError, IInv, HooksOnceAsItCloses, NothingQueued
  <2>10. CASE SendAfterClose
    BY <2>10 DEF SendAfterClose, IInv, HooksOnceAsItCloses, NothingQueued
  <2>11. QED
    BY <1>3, <2>1, <2>2, <2>3, <2>4, <2>5, <2>6, <2>7, <2>8, <2>9, <2>10
    DEF RunHandler
<1>4. CASE Environment
  <2>1. UNCHANGED <<state, hooks, sendQueue>>
    BY <1>4 DEF Environment, ClientSends, ReadCompletes, ReadFails, SendCompletes,
                SendFails, RespondLater
  <2>2. QED
    BY <2>1 DEF IInv, HooksOnceAsItCloses, NothingQueued
<1>5. CASE UNCHANGED vars
  BY <1>5 DEF vars, IInv, HooksOnceAsItCloses, NothingQueued
<1>6. QED
  BY <1>1, <1>2, <1>3, <1>4, <1>5 DEF Next

\* The inductive invariant holds.
LEMMA Invariance == Spec => []IInv
  BY InitIInv, NextIInv, PTL DEF Spec

\* tcp_client::on_error runs the disconnection hooks exactly once, as the
\* connection closes, however many reads and sends fail with it.
THEOREM HooksOnce == Spec => []HooksOnceAsItCloses
<1>1. IInv => HooksOnceAsItCloses
  BY DEF IInv
<1>2. QED
  BY Invariance, <1>1, PTL

\* send_next takes out whatever respond has put into send_queue_, so that the
\* queue never orders the sends under way.
THEOREM QueueAlwaysEmpty == Spec => []NothingQueued
<1>1. IInv => NothingQueued
  BY DEF IInv
<1>2. QED
  BY Invariance, <1>1, PTL

\* Once the hooks have run for a client, no request of it reaches a command.
THEOREM NothingServed == Spec => NothingServedAfterHooks
<1>1. IInv /\ [Next]_vars => [hooks > 0 => delivered' = delivered]_vars
  <2> SUFFICES ASSUME IInv, Next, hooks > 0
               PROVE  delivered' = delivered
    OBVIOUS
  <2>1. ~IsOpen
    BY DEF IInv, HooksOnceAsItCloses, IsOpen
  <2>2. CASE Start \/ StartThrows
    BY <2>2 DEF Start, StartThrows
  <2>3. CASE Environment
    BY <2>3 DEF Environment, ClientSends, ReadCompletes, ReadFails, SendCompletes,
                SendFails, RespondLater
  <2>4. CASE RunHandler
    BY <2>1, <2>4
    DEF RunHandler, ReadHeader, ReadEmptyRequest, ReadBody, ReadOk, ReadError,
        ReadAfterClose, StartSend, SendNotConnected, SendDone, SendError, SendAfterClose
  <2>5. QED
    BY <2>2, <2>3, <2>4 DEF Next
<1>2. QED
  BY Invariance, <1>1, PTL DEF Spec, NothingServedAfterHooks

-----------------------------------------------------------------------------
(* The invariant of what is read, queued, sent and reported. *)

Members(s) == {s[i] : i \in 1..Len(s)}

SingleRead(s) ==
  \A i, j \in 1..Len(s) : s[i].kind = "read" /\ s[j].kind = "read" => i = j

\* No two handlers are of one answer.
Apart(s) ==
  \A i, j \in 1..Len(s) :
    s[i].kind # "read" /\ s[j].kind # "read" /\ s[i].answer = s[j].answer => i = j

Ordered(s) ==
  \A i, j \in 1..Len(s) :
    i < j /\ s[i].kind = "respond" /\ s[j].kind = "respond" => s[i].answer < s[j].answer

Ascending(s) == \A i, j \in 1..Len(s) : i < j => s[i] < s[j]

Life ==
  /\ state = "idle" =>
       ready = <<>> /\ sending = <<>> /\ posted = 0 /\ wanted = 0 /\ delivered = <<>>
  /\ state # "idle" => socket = (state # "closed")

\* What the connection reads is of messages that the client has sent.
Bytes ==
  /\ \A k \in 1..Len(stream) : stream[k].msg \in 1..Len(sent)
  /\ \A h \in Members(ready) : h.kind = "read" =>
       \A k \in 1..Len(h.bytes) : h.bytes[k].msg \in 1..Len(sent)

Reads ==
  /\ ~IsOpen => wanted = 0
  /\ IsOpen /\ state # "idle" =>
       /\ SingleRead(ready)
       /\ wanted > 0 => \A h \in Members(ready) : h.kind # "read"
       /\ wanted = 0 => \E h \in Members(ready) : h.kind = "read"
  /\ state = "reading_header" =>
       /\ wanted \in {0, HeaderSize}
       /\ \A h \in Members(ready) : h.kind = "read" /\ h.ok => Len(h.bytes) = HeaderSize

IsSent(r) == \E i \in 1..Len(wire) : wire[i].answer = r

\* An answer that is posted, or being sent, has not been reported; the answers
\* that are posted are younger than those being sent, and those than the wire's.
Places ==
  /\ Apart(ready) /\ Ordered(ready) /\ Ascending(sending)
  /\ \A h \in Members(ready) : h.kind # "read" =>
       /\ h.answer <= posted /\ called[h.answer] = <<>>
       /\ \A i \in 1..Len(sending) : sending[i] # h.answer
  /\ \A i \in 1..Len(sending) : sending[i] <= posted /\ called[sending[i]] = <<>>
  /\ \A r \in Answer : r > posted => called[r] = <<>>

Reporting ==
  /\ \A r \in Answer : called[r] \in {<<>>, <<TRUE>>, <<FALSE>>}
  /\ \A r \in Answer : r <= posted /\ called[r] = <<>> =>
       \/ \E h \in Members(ready) : h.kind # "read" /\ h.answer = r
       \/ \E i \in 1..Len(sending) : sending[i] = r

Wiring ==
  /\ \A i, j \in 1..Len(wire) : i < j => wire[i].answer < wire[j].answer
  /\ \A i \in 1..Len(wire) :
       /\ wire[i].answer <= posted
       /\ \A j \in 1..Len(sending) : wire[i].answer < sending[j]
       /\ \A h \in Members(ready) : h.kind = "respond" => wire[i].answer < h.answer
  /\ \A i \in 1..Len(sending) :
       \A h \in Members(ready) : h.kind = "respond" => sending[i] < h.answer
  /\ \A h \in Members(ready) : h.kind = "sent" /\ h.ok => IsSent(h.answer)
  /\ \A r \in Answer : called[r] = <<TRUE>> => IsSent(r)

JInv ==
  /\ IInv /\ TypeOK /\ Life /\ Bytes /\ Reads /\ Places /\ Reporting /\ Wiring

-----------------------------------------------------------------------------
(* Sequences of handlers. *)

\* A handler is taken from the front.
LEMMA TailFacts ==
  ASSUME NEW S, NEW s \in Seq(S), s # <<>>
  PROVE  /\ Head(s) \in S /\ 1 \in 1..Len(s) /\ Head(s) = s[1]
         /\ Tail(s) \in Seq(S) /\ Len(Tail(s)) \in Nat
         /\ \A i \in 1..Len(Tail(s)) : i + 1 \in 1..Len(s) /\ Tail(s)[i] = s[i + 1]
         /\ \A i \in 1..Len(s) : i = 1 \/ (i - 1 \in 1..Len(Tail(s)) /\ Tail(s)[i - 1] = s[i])
  OBVIOUS

LEMMA ConcatFacts ==
  ASSUME NEW S, NEW s \in Seq(S), NEW t \in Seq(S)
  PROVE  /\ s \o t \in Seq(S) /\ Len(s) \in Nat /\ Len(t) \in Nat
         /\ \A i \in 1..Len(s) : i \in 1..Len(s \o t) /\ (s \o t)[i] = s[i]
         /\ \A i \in 1..Len(t) : Len(s) + i \in 1..Len(s \o t) /\ (s \o t)[Len(s) + i] = t[i]
         /\ \A i \in 1..Len(s \o t) :
              \/ i \in 1..Len(s)
              \/ /\ i - Len(s) \in 1..Len(t) /\ i = Len(s) + (i - Len(s))
                 /\ (s \o t)[i] = t[i - Len(s)]
  OBVIOUS

LEMMA MembersTail ==
  ASSUME NEW S, NEW s \in Seq(S), s # <<>>
  PROVE  /\ Head(s) \in S /\ Tail(s) \in Seq(S)
         /\ Head(s) \in Members(s)
         /\ \A h \in Members(Tail(s)) : h \in Members(s)
         /\ \A h \in Members(s) : h = Head(s) \/ h \in Members(Tail(s))
<1> DEFINE t == Tail(s)
<1>1. /\ Head(s) \in S /\ t \in Seq(S) /\ 1 \in 1..Len(s) /\ Head(s) = s[1]
      /\ \A i \in 1..Len(t) : i + 1 \in 1..Len(s) /\ t[i] = s[i + 1]
      /\ \A i \in 1..Len(s) : i = 1 \/ (i - 1 \in 1..Len(t) /\ t[i - 1] = s[i])
  BY TailFacts
<1> HIDE DEF t
<1>2. Head(s) \in Members(s)
  BY <1>1 DEF Members
<1>3. ASSUME NEW h \in Members(t) PROVE h \in Members(s)
  BY <1>1 DEF Members
<1>4. ASSUME NEW h \in Members(s) PROVE h = Head(s) \/ h \in Members(t)
  <2>1. PICK i \in 1..Len(s) : h = s[i]
    BY DEF Members
  <2>2. i = 1 \/ (i - 1 \in 1..Len(t) /\ t[i - 1] = h)
    BY <1>1, <2>1
  <2>3. QED
    BY <1>1, <2>1, <2>2 DEF Members
<1>5. QED
  BY <1>2, <1>3, <1>4 DEF t

LEMMA MembersConcat ==
  ASSUME NEW S, NEW s \in Seq(S), NEW t \in Seq(S)
  PROVE  /\ s \o t \in Seq(S)
         /\ \A h \in Members(s) : h \in Members(s \o t)
         /\ \A h \in Members(t) : h \in Members(s \o t)
         /\ \A h \in Members(s \o t) : h \in Members(s) \/ h \in Members(t)
<1> DEFINE u == s \o t
<1>1. /\ u \in Seq(S)
      /\ \A i \in 1..Len(s) : i \in 1..Len(u) /\ u[i] = s[i]
      /\ \A i \in 1..Len(t) : Len(s) + i \in 1..Len(u) /\ u[Len(s) + i] = t[i]
      /\ \A i \in 1..Len(u) :
           \/ i \in 1..Len(s) /\ u[i] = s[i]
           \/ i - Len(s) \in 1..Len(t) /\ u[i] = t[i - Len(s)]
  BY ConcatFacts
<1> HIDE DEF u
<1>2. ASSUME NEW h \in Members(s) PROVE h \in Members(u)
  BY <1>1 DEF Members
<1>3. ASSUME NEW h \in Members(t) PROVE h \in Members(u)
  BY <1>1 DEF Members
<1>4. ASSUME NEW h \in Members(u) PROVE h \in Members(s) \/ h \in Members(t)
  <2>1. PICK i \in 1..Len(u) : h = u[i]
    BY DEF Members
  <2>2. CASE i \in 1..Len(s) /\ u[i] = s[i]
    BY <2>1, <2>2 DEF Members
  <2>3. CASE i - Len(s) \in 1..Len(t) /\ u[i] = t[i - Len(s)]
    BY <2>1, <2>3 DEF Members
  <2>. QED  BY <1>1, <2>2, <2>3
<1>5. QED
  BY <1>2, <1>3, <1>4 DEF u

LEMMA PropertiesTail ==
  ASSUME NEW s \in Seq(Handler), s # <<>>
  PROVE  /\ SingleRead(s) =>
              /\ SingleRead(Tail(s))
              /\ Head(s).kind = "read" => \A h \in Members(Tail(s)) : h.kind # "read"
         /\ Apart(s) =>
              /\ Apart(Tail(s))
              /\ Head(s).kind # "read" =>
                   \A h \in Members(Tail(s)) : h.kind # "read" => h.answer # Head(s).answer
         /\ Ordered(s) =>
              /\ Ordered(Tail(s))
              /\ Head(s).kind = "respond" =>
                   \A h \in Members(Tail(s)) : h.kind = "respond" => Head(s).answer < h.answer
<1> DEFINE t == Tail(s)
<1>1. /\ 1 \in 1..Len(s) /\ Head(s) = s[1] /\ Len(t) \in Nat /\ Len(s) \in Nat
      /\ \A i \in 1..Len(t) : i + 1 \in 1..Len(s) /\ t[i] = s[i + 1]
  BY TailFacts
<1> HIDE DEF t
<1>2. ASSUME NEW h \in Members(t)
      PROVE  \E k \in 1..Len(s) : k > 1 /\ h = s[k]
  <2>1. PICK i \in 1..Len(t) : h = t[i]
    BY DEF Members
  <2>2. i + 1 \in 1..Len(s) /\ i + 1 > 1 /\ h = s[i + 1]
    BY <1>1, <2>1
  <2>3. QED
    BY <2>2
<1>3. ASSUME SingleRead(s)
      PROVE  /\ SingleRead(t)
             /\ Head(s).kind = "read" => \A h \in Members(t) : h.kind # "read"
  <2>1. ASSUME NEW i \in 1..Len(t), NEW j \in 1..Len(t), t[i].kind = "read", t[j].kind = "read"
        PROVE  i = j
    <3>1. PICK k, l \in 1..Len(s) :
            k = i + 1 /\ l = j + 1 /\ s[k] = t[i] /\ s[l] = t[j]
      BY <1>1
    <3>2. k = l
      BY <1>3, <2>1, <3>1 DEF SingleRead
    <3>3. QED
      BY <3>1, <3>2
  <2>2. ASSUME Head(s).kind = "read", NEW h \in Members(t) PROVE h.kind # "read"
    BY <1>2, <1>3, <2>2 DEF SingleRead
  <2>3. QED
    BY <2>1, <2>2 DEF SingleRead
<1>4. ASSUME Apart(s)
      PROVE  /\ Apart(t)
             /\ Head(s).kind # "read" =>
                  \A h \in Members(t) : h.kind # "read" => h.answer # Head(s).answer
  <2>1. ASSUME NEW i \in 1..Len(t), NEW j \in 1..Len(t), t[i].kind # "read",
               t[j].kind # "read", t[i].answer = t[j].answer
        PROVE  i = j
    <3>1. i + 1 = j + 1
      BY <1>1, <1>4, <2>1 DEF Apart
    <3>2. QED
      BY <1>1, <3>1
  <2>2. ASSUME Head(s).kind # "read", NEW h \in Members(t), h.kind # "read"
        PROVE  h.answer # Head(s).answer
    BY <1>2, <1>4, <2>2 DEF Apart
  <2>3. QED
    BY <2>1, <2>2 DEF Apart
<1>5. ASSUME Ordered(s)
      PROVE  /\ Ordered(t)
             /\ Head(s).kind = "respond" =>
                  \A h \in Members(t) : h.kind = "respond" => Head(s).answer < h.answer
  <2>1. ASSUME NEW i \in 1..Len(t), NEW j \in 1..Len(t), i < j,
               t[i].kind = "respond", t[j].kind = "respond"
        PROVE  t[i].answer < t[j].answer
    <3>2. QED
      BY <1>1, <1>5, <2>1 DEF Ordered
  <2>2. ASSUME Head(s).kind = "respond", NEW h \in Members(t), h.kind = "respond"
        PROVE  Head(s).answer < h.answer
    BY <1>2, <1>5, <2>2 DEF Ordered
  <2>3. QED
    BY <2>1, <2>2 DEF Ordered
<1>6. QED
  BY <1>3, <1>4, <1>5 DEF t

LEMMA PropertiesConcat ==
  ASSUME NEW s \in Seq(Handler), NEW t \in Seq(Handler)
  PROVE  /\ SingleRead(s) /\ (\A h \in Members(t) : h.kind # "read") => SingleRead(s \o t)
         /\ SingleRead(t) /\ (\A h \in Members(s) : h.kind # "read") => SingleRead(s \o t)
         /\ /\ Apart(s) /\ Apart(t)
            /\ \A h \in Members(s), g \in Members(t) :
                 h.kind # "read" /\ g.kind # "read" => h.answer # g.answer
            => Apart(s \o t)
         /\ /\ Ordered(s) /\ Ordered(t)
            /\ \A h \in Members(s), g \in Members(t) :
                 h.kind = "respond" /\ g.kind = "respond" => h.answer < g.answer
            => Ordered(s \o t)
<1> DEFINE u == s \o t
<1>1. /\ Len(s) \in Nat /\ Len(t) \in Nat
      /\ \A i \in 1..Len(u) :
           \/ i \in 1..Len(s) /\ u[i] = s[i]
           \/ i - Len(s) \in 1..Len(t) /\ u[i] = t[i - Len(s)]
  BY ConcatFacts
<1> HIDE DEF u
<1>2. /\ \A i \in 1..Len(s) : s[i] \in Members(s)
      /\ \A i \in 1..Len(t) : t[i] \in Members(t)
  BY DEF Members
<1>4. ASSUME SingleRead(s), \A h \in Members(t) : h.kind # "read" PROVE SingleRead(u)
  BY <1>1, <1>2, <1>4 DEF SingleRead
<1>5. ASSUME SingleRead(t), \A h \in Members(s) : h.kind # "read" PROVE SingleRead(u)
  <2>1. SUFFICES ASSUME NEW i \in 1..Len(u), NEW j \in 1..Len(u), u[i].kind = "read",
                        u[j].kind = "read"
                 PROVE  i = j
    BY DEF SingleRead
  <2>2. /\ i - Len(s) \in 1..Len(t) /\ u[i] = t[i - Len(s)]
        /\ j - Len(s) \in 1..Len(t) /\ u[j] = t[j - Len(s)]
    BY <1>1, <1>2, <1>5, <2>1
  <2>3. i - Len(s) = j - Len(s)
    BY <1>5, <2>1, <2>2 DEF SingleRead
  <2>4. QED
    BY <1>1, <2>3
<1>6. ASSUME Apart(s), Apart(t),
             \A h \in Members(s), g \in Members(t) :
               h.kind # "read" /\ g.kind # "read" => h.answer # g.answer
      PROVE  Apart(u)
  <2>1. SUFFICES ASSUME NEW i \in 1..Len(u), NEW j \in 1..Len(u), u[i].kind # "read",
                        u[j].kind # "read", u[i].answer = u[j].answer
                 PROVE  i = j
    BY DEF Apart
  <2>2. CASE i \in 1..Len(s) /\ u[i] = s[i] /\ j \in 1..Len(s) /\ u[j] = s[j]
    BY <1>6, <2>1, <2>2 DEF Apart
  <2>3. CASE /\ i - Len(s) \in 1..Len(t) /\ u[i] = t[i - Len(s)]
             /\ j - Len(s) \in 1..Len(t) /\ u[j] = t[j - Len(s)]
    <3>1. i - Len(s) = j - Len(s)
      BY <1>6, <2>1, <2>3 DEF Apart
    <3>2. QED
      BY <1>1, <3>1
  <2>4. QED
    BY <1>1, <1>2, <1>6, <2>1, <2>2, <2>3
<1>7. ASSUME Ordered(s), Ordered(t),
             \A h \in Members(s), g \in Members(t) :
               h.kind = "respond" /\ g.kind = "respond" => h.answer < g.answer
      PROVE  Ordered(u)
  <2>1. SUFFICES ASSUME NEW i \in 1..Len(u), NEW j \in 1..Len(u), i < j,
                        u[i].kind = "respond", u[j].kind = "respond"
                 PROVE  u[i].answer < u[j].answer
    BY DEF Ordered
  <2>2. CASE i \in 1..Len(s) /\ u[i] = s[i] /\ j \in 1..Len(s) /\ u[j] = s[j]
    BY <1>7, <2>1, <2>2 DEF Ordered
  <2>3. CASE /\ i - Len(s) \in 1..Len(t) /\ u[i] = t[i - Len(s)]
             /\ j - Len(s) \in 1..Len(t) /\ u[j] = t[j - Len(s)]
    <3>2. QED
      BY <1>7, <2>1, <2>3 DEF Ordered
  <2>4. CASE /\ i \in 1..Len(s) /\ u[i] = s[i]
             /\ j - Len(s) \in 1..Len(t) /\ u[j] = t[j - Len(s)]
    BY <1>2, <1>7, <2>1, <2>4
  <2>5. ~(i - Len(s) \in 1..Len(t) /\ j \in 1..Len(s))
    BY <1>1, <2>1
  <2>6. QED
    BY <1>1, <2>2, <2>3, <2>4, <2>5
<1>8. QED
  BY <1>4, <1>5, <1>6, <1>7 DEF u

\* One handler at the end.
LEMMA One ==
  ASSUME NEW h \in Handler
  PROVE  /\ <<h>> \in Seq(Handler) /\ Members(<<h>>) = {h}
         /\ SingleRead(<<h>>) /\ Apart(<<h>>) /\ Ordered(<<h>>)
         /\ \A s \in Seq(Handler) : Append(s, h) = s \o <<h>>
  BY DEF Members, SingleRead, Apart, Ordered

LEMMA None ==
  /\ <<>> \in Seq(Handler) /\ Members(<<>>) = {}
  /\ SingleRead(<<>>) /\ Apart(<<>>) /\ Ordered(<<>>)
  /\ \A s \in Seq(Handler) : s \o <<>> = s
  BY DEF Members, SingleRead, Apart, Ordered

\* What respond() posts.
LEMMA Responds ==
  ASSUME TypeOK, NEW n \in {0, 1}, posted + n <= MaxAnswers
  PROVE  /\ Respond(n) \in Seq(Handler)
         /\ \A h \in Members(Respond(n)) : h.kind = "respond" /\ h.answer = posted + 1 /\ n = 1
         /\ n = 1 => \E h \in Members(Respond(n)) : h.kind = "respond" /\ h.answer = posted + 1
         /\ SingleRead(Respond(n)) /\ Apart(Respond(n)) /\ Ordered(Respond(n))
         /\ posted + n \in 0..MaxAnswers
<1>1. CASE n = 0
  <2>1. Respond(n) = <<>>
    BY <1>1 DEF Respond
  <2>2. posted + n \in 0..MaxAnswers
    BY <1>1, TcpClientAssumption DEF TypeOK
  <2>3. /\ Respond(n) \in Seq(Handler) /\ Members(Respond(n)) = {}
        /\ SingleRead(Respond(n)) /\ Apart(Respond(n)) /\ Ordered(Respond(n))
    BY <2>1, None
  <2>4. QED
    BY <1>1, <2>2, <2>3
<1>2. CASE n = 1
  <2> DEFINE h == [kind |-> "respond", answer |-> posted + 1]
  <2>1. posted + 1 \in Answer /\ posted + 1 \in 0..MaxAnswers
    BY <1>2, TcpClientAssumption DEF TypeOK, Answer
  <2>2. h \in Handler
    BY <2>1 DEF Handler
  <2>3. Respond(1) = <<h>>
    BY DEF Respond
  <2>4. /\ Respond(1) \in Seq(Handler) /\ Members(Respond(1)) = {h}
        /\ SingleRead(Respond(1)) /\ Apart(Respond(1)) /\ Ordered(Respond(1))
    BY <2>2, <2>3, One
  <2>5. h.kind = "respond" /\ h.answer = posted + 1
    OBVIOUS
  <2> HIDE DEF h
  <2>6. QED
    BY <1>2, <2>1, <2>4, <2>5
<1>3. QED
  BY <1>1, <1>2

\* What close() completes.
LEMMA Aborts ==
  ASSUME TypeOK, Ascending(sending)
  PROVE  LET a == Aborted(wanted, sending)
         IN  /\ a \in Seq(Handler) /\ Apart(a) /\ Ordered(a)
             /\ \A h \in Members(a) :
                  \/ h.kind = "read" /\ ~h.ok /\ h.bytes = <<>>
                  \/ /\ h.kind = "sent" /\ ~h.ok
                     /\ \E i \in 1..Len(sending) : sending[i] = h.answer
             /\ \A i \in 1..Len(sending) :
                  \E h \in Members(a) : h.kind # "read" /\ h.answer = sending[i]
<1> DEFINE f == [kind |-> "read", ok |-> FALSE, bytes |-> <<>>]
           s == IF wanted > 0 THEN <<f>> ELSE <<>>
           g(r) == [kind |-> "sent", answer |-> r, ok |-> FALSE]
           t == [i \in 1..Len(sending) |-> g(sending[i])]
<1>1. Aborted(wanted, sending) = s \o t
  BY DEF Aborted
<1>2. f \in Handler
  BY DEF Handler
<1>3. s \in Seq(Handler) /\ Apart(s) /\ Ordered(s) /\ \A h \in Members(s) : h = f
  BY <1>2, One, None
<1>0. sending \in Seq(Answer)
  BY DEF TypeOK
<1>4. \A i \in 1..Len(sending) : sending[i] \in Answer /\ sending[i] \in Nat
  BY <1>0, TcpClientAssumption DEF Answer
<1>5. t \in Seq(Handler) /\ Len(t) = Len(sending) /\ Len(sending) \in Nat
  <2>1. \A i \in 1..Len(sending) : g(sending[i]) \in Handler
    BY <1>4 DEF Handler
  <2>2. QED
    BY <1>0, <2>1
<1>6. \A i \in 1..Len(t) : t[i] = g(sending[i]) /\ i \in 1..Len(sending)
  BY <1>5
<1>7. Apart(t) /\ Ordered(t)
  <2>1. \A i, j \in 1..Len(sending) : sending[i] = sending[j] => i = j
    BY <1>4, <1>5 DEF Ascending
  <2>2. \A i \in 1..Len(t) :
          t[i].kind = "sent" /\ t[i].answer = sending[i] /\ i \in 1..Len(sending)
    BY <1>6
  <2> HIDE DEF t
  <2>3. QED
    BY <2>1, <2>2 DEF Apart, Ordered
<1>8. /\ \A h \in Members(t) : \E i \in 1..Len(sending) : h = g(sending[i])
      /\ \A i \in 1..Len(sending) : g(sending[i]) \in Members(t)
  BY <1>5 DEF Members
<1> HIDE DEF s, t
<1>9. /\ s \o t \in Seq(Handler) /\ Apart(s \o t) /\ Ordered(s \o t)
      /\ \A h \in Members(s \o t) : h \in Members(s) \/ h \in Members(t)
      /\ \A h \in Members(t) : h \in Members(s \o t)
  BY <1>3, <1>5, <1>7, PropertiesConcat, MembersConcat
<1>10. /\ f.kind = "read" /\ ~f.ok /\ f.bytes = <<>>
       /\ \A i \in 1..Len(sending) :
            /\ g(sending[i]).kind = "sent" /\ ~g(sending[i]).ok
            /\ g(sending[i]).answer = sending[i]
  OBVIOUS
<1> HIDE DEF f, g
<1>11. ASSUME NEW h \in Members(s \o t)
       PROVE  \/ h.kind = "read" /\ ~h.ok /\ h.bytes = <<>>
              \/ /\ h.kind = "sent" /\ ~h.ok
                 /\ \E i \in 1..Len(sending) : sending[i] = h.answer
  BY <1>3, <1>8, <1>9, <1>10
<1>12. ASSUME NEW i \in 1..Len(sending)
       PROVE  \E h \in Members(s \o t) : h.kind # "read" /\ h.answer = sending[i]
  BY <1>8, <1>9, <1>10
<1>13. QED
  BY <1>1, <1>9, <1>11, <1>12

-----------------------------------------------------------------------------
(* What a step does to the handlers. *)

-----------------------------------------------------------------------------
(* What each kind of step makes of the ready handlers. *)

\* A handler runs and gives no other.
LEMMA Taken ==
  ASSUME JInv, ready # <<>>, ready' = Tail(ready)
  PROVE  /\ Head(ready) \in Handler /\ Head(ready) \in Members(ready)
         /\ ready' \in Seq(Handler) /\ Apart(ready') /\ Ordered(ready')
         /\ \A h \in Members(ready') : h \in Members(ready)
         /\ \A h \in Members(ready) : h = Head(ready) \/ h \in Members(ready')
         /\ SingleRead(ready) =>
              /\ SingleRead(ready')
              /\ Head(ready).kind = "read" => \A h \in Members(ready') : h.kind # "read"
         /\ Head(ready).kind # "read" =>
              \A h \in Members(ready') : h.kind # "read" => h.answer # Head(ready).answer
         /\ Head(ready).kind = "respond" =>
              \A h \in Members(ready') : h.kind = "respond" => Head(ready).answer < h.answer
<1>1. ready \in Seq(Handler) /\ Apart(ready) /\ Ordered(ready)
  BY DEF JInv, TypeOK, Places
<1>2. QED
  BY <1>1, MembersTail, PropertiesTail

\* Handlers stay, and answers are posted.
LEMMA Posted ==
  ASSUME JInv, NEW n \in {0, 1}, posted + n <= MaxAnswers,
         NEW s \in Seq(Handler), Apart(s), Ordered(s),
         \A h \in Members(s) : h \in Members(ready)
  PROVE  LET u == s \o Respond(n)
         IN  /\ u \in Seq(Handler) /\ Apart(u) /\ Ordered(u)
             /\ SingleRead(s) => SingleRead(u)
             /\ \A h \in Members(s) : h \in Members(u)
             /\ \A h \in Members(u) :
                  \/ h \in Members(s)
                  \/ h.kind = "respond" /\ h.answer = posted + 1 /\ n = 1
             /\ n = 1 => \E h \in Members(u) : h.kind = "respond" /\ h.answer = posted + 1
             /\ posted + n \in 0..MaxAnswers
<1>1. TypeOK /\ posted \in Nat
  BY TcpClientAssumption DEF JInv, TypeOK
<1>2. \A h \in Members(s) : h.kind # "read" => h.answer < posted + 1
  <2>1. SUFFICES ASSUME NEW h \in Members(s), h.kind # "read" PROVE h.answer < posted + 1
    OBVIOUS
  <2>2. h \in Handler
    BY DEF Members
  <2>3. h.answer \in Nat
    BY <2>1, <2>2, TcpClientAssumption DEF Handler, Answer
  <2>4. h.answer <= posted
    BY <2>1 DEF JInv, Places
  <2>5. QED
    BY <1>1, <2>3, <2>4
<1>3. /\ Respond(n) \in Seq(Handler)
      /\ \A h \in Members(Respond(n)) : h.kind = "respond" /\ h.answer = posted + 1 /\ n = 1
      /\ n = 1 => \E h \in Members(Respond(n)) : h.kind = "respond" /\ h.answer = posted + 1
      /\ Apart(Respond(n)) /\ Ordered(Respond(n))
      /\ posted + n \in 0..MaxAnswers
  BY <1>1, Responds
<1>4. \A h \in Members(s), g \in Members(Respond(n)) :
        /\ h.kind # "read" /\ g.kind # "read" => h.answer # g.answer
        /\ h.kind = "respond" /\ g.kind = "respond" => h.answer < g.answer
  <2>1. SUFFICES ASSUME NEW h \in Members(s), h.kind # "read"
                 PROVE  h.answer # posted + 1 /\ h.answer < posted + 1
    BY <1>3
  <2>2. h \in Handler
    BY DEF Members
  <2>3. h.answer \in Nat
    BY <2>1, <2>2, TcpClientAssumption DEF Handler, Answer
  <2>4. QED
    BY <1>2, <2>1, <2>3
<1> DEFINE u == s \o Respond(n)
<1>5. /\ u \in Seq(Handler) /\ Apart(u) /\ Ordered(u)
      /\ SingleRead(s) => SingleRead(u)
  BY <1>3, <1>4, PropertiesConcat
<1>6. /\ \A h \in Members(s) : h \in Members(u)
      /\ \A h \in Members(Respond(n)) : h \in Members(u)
      /\ \A h \in Members(u) : h \in Members(s) \/ h \in Members(Respond(n))
  BY <1>3, MembersConcat
<1> HIDE DEF u
<1>7. QED
  BY <1>3, <1>5, <1>6 DEF u

LEMMA Delivered ==
  ASSUME JInv, ready # <<>>, NEW head, NEW body, NEW n, Deliver(head, body, n)
  PROVE  /\ Head(ready) \in Handler /\ Head(ready) \in Members(ready)
         /\ ready' \in Seq(Handler) /\ Apart(ready') /\ Ordered(ready')
         /\ n \in {0, 1} /\ posted' = posted + n /\ posted' \in 0..MaxAnswers
         /\ \A h \in Members(ready) : h = Head(ready) \/ h \in Members(ready')
         /\ \A h \in Members(ready') :
              \/ h \in Members(ready)
              \/ h.kind = "respond" /\ h.answer = posted + 1 /\ n = 1
         /\ n = 1 => \E h \in Members(ready') : h.kind = "respond" /\ h.answer = posted + 1
         /\ SingleRead(ready) /\ Head(ready).kind = "read" =>
              SingleRead(ready') /\ \A h \in Members(ready') : h.kind # "read"
<1>1. ready \in Seq(Handler) /\ Apart(ready) /\ Ordered(ready)
  BY DEF JInv, TypeOK, Places
<1>2. /\ Tail(ready) \in Seq(Handler) /\ Apart(Tail(ready)) /\ Ordered(Tail(ready))
      /\ Head(ready) \in Handler /\ Head(ready) \in Members(ready)
      /\ \A h \in Members(Tail(ready)) : h \in Members(ready)
      /\ \A h \in Members(ready) : h = Head(ready) \/ h \in Members(Tail(ready))
      /\ SingleRead(ready) =>
           /\ SingleRead(Tail(ready))
           /\ Head(ready).kind = "read" => \A h \in Members(Tail(ready)) : h.kind # "read"
  BY <1>1, MembersTail, PropertiesTail
<1>3. /\ n \in {0, 1} /\ posted + n <= MaxAnswers /\ posted' = posted + n
      /\ ready' = Tail(ready) \o Respond(n)
  BY DEF Deliver, MayRespond
<1>4. QED
  BY <1>2, <1>3, Posted

LEMMA Errored ==
  ASSUME JInv, ready # <<>>, NEW n, OnError(n)
  PROVE  /\ Head(ready) \in Handler /\ Head(ready) \in Members(ready)
         /\ ready' \in Seq(Handler) /\ Apart(ready') /\ Ordered(ready')
         /\ n \in {0, 1} /\ posted' = posted + n /\ posted' \in 0..MaxAnswers
         /\ state' = "closed" /\ socket' = FALSE /\ wanted' = 0 /\ sending' = <<>>
         /\ \A h \in Members(ready) : h = Head(ready) \/ h \in Members(ready')
         /\ \A h \in Members(ready') :
              \/ h \in Members(ready) /\ (Head(ready).kind # "read" /\ h.kind # "read" =>
                                            h.answer # Head(ready).answer)
              \/ h.kind = "respond" /\ h.answer = posted + 1 /\ n = 1
              \/ h.kind = "read" /\ ~h.ok /\ h.bytes = <<>>
              \/ /\ h.kind = "sent" /\ ~h.ok
                 /\ \E i \in 1..Len(sending) : sending[i] = h.answer
         /\ n = 1 => \E h \in Members(ready') : h.kind = "respond" /\ h.answer = posted + 1
         /\ \A i \in 1..Len(sending) :
              \E h \in Members(ready') : h.kind # "read" /\ h.answer = sending[i]
<1>1. /\ ready \in Seq(Handler) /\ Apart(ready) /\ Ordered(ready)
      /\ TypeOK /\ Ascending(sending) /\ posted \in Nat
  BY TcpClientAssumption DEF JInv, TypeOK, Places
<1>2. /\ Tail(ready) \in Seq(Handler) /\ Apart(Tail(ready)) /\ Ordered(Tail(ready))
      /\ Head(ready) \in Handler /\ Head(ready) \in Members(ready)
      /\ \A h \in Members(Tail(ready)) : h \in Members(ready)
      /\ \A h \in Members(ready) : h = Head(ready) \/ h \in Members(Tail(ready))
      /\ Head(ready).kind # "read" =>
           \A h \in Members(Tail(ready)) : h.kind # "read" => h.answer # Head(ready).answer
  BY <1>1, MembersTail, PropertiesTail
<1> DEFINE a == Aborted(wanted, sending)
           u == Tail(ready) \o Respond(n)
<1>3. /\ n \in {0, 1} /\ posted + n <= MaxAnswers /\ posted' = posted + n
      /\ ready' = u \o a
      /\ state' = "closed" /\ socket' = FALSE /\ wanted' = 0 /\ sending' = <<>>
  BY DEF OnError, MayRespond
<1>4. /\ u \in Seq(Handler) /\ Apart(u) /\ Ordered(u)
      /\ \A h \in Members(Tail(ready)) : h \in Members(u)
      /\ \A h \in Members(u) :
           \/ h \in Members(Tail(ready))
           \/ h.kind = "respond" /\ h.answer = posted + 1 /\ n = 1
      /\ n = 1 => \E h \in Members(u) : h.kind = "respond" /\ h.answer = posted + 1
      /\ posted + n \in 0..MaxAnswers
  BY <1>2, <1>3, Posted
<1>5. /\ a \in Seq(Handler) /\ Apart(a) /\ Ordered(a)
      /\ \A h \in Members(a) :
           \/ h.kind = "read" /\ ~h.ok /\ h.bytes = <<>>
           \/ /\ h.kind = "sent" /\ ~h.ok
              /\ \E i \in 1..Len(sending) : sending[i] = h.answer
      /\ \A i \in 1..Len(sending) :
           \E h \in Members(a) : h.kind # "read" /\ h.answer = sending[i]
  BY <1>1, Aborts
<1> HIDE DEF u, a
<1>6. \A i \in 1..Len(sending) :
        /\ sending[i] # posted + 1
        /\ \A h \in Members(ready) : h.kind # "read" => sending[i] # h.answer
  <2>1. TAKE i \in 1..Len(sending)
  <2>2. sending[i] \in Nat
    <3>1. sending \in Seq(Answer)
      BY DEF JInv, TypeOK
    <3>2. QED
      BY <3>1, TcpClientAssumption DEF Answer
  <2>3. sending[i] <= posted /\ \A h \in Members(ready) : h.kind # "read" => sending[i] # h.answer
    BY DEF JInv, Places
  <2>4. QED
    BY <1>1, <2>2, <2>3
<1>7. \A h \in Members(u), g \in Members(a) :
        /\ h.kind # "read" /\ g.kind # "read" => h.answer # g.answer
        /\ ~(h.kind = "respond" /\ g.kind = "respond")
  BY <1>2, <1>4, <1>5, <1>6
<1>8. /\ ready' \in Seq(Handler) /\ Apart(ready') /\ Ordered(ready')
      /\ \A h \in Members(u) : h \in Members(ready')
      /\ \A h \in Members(a) : h \in Members(ready')
      /\ \A h \in Members(ready') : h \in Members(u) \/ h \in Members(a)
  BY <1>3, <1>4, <1>5, <1>7, MembersConcat, PropertiesConcat
<1>10. QED
  BY <1>2, <1>3, <1>4, <1>5, <1>8

\* An operation completes.
LEMMA Completed ==
  ASSUME JInv, NEW h \in Handler, ready' = Append(ready, h),
         h.kind # "respond",
         h.kind # "read" => \A g \in Members(ready) : g.kind # "read" => g.answer # h.answer
  PROVE  /\ ready' \in Seq(Handler) /\ Apart(ready') /\ Ordered(ready')
         /\ h \in Members(ready')
         /\ \A g \in Members(ready) : g \in Members(ready')
         /\ \A g \in Members(ready') : g \in Members(ready) \/ g = h
         /\ SingleRead(ready) /\ (h.kind = "read" => \A g \in Members(ready) : g.kind # "read")
            => SingleRead(ready')
<1>1. ready \in Seq(Handler) /\ Apart(ready) /\ Ordered(ready)
  BY DEF JInv, TypeOK, Places
<1>2. /\ ready' = ready \o <<h>> /\ <<h>> \in Seq(Handler) /\ Members(<<h>>) = {h}
      /\ SingleRead(<<h>>) /\ Apart(<<h>>) /\ Ordered(<<h>>)
  BY <1>1, One
<1>3. ready' \in Seq(Handler)
  BY <1>1, <1>2, MembersConcat
<1>4. /\ \A g \in Members(ready) : g \in Members(ready')
      /\ h \in Members(ready')
      /\ \A g \in Members(ready') : g \in Members(ready) \/ g = h
  BY <1>1, <1>2, MembersConcat
<1>5. Apart(ready') /\ Ordered(ready')
  BY <1>1, <1>2, PropertiesConcat
<1>6. SingleRead(ready) /\ h.kind # "read" => SingleRead(ready')
  BY <1>1, <1>2, PropertiesConcat
<1>7. (\A g \in Members(ready) : g.kind # "read") => SingleRead(ready')
  BY <1>1, <1>2, PropertiesConcat
<1>8. QED
  BY <1>3, <1>4, <1>5, <1>6, <1>7

LEMMA Elements ==
  ASSUME NEW S, NEW s \in Seq(S)
  PROVE  \A i \in 1..Len(s) : s[i] \in S
  OBVIOUS

\* The types that the steps rest on.
LEMMA Known ==
  ASSUME JInv
  PROVE  /\ posted \in Nat /\ posted <= MaxAnswers /\ MaxAnswers \in Nat
         /\ \A r \in Answer : r \in Nat /\ called[r] \in Seq(BOOLEAN)
         /\ called \in [Answer -> Seq(BOOLEAN)]
         /\ \A h \in Members(ready) :
              h \in Handler /\ (h.kind # "read" => h.answer \in Answer /\ h.answer \in Nat)
         /\ sending \in Seq(Answer)
         /\ \A i \in 1..Len(sending) : sending[i] \in Answer /\ sending[i] \in Nat
         /\ wire \in Seq([answer : Answer, whole : BOOLEAN])
         /\ \A i \in 1..Len(wire) : wire[i].answer \in Answer /\ wire[i].answer \in Nat
         /\ sendQueue = <<>>
<1>1. posted \in Nat /\ posted <= MaxAnswers /\ MaxAnswers \in Nat
  BY TcpClientAssumption DEF JInv, TypeOK
<1>2. called \in [Answer -> Seq(BOOLEAN)] /\ \A r \in Answer : r \in Nat
  BY TcpClientAssumption DEF JInv, TypeOK, Answer
<1>3. ready \in Seq(Handler)
  BY DEF JInv, TypeOK
<1>4. ASSUME NEW h \in Members(ready)
      PROVE  h \in Handler /\ (h.kind # "read" => h.answer \in Answer /\ h.answer \in Nat)
  <2>1. h \in Handler
    BY <1>3 DEF Members
  <2>2. h.kind # "read" => h.answer \in Answer
    BY <2>1 DEF Handler
  <2>3. QED
    BY <1>2, <2>1, <2>2
<1>5. sending \in Seq(Answer) /\ wire \in Seq([answer : Answer, whole : BOOLEAN])
  BY DEF JInv, TypeOK
<1>6. /\ \A i \in 1..Len(sending) : sending[i] \in Answer
      /\ \A i \in 1..Len(wire) : wire[i].answer \in Answer
  <2> DEFINE W == [answer : Answer, whole : BOOLEAN]
  <2>1. wire \in Seq(W)
    BY <1>5
  <2> HIDE DEF W
  <2>2. \A i \in 1..Len(wire) : wire[i] \in W
    BY <2>1, Elements
  <2>3. \A w \in W : w.answer \in Answer
    BY DEF W
  <2>4. \A i \in 1..Len(sending) : sending[i] \in Answer
    BY <1>5, Elements
  <2>5. QED
    BY <2>2, <2>3, <2>4
<1>7. sendQueue = <<>>
  BY DEF JInv, IInv, NothingQueued
<1>8. QED
  BY <1>1, <1>2, <1>4, <1>5, <1>6, <1>7

\* The callback of an answer hears of it for the first time.
LEMMA Hears ==
  ASSUME JInv, ready # <<>>, Head(ready).kind # "read", NEW ok \in BOOLEAN,
         called' = [called EXCEPT ![Head(ready).answer] = Append(@, ok)]
  PROVE  /\ Head(ready).answer \in Answer /\ Head(ready).answer <= posted
         /\ called[Head(ready).answer] = <<>> /\ called'[Head(ready).answer] = <<ok>>
         /\ called' \in [Answer -> Seq(BOOLEAN)]
         /\ \A r \in Answer : r # Head(ready).answer => called'[r] = called[r]
<1>1. Head(ready) \in Members(ready)
  <2>1. ready \in Seq(Handler)
    BY DEF JInv, TypeOK
  <2>2. QED
    BY <2>1, MembersTail
<1>2. /\ Head(ready).answer \in Answer /\ Head(ready).answer <= posted
      /\ called[Head(ready).answer] = <<>> /\ called \in [Answer -> Seq(BOOLEAN)]
  BY <1>1, Known DEF JInv, Places
<1>3. Append(<<>>, ok) = <<ok>> /\ <<ok>> \in Seq(BOOLEAN)
  OBVIOUS
<1>4. called' = [called EXCEPT ![Head(ready).answer] = <<ok>>]
  BY <1>2, <1>3
<1>5. QED
  BY <1>2, <1>3, <1>4

LEMMA Verdicts == <<TRUE>> # <<FALSE>> /\ <<TRUE>> # <<>> /\ <<FALSE>> # <<>>
  OBVIOUS

\* The next answer of respond() is not yet anywhere.
LEMMA Fresh ==
  ASSUME JInv, NEW h \in Handler, h.kind = "respond", h.answer = posted + 1
  PROVE  /\ posted + 1 \in Answer /\ called[posted + 1] = <<>>
         /\ \A i \in 1..Len(sending) : sending[i] # posted + 1
<1>1. posted + 1 \in Answer
  BY DEF Handler
<1>2. posted + 1 > posted /\ \A r \in Nat : r <= posted => r # posted + 1
  BY Known
<1>3. called[posted + 1] = <<>>
  BY <1>1, <1>2 DEF JInv, Places
<1>4. \A i \in 1..Len(sending) : sending[i] # posted + 1
  BY <1>2, Known DEF JInv, Places
<1>5. QED
  BY <1>1, <1>3, <1>4

\* Reads come and go and answers are posted; those that are being sent, on the
\* wire or reported stay.
LEMMA AnswersPosted ==
  ASSUME JInv, NEW n \in {0, 1}, posted' = posted + n, UNCHANGED <<sending, wire, called>>,
         ready' \in Seq(Handler), Apart(ready'), Ordered(ready'),
         \A h \in Members(ready) : h.kind # "read" => h \in Members(ready'),
         \A h \in Members(ready') :
           \/ h.kind = "read"
           \/ h \in Members(ready)
           \/ h.kind = "respond" /\ h.answer = posted + 1 /\ n = 1,
         n = 1 => \E h \in Members(ready') : h.kind = "respond" /\ h.answer = posted + 1
  PROVE  Places' /\ Reporting' /\ Wiring'
<1>1. /\ posted \in Nat /\ posted <= posted'
      /\ \A r \in Nat :
           /\ r <= posted => r <= posted' /\ r < posted + 1
           /\ r > posted' => r > posted
           /\ r <= posted' => r <= posted \/ (r = posted + 1 /\ n = 1)
  BY Known
<1>2. ASSUME NEW x \in Members(ready'), x.kind = "respond", x.answer = posted + 1, n = 1
      PROVE  /\ posted + 1 \in Answer /\ called[posted + 1] = <<>>
             /\ \A i \in 1..Len(sending) : sending[i] # posted + 1
  <2>1. x \in Handler
    BY DEF Members
  <2>2. QED
    BY <1>2, <2>1, Fresh
<1>3. Places'
  <2>1. Apart(ready') /\ Ordered(ready') /\ Ascending(sending')
    BY DEF JInv, Places, Ascending
  <2>2. ASSUME NEW x \in Members(ready'), x.kind # "read"
        PROVE  /\ x.answer <= posted' /\ called'[x.answer] = <<>>
               /\ \A i \in 1..Len(sending') : sending'[i] # x.answer
    <3>1. CASE x.kind = "respond" /\ x.answer = posted + 1 /\ n = 1
      BY <1>1, <1>2, <3>1
    <3>2. CASE x \in Members(ready)
      BY <2>2, <3>2, Known DEF JInv, Places
    <3>3. QED
      BY <2>2, <3>1, <3>2
  <2>3. ASSUME NEW i \in 1..Len(sending')
        PROVE  sending'[i] <= posted' /\ called'[sending'[i]] = <<>>
    BY <1>1, <2>3, Known DEF JInv, Places
  <2>4. ASSUME NEW r \in Answer, r > posted' PROVE called'[r] = <<>>
    BY <1>1, <2>4, Known DEF JInv, Places
  <2>5. QED
    BY <2>1, <2>2, <2>3, <2>4 DEF Places
<1>4. Reporting'
  <2>1. ASSUME NEW r \in Answer, r <= posted', called'[r] = <<>>
        PROVE  \/ \E x \in Members(ready') : x.kind # "read" /\ x.answer = r
               \/ \E i \in 1..Len(sending') : sending'[i] = r
    <3>1. CASE r <= posted
      <4>1. \/ \E x \in Members(ready) : x.kind # "read" /\ x.answer = r
            \/ \E i \in 1..Len(sending) : sending[i] = r
        BY <2>1, <3>1 DEF JInv, Reporting
      <4>2. QED
        BY <4>1
    <3>2. CASE r = posted + 1 /\ n = 1
      BY <3>2
    <3>3. QED
      BY <2>1, <3>1, Known
  <2>2. QED
    BY <2>1 DEF JInv, Reporting
<1>5. Wiring'
  <2>1. \A i \in 1..Len(wire) : wire[i].answer <= posted' /\ wire[i].answer < posted + 1
    BY <1>1, Known DEF JInv, Wiring
  <2>2. \A i \in 1..Len(sending) : sending[i] < posted + 1
    BY <1>1, Known DEF JInv, Places
  <2>3. ASSUME NEW x \in Members(ready'), x.kind = "respond"
        PROVE  /\ \A i \in 1..Len(wire) : wire[i].answer < x.answer
               /\ \A i \in 1..Len(sending) : sending[i] < x.answer
    BY <2>1, <2>2, <2>3 DEF JInv, Wiring
  <2>5. \A r : IsSent(r) => IsSent(r)'
    BY DEF IsSent
  <2>6. QED
    BY <2>1, <2>3, <2>5 DEF JInv, Wiring
<1>6. QED
  BY <1>3, <1>4, <1>5

-----------------------------------------------------------------------------
(* The steps. *)

\* The first read is started on a connection that has read nothing.
LEMMA StartKeeps ==
  ASSUME JInv, Start
  PROVE  TypeOK' /\ Life' /\ Bytes' /\ Reads' /\ Places' /\ Reporting' /\ Wiring'
<1>1. UNCHANGED <<ready, socket, header, sent, stream, delivered, posted, sendQueue, sending, wire, called, hooks>>
  BY DEF Start
<1>2. TypeOK'
  BY <1>1 DEF JInv, TypeOK, State, Start, IsOpen
<1>3. Life'
  BY <1>1 DEF JInv, Life, Start, IsOpen
<1>4. Bytes'
  BY <1>1 DEF JInv, Bytes, Start, IsOpen
<1>5. Reads'
  <2>1. /\ ready' = <<>> /\ wanted' = HeaderSize /\ HeaderSize > 0
        /\ state' = "reading_header" /\ socket'
    BY TcpClientAssumption DEF Start, JInv, Life
  <2>2. Members(ready') = {} /\ SingleRead(ready')
    BY <2>1, None
  <2>3. QED
    BY <2>1, <2>2 DEF Reads, IsOpen
<1>6. Places' /\ Reporting' /\ Wiring'
  <2>1. posted' = posted + 0 /\ ready' = ready
    BY <1>1, Known
  <2>2. ready \in Seq(Handler) /\ Apart(ready) /\ Ordered(ready)
    BY DEF JInv, TypeOK, Places
  <2>3. QED
    BY <1>1, <2>1, <2>2, AnswersPosted
<1>7. QED
  BY <1>2, <1>3, <1>4, <1>5, <1>6

\* A connection that is dropped has nothing under way.
LEMMA StartThrowsKeeps ==
  ASSUME JInv, StartThrows
  PROVE  TypeOK' /\ Life' /\ Bytes' /\ Reads' /\ Places' /\ Reporting' /\ Wiring'
<1>1. UNCHANGED <<ready, state, wanted, header, sent, stream, delivered, posted, sendQueue, sending, wire, called, hooks>>
  BY DEF StartThrows
<1>2. TypeOK'
  BY <1>1 DEF JInv, TypeOK, State, StartThrows, IsOpen
<1>3. Life'
  BY <1>1 DEF JInv, Life, StartThrows, IsOpen
<1>4. Bytes'
  BY <1>1 DEF JInv, Bytes, StartThrows, IsOpen
<1>5. Reads'
  <2>1. wanted' = 0 /\ state' = "idle"
    BY DEF StartThrows, JInv, Life
  <2>2. QED
    BY <2>1 DEF Reads, IsOpen
<1>6. Places' /\ Reporting' /\ Wiring'
  <2>1. posted' = posted + 0 /\ ready' = ready
    BY <1>1, Known
  <2>2. ready \in Seq(Handler) /\ Apart(ready) /\ Ordered(ready)
    BY DEF JInv, TypeOK, Places
  <2>3. QED
    BY <1>1, <2>1, <2>2, AnswersPosted
<1>7. QED
  BY <1>2, <1>3, <1>4, <1>5, <1>6

\* The header's bytes are of a message the client has sent, so that the size it
\* names, once on_body_size has let it pass, bounds the next read.
LEMMA ReadHeaderKeeps ==
  ASSUME JInv, ReadHeader
  PROVE  TypeOK' /\ Life' /\ Bytes' /\ Reads' /\ Places' /\ Reporting' /\ Wiring'
<1>1. ready # <<>> /\ Head(ready).kind = "read" /\ ready' = Tail(ready)
  BY DEF ReadHeader, ReadOk, Running
<1>2. /\ Head(ready) \in Handler /\ Head(ready) \in Members(ready)
      /\ ready' \in Seq(Handler) /\ Apart(ready') /\ Ordered(ready')
      /\ \A h \in Members(ready') : h \in Members(ready)
      /\ \A h \in Members(ready) : h = Head(ready) \/ h \in Members(ready')
      /\ SingleRead(ready) =>
           SingleRead(ready') /\ \A h \in Members(ready') : h.kind # "read"
  BY <1>1, Taken
<1>3. UNCHANGED <<socket, sent, stream, delivered, posted, sendQueue, sending, wire, called, hooks>>
  BY DEF ReadHeader
<1>4. TypeOK'
  <2> DEFINE b == Head(ready).bytes
  <2>1. /\ Head(ready).ok /\ state = "reading_header" /\ BodySize(b) > 0 /\ ~TooLarge(b)
        /\ header' = b /\ wanted' = BodySize(b) /\ state' = "reading_body"
    BY DEF ReadHeader, ReadOk
  <2>2. b \in Seq(Byte)
    BY <1>1, <1>2 DEF Handler
  <2>3. Len(b) = HeaderSize
    BY <1>1, <1>2, <2>1 DEF JInv, Reads
  <2>4. b[HeaderSize].msg \in 1..Len(sent)
    <3>1. HeaderSize \in 1..Len(b)
      BY <2>3, TcpClientAssumption
    <3>2. QED
      BY <1>1, <1>2, <3>1 DEF JInv, Bytes
  <2>5. sent \in Seq(BodySizes)
    BY DEF JInv, TypeOK
  <2>6. BodySize(b) \in BodySizes
    BY <2>4, <2>5, Elements DEF BodySize
  <2>7. BodySize(b) \in 1..MaxBody
    <3>1. BodySize(b) \in Nat /\ MaxBody \in Nat
      BY <2>6, TcpClientAssumption
    <3>2. ~(BodySize(b) > MaxBody)
      BY <2>1 DEF TooLarge
    <3> HIDE DEF b
    <3>3. QED
      BY <2>1, <3>1, <3>2
  <2> HIDE DEF b
  <2>8. QED
    BY <1>2, <1>3, <2>1, <2>2, <2>7 DEF JInv, TypeOK, State
<1>5. Life'
  BY <1>1, <1>2, <1>3 DEF JInv, Life, ReadHeader, ReadOk, IsOpen
<1>6. Bytes'
  BY <1>1, <1>2, <1>3 DEF JInv, Bytes, ReadHeader, ReadOk, IsOpen
<1>7. Reads'
  BY <1>1, <1>2, <1>3 DEF JInv, Reads, TypeOK, ReadHeader, ReadOk, IsOpen
<1>8. Places' /\ Reporting' /\ Wiring'
  <2>1. posted' = posted + 0
    BY <1>3, Known
  <2>2. QED
    BY <1>1, <1>2, <1>3, <2>1, AnswersPosted
<1>9. QED
  BY <1>4, <1>5, <1>6, <1>7, <1>8

\* The command may answer; the next read is of a header.
LEMMA ReadEmptyRequestKeeps ==
  ASSUME JInv, ReadEmptyRequest
  PROVE  TypeOK' /\ Life' /\ Bytes' /\ Reads' /\ Places' /\ Reporting' /\ Wiring'
<1>1. ready # <<>> /\ Head(ready).kind = "read"
  BY DEF ReadEmptyRequest, ReadOk, Running
<1>2. PICK n \in {0, 1} : Deliver(Head(ready).bytes, Head(ready).bytes, n)
  BY DEF ReadEmptyRequest
<1>3. /\ Head(ready) \in Handler /\ Head(ready) \in Members(ready)
      /\ ready' \in Seq(Handler) /\ Apart(ready') /\ Ordered(ready')
      /\ n \in {0, 1} /\ posted' = posted + n /\ posted' \in 0..MaxAnswers
      /\ \A h \in Members(ready) : h = Head(ready) \/ h \in Members(ready')
      /\ \A h \in Members(ready') :
           \/ h \in Members(ready)
           \/ h.kind = "respond" /\ h.answer = posted + 1 /\ n = 1
      /\ n = 1 => \E h \in Members(ready') : h.kind = "respond" /\ h.answer = posted + 1
      /\ SingleRead(ready) =>
           SingleRead(ready') /\ \A h \in Members(ready') : h.kind # "read"
  BY <1>1, <1>2, Delivered
<1>4. UNCHANGED <<state, socket, sent, stream, sendQueue, sending, wire, called, hooks>>
  BY <1>2 DEF ReadEmptyRequest, Deliver
<1>5. TypeOK'
  <2>1. Head(ready).bytes \in Seq(Byte) /\ header \in Seq(Byte) /\ delivered \in Seq(Request)
    BY <1>1, <1>3 DEF Handler, JInv, TypeOK
  <2>2. delivered' = Append(delivered, [header |-> Head(ready).bytes, body |-> Head(ready).bytes])
    BY <1>2 DEF Deliver
  <2>3. [header |-> Head(ready).bytes, body |-> Head(ready).bytes] \in Request
    BY <2>1 DEF Request
  <2>4. delivered' \in Seq(Request)
    BY <2>1, <2>2, <2>3
  <2>5. header' \in Seq(Byte) /\ wanted' = HeaderSize /\ state' = "reading_header"
    BY <2>1 DEF ReadEmptyRequest, ReadOk
  <2>6. QED
    BY <1>3, <1>4, <2>4, <2>5 DEF JInv, TypeOK
<1>6. Life'
  BY DEF Life, ReadEmptyRequest, ReadOk, IsOpen, Deliver
<1>7. Bytes'
  BY <1>3 DEF JInv, Bytes, ReadEmptyRequest, IsOpen, Deliver
<1>8. Reads'
  <2>1. /\ socket /\ state \notin {"idle", "closed"} /\ SingleRead(ready)
        /\ wanted' = HeaderSize /\ HeaderSize > 0 /\ state' = "reading_header"
    BY TcpClientAssumption DEF ReadEmptyRequest, ReadOk, IsOpen, JInv, Reads
  <2>2. SingleRead(ready') /\ \A x \in Members(ready') : x.kind # "read"
    BY <1>3, <2>1
  <2>3. QED
    BY <1>4, <2>1, <2>2 DEF Reads, IsOpen
<1>9. Places' /\ Reporting' /\ Wiring'
  BY <1>1, <1>3, <1>4, AnswersPosted
<1>10. QED
  BY <1>5, <1>6, <1>7, <1>8, <1>9

\* The command may answer; the next read is of a header.
LEMMA ReadBodyKeeps ==
  ASSUME JInv, ReadBody
  PROVE  TypeOK' /\ Life' /\ Bytes' /\ Reads' /\ Places' /\ Reporting' /\ Wiring'
<1>1. ready # <<>> /\ Head(ready).kind = "read"
  BY DEF ReadBody, ReadOk, Running
<1>2. PICK n \in {0, 1} : Deliver(header, Head(ready).bytes, n)
  BY DEF ReadBody
<1>3. /\ Head(ready) \in Handler /\ Head(ready) \in Members(ready)
      /\ ready' \in Seq(Handler) /\ Apart(ready') /\ Ordered(ready')
      /\ n \in {0, 1} /\ posted' = posted + n /\ posted' \in 0..MaxAnswers
      /\ \A h \in Members(ready) : h = Head(ready) \/ h \in Members(ready')
      /\ \A h \in Members(ready') :
           \/ h \in Members(ready)
           \/ h.kind = "respond" /\ h.answer = posted + 1 /\ n = 1
      /\ n = 1 => \E h \in Members(ready') : h.kind = "respond" /\ h.answer = posted + 1
      /\ SingleRead(ready) =>
           SingleRead(ready') /\ \A h \in Members(ready') : h.kind # "read"
  BY <1>1, <1>2, Delivered
<1>4. UNCHANGED <<header, socket, sent, stream, sendQueue, sending, wire, called, hooks>>
  BY <1>2 DEF ReadBody, Deliver
<1>5. TypeOK'
  <2>1. Head(ready).bytes \in Seq(Byte) /\ header \in Seq(Byte) /\ delivered \in Seq(Request)
    BY <1>1, <1>3 DEF Handler, JInv, TypeOK
  <2>2. delivered' = Append(delivered, [header |-> header, body |-> Head(ready).bytes])
    BY <1>2 DEF Deliver
  <2>3. [header |-> header, body |-> Head(ready).bytes] \in Request
    BY <2>1 DEF Request
  <2>4. delivered' \in Seq(Request)
    BY <2>1, <2>2, <2>3
  <2>5. header' \in Seq(Byte) /\ wanted' = HeaderSize /\ state' = "reading_header"
    BY <2>1 DEF ReadBody
  <2>6. QED
    BY <1>3, <1>4, <2>4, <2>5 DEF JInv, TypeOK, State
<1>6. Life'
  BY DEF Life, ReadBody, ReadOk, IsOpen, Deliver
<1>7. Bytes'
  BY <1>3 DEF JInv, Bytes, ReadBody, IsOpen, Deliver
<1>8. Reads'
  <2>1. /\ socket /\ state \notin {"idle", "closed"} /\ SingleRead(ready)
        /\ wanted' = HeaderSize /\ HeaderSize > 0 /\ state' = "reading_header"
    BY TcpClientAssumption DEF ReadBody, ReadOk, IsOpen, JInv, Reads
  <2>2. SingleRead(ready') /\ \A x \in Members(ready') : x.kind # "read"
    BY <1>3, <2>1
  <2>3. QED
    BY <1>4, <2>1, <2>2 DEF Reads, IsOpen
<1>9. Places' /\ Reporting' /\ Wiring'
  BY <1>1, <1>3, <1>4, AnswersPosted
<1>10. QED
  BY <1>5, <1>6, <1>7, <1>8, <1>9

\* What was under way completes with operation_aborted: the sends that close()
\* takes away come back as handlers.
LEMMA ReadErrorKeeps ==
  ASSUME JInv, ReadError
  PROVE  TypeOK' /\ Life' /\ Bytes' /\ Reads' /\ Places' /\ Reporting' /\ Wiring'
<1>1. ready # <<>> /\ Head(ready).kind = "read" /\ IsOpen
  BY DEF ReadError, Running
<1>2. PICK n \in {0, 1} : OnError(n)
  BY DEF ReadError
<1>3. /\ Head(ready) \in Handler /\ Head(ready) \in Members(ready)
      /\ ready' \in Seq(Handler) /\ Apart(ready') /\ Ordered(ready')
      /\ n \in {0, 1} /\ posted' = posted + n /\ posted' \in 0..MaxAnswers
      /\ state' = "closed" /\ socket' = FALSE /\ wanted' = 0 /\ sending' = <<>>
      /\ \A h \in Members(ready) : h = Head(ready) \/ h \in Members(ready')
      /\ \A h \in Members(ready') :
           \/ h \in Members(ready) /\ (Head(ready).kind # "read" /\ h.kind # "read" =>
                                         h.answer # Head(ready).answer)
           \/ h.kind = "respond" /\ h.answer = posted + 1 /\ n = 1
           \/ h.kind = "read" /\ ~h.ok /\ h.bytes = <<>>
           \/ /\ h.kind = "sent" /\ ~h.ok
              /\ \E i \in 1..Len(sending) : sending[i] = h.answer
      /\ n = 1 => \E h \in Members(ready') : h.kind = "respond" /\ h.answer = posted + 1
      /\ \A i \in 1..Len(sending) :
           \E h \in Members(ready') : h.kind # "read" /\ h.answer = sending[i]
  BY <1>1, <1>2, Errored
<1>4. /\ posted \in Nat /\ posted' \in Nat /\ posted <= posted'
       /\ (posted' = posted \/ posted' = posted + 1)
  BY <1>3, Known
<1>5. \A r \in Nat :
         /\ r <= posted => r <= posted' /\ r < posted + 1
         /\ r > posted' => r > posted
         /\ r <= posted' => r <= posted \/ r = posted'
  BY <1>4
<1>6. ASSUME NEW x \in Members(ready'), x.kind = "respond", x.answer = posted + 1, n = 1
       PROVE  /\ posted + 1 \in Answer /\ posted' = posted + 1 /\ called[posted + 1] = <<>>
              /\ \A i \in 1..Len(sending) : sending[i] # posted + 1
  <2>1. x \in Handler
    BY <1>3, <1>6 DEF Members
  <2>2. QED
    BY <1>3, <1>6, <2>1, Fresh
<1>7. UNCHANGED <<sent, stream, delivered, sendQueue, wire, called>>
  BY DEF ReadError
<1>8. TypeOK'
  <2>1. header \in Seq(Byte) /\ Head(ready).bytes \in Seq(Byte)
    BY <1>1, <1>3 DEF Handler, JInv, TypeOK
  <2>2. header' \in Seq(Byte)
    BY <2>1 DEF ReadError
  <2>3. hooks' \in Nat
    BY <1>2 DEF OnError, JInv, TypeOK
  <2>4. /\ sending' \in Seq(Answer) /\ state' \in State /\ socket' \in BOOLEAN
        /\ wanted' \in {0, HeaderSize} \cup 1..MaxBody
    <3>1. \A S : <<>> \in Seq(S)
      OBVIOUS
    <3>2. QED
      BY <1>3, <3>1 DEF State
  <2>5. QED
    BY <1>3, <1>7, <2>2, <2>3, <2>4 DEF JInv, TypeOK
<1>9. Life'
  BY <1>3 DEF Life
<1>10. Bytes'
  BY <1>3 DEF JInv, Bytes, ReadError, IsOpen
<1>11. Reads'
  BY <1>3 DEF Reads, TypeOK, ReadError, IsOpen
<1>12. Places'
  <2>1. Apart(ready') /\ Ordered(ready') /\ Ascending(sending')
    BY <1>3 DEF JInv, Places, Ascending
  <2>2. ASSUME NEW x \in Members(ready'), x.kind # "read"
        PROVE  /\ x.answer <= posted' /\ called'[x.answer] = <<>>
               /\ \A i \in 1..Len(sending') : sending'[i] # x.answer
    <3>1. CASE x.kind = "respond" /\ x.answer = posted + 1 /\ n = 1
      BY <1>3, <1>6, <1>7, <3>1, Known
    <3>2. CASE x \in Members(ready) /\ (Head(ready).kind # "read" => x.answer # Head(ready).answer)
      BY <1>3, <1>7, <2>2, <3>2, Known DEF JInv, Places
    <3>3. CASE \E i \in 1..Len(sending) : sending[i] = x.answer
      <4>1. PICK i \in 1..Len(sending) : sending[i] = x.answer
        BY <3>3
      <4>2. sending[i] <= posted /\ called[sending[i]] = <<>> /\ sending[i] \in Nat /\ sending[i] \in Answer
        BY Known DEF JInv, Places
      <4>4. QED
        BY <1>3, <1>5, <1>7, <4>1, <4>2
    <3>4. QED
      BY <1>3, <2>2, <3>1, <3>2, <3>3
  <2>3. ASSUME NEW i \in 1..Len(sending')
        PROVE  sending'[i] <= posted' /\ called'[sending'[i]] = <<>>
    BY <1>3, Known DEF JInv, Places, Ascending
  <2>4. ASSUME NEW r \in Answer, r > posted' PROVE called'[r] = <<>>
    BY <2>4, <1>5, <1>7, Known DEF JInv, Places, Ascending
  <2>5. QED
    BY <2>1, <2>2, <2>3, <2>4 DEF Places
<1>13. Reporting'
  <2>1. ASSUME NEW r \in Answer PROVE called'[r] \in {<<>>, <<TRUE>>, <<FALSE>>}
    BY <1>7, Known DEF JInv, Reporting, Places
  <2>2. ASSUME NEW r \in Answer, r <= posted', called'[r] = <<>>
        PROVE  \/ \E x \in Members(ready') : x.kind # "read" /\ x.answer = r
               \/ \E i \in 1..Len(sending') : sending'[i] = r
    <3>1. CASE r <= posted
      <4>1. called[r] = <<>>
        BY <1>7, <2>2
      <4>2. CASE \E x \in Members(ready) : x.kind # "read" /\ x.answer = r
        BY <1>1, <1>3, <4>2
      <4>3. CASE \E i \in 1..Len(sending) : sending[i] = r
        BY <1>3, <1>7, <4>3
      <4>4. QED
        BY <3>1, <4>1, <4>2, <4>3 DEF JInv, Reporting
    <3>2. CASE r = posted' /\ posted' # posted
      BY <1>3, <1>4, <3>2
    <3>3. QED
      BY <1>5, <2>2, <3>1, <3>2, Known
  <2>3. QED
    BY <2>1, <2>2 DEF Reporting
<1>14. Wiring'
  <2>1. ASSUME NEW i \in 1..Len(wire'), NEW j \in 1..Len(wire'), i < j
        PROVE  wire'[i].answer < wire'[j].answer
    BY <2>1, <1>7, Known DEF JInv, Wiring, IsSent, Places
  <2>2. ASSUME NEW i \in 1..Len(wire')
        PROVE  /\ wire'[i].answer <= posted'
               /\ \A j \in 1..Len(sending') : wire'[i].answer < sending'[j]
    <3>1. wire[i].answer <= posted /\ wire[i].answer \in Nat
      BY <1>7, Known DEF JInv, Wiring
    <3>2. QED
      BY <1>3, <1>5, <1>7, <3>1
  <2>3. ASSUME NEW i \in 1..Len(wire'), NEW x \in Members(ready'), x.kind = "respond"
        PROVE  wire'[i].answer < x.answer
    <3>1. wire[i].answer <= posted /\ wire[i].answer \in Nat
      BY <1>7, Known DEF JInv, Wiring
    <3>2. CASE x \in Members(ready)
      BY <1>7, <2>3, <3>2 DEF JInv, Wiring
    <3>3. CASE x.answer = posted + 1
      BY <1>5, <1>7, <3>1, <3>3
    <3>4. QED
      BY <1>3, <2>3, <3>2, <3>3
  <2>4. ASSUME NEW i \in 1..Len(sending'), NEW x \in Members(ready'), x.kind = "respond"
        PROVE  sending'[i] < x.answer
    BY <1>3, Known DEF JInv, Wiring, IsSent, Places
  <2>5. ASSUME NEW x \in Members(ready'), x.kind = "sent", x.ok PROVE IsSent(x.answer)'
    BY <2>5, <1>3, <1>7, Known DEF JInv, Wiring, IsSent, Places
  <2>6. ASSUME NEW r \in Answer, called'[r] = <<TRUE>> PROVE IsSent(r)'
    BY <1>7, <2>6 DEF JInv, Wiring, IsSent
  <2>7. QED
    BY <2>1, <2>2, <2>3, <2>4, <2>5, <2>6 DEF Wiring
<1>15. QED
  BY <1>8, <1>9, <1>10, <1>11, <1>12, <1>13, <1>14

\* Nothing reads on a connection that is closed.
LEMMA ReadAfterCloseKeeps ==
  ASSUME JInv, ReadAfterClose
  PROVE  TypeOK' /\ Life' /\ Bytes' /\ Reads' /\ Places' /\ Reporting' /\ Wiring'
<1>1. ready # <<>> /\ Head(ready).kind = "read" /\ ready' = Tail(ready)
  BY DEF ReadAfterClose, Running
<1>2. /\ Head(ready) \in Handler /\ Head(ready) \in Members(ready)
      /\ ready' \in Seq(Handler) /\ Apart(ready') /\ Ordered(ready')
      /\ \A h \in Members(ready') : h \in Members(ready)
      /\ \A h \in Members(ready) : h = Head(ready) \/ h \in Members(ready')
      /\ SingleRead(ready) =>
           SingleRead(ready') /\ \A h \in Members(ready') : h.kind # "read"
  BY <1>1, Taken
<1>3. UNCHANGED <<state, socket, wanted, header, sent, stream, delivered, posted, sendQueue, sending, wire, called, hooks>>
  BY DEF ReadAfterClose
<1>4. TypeOK'
  BY <1>1, <1>2, <1>3 DEF JInv, TypeOK, State, ReadAfterClose, IsOpen
<1>5. Life'
  BY <1>1, <1>2, <1>3 DEF JInv, Life, ReadAfterClose, IsOpen
<1>6. Bytes'
  BY <1>1, <1>2, <1>3 DEF JInv, Bytes, ReadAfterClose, IsOpen
<1>7. Reads'
  BY <1>1, <1>2, <1>3 DEF JInv, Reads, TypeOK, ReadAfterClose, IsOpen
<1>8. Places' /\ Reporting' /\ Wiring'
  <2>1. posted' = posted + 0
    BY <1>3, Known
  <2>2. QED
    BY <1>1, <1>2, <1>3, <2>1, AnswersPosted
<1>9. QED
  BY <1>4, <1>5, <1>6, <1>7, <1>8

\* The answer that starts is younger than those under way.
LEMMA StartSendKeeps ==
  ASSUME JInv, StartSend
  PROVE  TypeOK' /\ Life' /\ Bytes' /\ Reads' /\ Places' /\ Reporting' /\ Wiring'
<1>1. ready # <<>> /\ Head(ready).kind = "respond" /\ ready' = Tail(ready)
  BY DEF StartSend, Running
<1>2. /\ Head(ready) \in Handler /\ Head(ready) \in Members(ready)
      /\ ready' \in Seq(Handler) /\ Apart(ready') /\ Ordered(ready')
      /\ \A h \in Members(ready') : h \in Members(ready)
      /\ \A h \in Members(ready) : h = Head(ready) \/ h \in Members(ready')
      /\ SingleRead(ready) => SingleRead(ready')
      /\ \A h \in Members(ready') : h.kind # "read" => h.answer # Head(ready).answer
      /\ \A h \in Members(ready') : h.kind = "respond" => Head(ready).answer < h.answer
  BY <1>1, Taken
<1>3. sending' = Append(sending, Head(ready).answer) /\ sendQueue' = <<>>
  BY <1>2 DEF JInv, IInv, NothingQueued, StartSend, SendNext
<1>4. /\ Head(ready).answer \in Answer /\ Head(ready).answer <= posted
      /\ called[Head(ready).answer] = <<>>
      /\ \A i \in 1..Len(sending) : sending[i] < Head(ready).answer
  BY <1>1, <1>2, Known DEF JInv, Places, Wiring
<1>5. /\ sending' \in Seq(Answer) /\ Len(sending) \in Nat /\ Len(sending') = Len(sending) + 1
      /\ \A i \in 1..Len(sending') :
           \/ i \in 1..Len(sending) /\ sending'[i] = sending[i]
           \/ i = Len(sending) + 1 /\ sending'[i] = Head(ready).answer
  BY <1>3, <1>4, Known
<1>6. UNCHANGED <<state, socket, wanted, header, sent, stream, delivered, posted, wire, called, hooks>>
  BY DEF StartSend
<1>7. TypeOK'
  <2>1. sendQueue' \in Seq(Answer)
    BY <1>3
  <2>2. QED
    BY <1>2, <1>5, <1>6, <2>1 DEF JInv, TypeOK
<1>8. Life'
  BY <1>1 DEF JInv, Life, StartSend, IsOpen
<1>9. Bytes'
  BY <1>2 DEF JInv, Bytes, StartSend, IsOpen
<1>10. Reads'
  BY <1>1, <1>2 DEF JInv, Reads, TypeOK, StartSend, IsOpen
<1>11. Places'
  <2>1. Apart(ready') /\ Ordered(ready') /\ Ascending(sending')
    <3>1. ASSUME NEW i \in 1..Len(sending'), NEW j \in 1..Len(sending'), i < j
          PROVE  sending'[i] < sending'[j]
      <4>1. i \in 1..Len(sending) /\ sending'[i] = sending[i]
        BY <1>5, <3>1
      <4>2. CASE j \in 1..Len(sending) /\ sending'[j] = sending[j]
        BY <3>1, <4>1, <4>2 DEF JInv, Places, Ascending
      <4>3. CASE sending'[j] = Head(ready).answer
        BY <1>4, <4>1, <4>3
      <4>4. QED
        BY <1>5, <4>2, <4>3
    <3>2. QED
      BY <1>2, <3>1 DEF Ascending
  <2>2. ASSUME NEW x \in Members(ready'), x.kind # "read"
        PROVE  /\ x.answer <= posted' /\ called'[x.answer] = <<>>
               /\ \A i \in 1..Len(sending') : sending'[i] # x.answer
    BY <2>2, <1>2, <1>5, <1>6 DEF JInv, Places, Ascending
  <2>3. ASSUME NEW i \in 1..Len(sending')
        PROVE  sending'[i] <= posted' /\ called'[sending'[i]] = <<>>
    <3>1. CASE i \in 1..Len(sending) /\ sending'[i] = sending[i]
      BY <1>6, <3>1 DEF JInv, Places
    <3>2. CASE sending'[i] = Head(ready).answer
      BY <1>4, <1>6, <3>2
    <3>3. QED
      BY <1>5, <3>1, <3>2
  <2>4. ASSUME NEW r \in Answer, r > posted' PROVE called'[r] = <<>>
    BY <2>4, <1>6 DEF JInv, Places, Ascending
  <2>5. QED
    BY <2>1, <2>2, <2>3, <2>4 DEF Places
<1>12. Reporting'
  <2>1. ASSUME NEW r \in Answer PROVE called'[r] \in {<<>>, <<TRUE>>, <<FALSE>>}
    BY <1>6 DEF JInv, Reporting, Places
  <2>2. ASSUME NEW r \in Answer, r <= posted', called'[r] = <<>>
        PROVE  \/ \E x \in Members(ready') : x.kind # "read" /\ x.answer = r
               \/ \E i \in 1..Len(sending') : sending'[i] = r
    <3>1. r <= posted /\ called[r] = <<>>
      BY <1>6, <2>2
    <3>2. CASE \E x \in Members(ready) : x.kind # "read" /\ x.answer = r
      <4>1. PICK x \in Members(ready) : x.kind # "read" /\ x.answer = r
        BY <3>2
      <4>2. CASE x = Head(ready)
        <5>1. Len(sending) + 1 \in 1..Len(sending') /\ sending'[Len(sending) + 1] = r
          BY <1>3, <4>1, <4>2
        <5>2. QED
          BY <5>1
      <4>3. QED
        BY <1>2, <4>1, <4>2
    <3>3. CASE \E i \in 1..Len(sending) : sending[i] = r
      <4>1. PICK i \in 1..Len(sending) : sending[i] = r
        BY <3>3
      <4>2. i \in 1..Len(sending') /\ sending'[i] = r
        BY <1>3, <4>1
      <4>3. QED
        BY <4>2
    <3>4. QED
      BY <3>1, <3>2, <3>3 DEF JInv, Reporting
  <2>3. QED
    BY <2>1, <2>2 DEF Reporting
<1>13. Wiring'
  <2>1. ASSUME NEW i \in 1..Len(wire'), NEW j \in 1..Len(wire'), i < j
        PROVE  wire'[i].answer < wire'[j].answer
    BY <2>1, <1>6 DEF JInv, Wiring, IsSent, Places
  <2>2. ASSUME NEW i \in 1..Len(wire')
        PROVE  /\ wire'[i].answer <= posted'
               /\ \A j \in 1..Len(sending') : wire'[i].answer < sending'[j]
    BY <1>1, <1>2, <1>5, <1>6 DEF JInv, Wiring, IsSent, Places
  <2>3. ASSUME NEW i \in 1..Len(wire'), NEW x \in Members(ready'), x.kind = "respond"
        PROVE  wire'[i].answer < x.answer
    BY <2>3, <1>2, <1>6 DEF JInv, Wiring, IsSent, Places
  <2>4. ASSUME NEW i \in 1..Len(sending'), NEW x \in Members(ready'), x.kind = "respond"
        PROVE  sending'[i] < x.answer
    BY <2>4, <1>2, <1>5 DEF JInv, Wiring, IsSent, Places
  <2>5. ASSUME NEW x \in Members(ready'), x.kind = "sent", x.ok PROVE IsSent(x.answer)'
    BY <2>5, <1>2, <1>6 DEF JInv, Wiring, IsSent, Places
  <2>6. ASSUME NEW r \in Answer, called'[r] = <<TRUE>> PROVE IsSent(r)'
    BY <2>6, <1>6 DEF JInv, Wiring, IsSent, Places
  <2>7. QED
    BY <2>1, <2>2, <2>3, <2>4, <2>5, <2>6 DEF Wiring
<1>14. QED
  BY <1>7, <1>8, <1>9, <1>10, <1>11, <1>12, <1>13

\* The callback hears not_connected once.
LEMMA SendNotConnectedKeeps ==
  ASSUME JInv, SendNotConnected
  PROVE  TypeOK' /\ Life' /\ Bytes' /\ Reads' /\ Places' /\ Reporting' /\ Wiring'
<1>1. ready # <<>> /\ Head(ready).kind = "respond" /\ ready' = Tail(ready)
  BY DEF SendNotConnected, Running
<1>2. /\ Head(ready) \in Handler /\ Head(ready) \in Members(ready)
      /\ ready' \in Seq(Handler) /\ Apart(ready') /\ Ordered(ready')
      /\ \A h \in Members(ready') : h \in Members(ready)
      /\ \A h \in Members(ready) : h = Head(ready) \/ h \in Members(ready')
      /\ SingleRead(ready) => SingleRead(ready')
      /\ \A h \in Members(ready') : h.kind # "read" => h.answer # Head(ready).answer
      /\ \A h \in Members(ready') : h.kind = "respond" => Head(ready).answer < h.answer
  BY <1>1, Taken
<1>3. sendQueue' = <<>> /\ called' = [called EXCEPT ![Head(ready).answer] = Append(@, FALSE)]
  BY <1>2 DEF JInv, IInv, NothingQueued, SendNotConnected, Call
<1>4. /\ Head(ready).answer \in Answer /\ Head(ready).answer <= posted
       /\ called[Head(ready).answer] = <<>> /\ called'[Head(ready).answer] = <<FALSE>>
       /\ called' \in [Answer -> Seq(BOOLEAN)]
       /\ \A r \in Answer : r # Head(ready).answer => called'[r] = called[r]
  BY <1>1, <1>3, Hears
<1>5. UNCHANGED <<state, socket, wanted, header, sent, stream, delivered, posted, sending, wire, hooks>>
  BY DEF SendNotConnected
<1>6. TypeOK'
  <2>1. sendQueue' \in Seq(Answer)
    BY <1>3
  <2>2. QED
    BY <1>2, <1>4, <1>5, <2>1 DEF JInv, TypeOK
<1>7. Life'
  BY DEF JInv, Life, SendNotConnected, IsOpen
<1>8. Bytes'
  BY <1>2 DEF JInv, Bytes, SendNotConnected, IsOpen
<1>9. Reads'
  BY <1>2 DEF JInv, Reads, TypeOK, SendNotConnected, IsOpen
<1>10. Places'
  <2>1. Apart(ready') /\ Ordered(ready') /\ Ascending(sending')
    BY <1>2, <1>5 DEF JInv, Places, Ascending
  <2>2. ASSUME NEW x \in Members(ready'), x.kind # "read"
        PROVE  /\ x.answer <= posted' /\ called'[x.answer] = <<>>
               /\ \A i \in 1..Len(sending') : sending'[i] # x.answer
    BY <2>2, <1>2, <1>4, <1>5, Known DEF JInv, Places, Ascending
  <2>3. ASSUME NEW i \in 1..Len(sending')
        PROVE  sending'[i] <= posted' /\ called'[sending'[i]] = <<>>
    BY <1>1, <1>2, <1>4, <1>5, Known DEF JInv, Places, Ascending
  <2>4. ASSUME NEW r \in Answer, r > posted' PROVE called'[r] = <<>>
    BY <2>4, <1>4, <1>5, Known DEF JInv, Places, Ascending
  <2>5. QED
    BY <2>1, <2>2, <2>3, <2>4 DEF Places
<1>11. Reporting'
  <2>1. ASSUME NEW r \in Answer PROVE called'[r] \in {<<>>, <<TRUE>>, <<FALSE>>}
    BY <1>4 DEF JInv, Reporting, Places
  <2>2. ASSUME NEW r \in Answer, r <= posted', called'[r] = <<>>
        PROVE  \/ \E x \in Members(ready') : x.kind # "read" /\ x.answer = r
               \/ \E i \in 1..Len(sending') : sending'[i] = r
    BY <2>2, <1>2, <1>4, Verdicts, <1>5 DEF JInv, Reporting, Places
  <2>3. QED
    BY <2>1, <2>2 DEF Reporting
<1>12. Wiring'
  <2>1. ASSUME NEW i \in 1..Len(wire'), NEW j \in 1..Len(wire'), i < j
        PROVE  wire'[i].answer < wire'[j].answer
    BY <2>1, <1>5 DEF JInv, Wiring, IsSent, Places
  <2>2. ASSUME NEW i \in 1..Len(wire')
        PROVE  /\ wire'[i].answer <= posted'
               /\ \A j \in 1..Len(sending') : wire'[i].answer < sending'[j]
    BY <1>5 DEF JInv, Wiring, IsSent, Places
  <2>3. ASSUME NEW i \in 1..Len(wire'), NEW x \in Members(ready'), x.kind = "respond"
        PROVE  wire'[i].answer < x.answer
    BY <2>3, <1>2, <1>5 DEF JInv, Wiring, IsSent, Places
  <2>4. ASSUME NEW i \in 1..Len(sending'), NEW x \in Members(ready'), x.kind = "respond"
        PROVE  sending'[i] < x.answer
    BY <2>4, <1>2, <1>5 DEF JInv, Wiring, IsSent, Places
  <2>5. ASSUME NEW x \in Members(ready'), x.kind = "sent", x.ok PROVE IsSent(x.answer)'
    BY <2>5, <1>2, <1>5 DEF JInv, Wiring, IsSent, Places
  <2>6. ASSUME NEW r \in Answer, called'[r] = <<TRUE>> PROVE IsSent(r)'
    BY <2>6, <1>4, Verdicts, <1>5 DEF JInv, Wiring, IsSent, Places
  <2>7. QED
    BY <2>1, <2>2, <2>3, <2>4, <2>5, <2>6 DEF Wiring
<1>13. QED
  BY <1>6, <1>7, <1>8, <1>9, <1>10, <1>11, <1>12

\* The callback hears of an answer that is on the wire.
LEMMA SendDoneKeeps ==
  ASSUME JInv, SendDone
  PROVE  TypeOK' /\ Life' /\ Bytes' /\ Reads' /\ Places' /\ Reporting' /\ Wiring'
<1>1. ready # <<>> /\ Head(ready).kind = "sent" /\ ready' = Tail(ready)
  BY DEF SendDone, Running
<1>2. /\ Head(ready) \in Handler /\ Head(ready) \in Members(ready)
      /\ ready' \in Seq(Handler) /\ Apart(ready') /\ Ordered(ready')
      /\ \A h \in Members(ready') : h \in Members(ready)
      /\ \A h \in Members(ready) : h = Head(ready) \/ h \in Members(ready')
      /\ SingleRead(ready) => SingleRead(ready')
      /\ \A h \in Members(ready') : h.kind # "read" => h.answer # Head(ready).answer
  BY <1>1, Taken
<1>3. /\ called' = [called EXCEPT ![Head(ready).answer] = Append(@, TRUE)]
      /\ UNCHANGED <<sendQueue, sending>>
  BY DEF JInv, IInv, NothingQueued, SendDone, Call
<1>4. /\ Head(ready).answer \in Answer /\ Head(ready).answer <= posted
       /\ called[Head(ready).answer] = <<>> /\ called'[Head(ready).answer] = <<TRUE>>
       /\ called' \in [Answer -> Seq(BOOLEAN)]
       /\ \A r \in Answer : r # Head(ready).answer => called'[r] = called[r]
  BY <1>1, <1>3, Hears
<1>5. UNCHANGED <<state, socket, wanted, header, sent, stream, delivered, posted, wire, hooks>>
  BY DEF SendDone
<1>6. TypeOK'
  BY <1>2, <1>3, <1>4 DEF JInv, TypeOK, State, SendDone, IsOpen
<1>7. Life'
  BY <1>1 DEF JInv, Life, SendDone, IsOpen
<1>8. Bytes'
  BY <1>2 DEF JInv, Bytes, SendDone, IsOpen
<1>9. Reads'
  BY <1>1, <1>2 DEF JInv, Reads, TypeOK, SendDone, IsOpen
<1>10. Places'
  <2>1. Apart(ready') /\ Ordered(ready') /\ Ascending(sending')
    BY <1>2, <1>3 DEF JInv, Places, Ascending
  <2>2. ASSUME NEW x \in Members(ready'), x.kind # "read"
        PROVE  /\ x.answer <= posted' /\ called'[x.answer] = <<>>
               /\ \A i \in 1..Len(sending') : sending'[i] # x.answer
    BY <2>2, <1>2, <1>3, <1>5, Known DEF JInv, Places, Ascending
  <2>3. ASSUME NEW i \in 1..Len(sending')
        PROVE  sending'[i] <= posted' /\ called'[sending'[i]] = <<>>
    BY <1>1, <1>2, <1>3, <1>5, Known DEF JInv, Places, Ascending
  <2>4. ASSUME NEW r \in Answer, r > posted' PROVE called'[r] = <<>>
    BY <2>4, <1>4, <1>5, Known DEF JInv, Places, Ascending
  <2>5. QED
    BY <2>1, <2>2, <2>3, <2>4 DEF Places
<1>11. Reporting'
  <2>1. ASSUME NEW r \in Answer PROVE called'[r] \in {<<>>, <<TRUE>>, <<FALSE>>}
    BY <1>4 DEF JInv, Reporting, Places
  <2>2. ASSUME NEW r \in Answer, r <= posted', called'[r] = <<>>
        PROVE  \/ \E x \in Members(ready') : x.kind # "read" /\ x.answer = r
               \/ \E i \in 1..Len(sending') : sending'[i] = r
    BY <2>2, <1>2, <1>3, <1>4, <1>5 DEF JInv, Reporting, Places
  <2>3. QED
    BY <2>1, <2>2 DEF Reporting
<1>12. Wiring'
  <2>1. ASSUME NEW i \in 1..Len(wire'), NEW j \in 1..Len(wire'), i < j
        PROVE  wire'[i].answer < wire'[j].answer
    BY <2>1, <1>5 DEF JInv, Wiring, IsSent, Places
  <2>2. ASSUME NEW i \in 1..Len(wire')
        PROVE  /\ wire'[i].answer <= posted'
               /\ \A j \in 1..Len(sending') : wire'[i].answer < sending'[j]
    BY <1>3, <1>5 DEF JInv, Wiring, IsSent, Places
  <2>3. ASSUME NEW i \in 1..Len(wire'), NEW x \in Members(ready'), x.kind = "respond"
        PROVE  wire'[i].answer < x.answer
    BY <2>3, <1>2, <1>5 DEF JInv, Wiring, IsSent, Places
  <2>4. ASSUME NEW i \in 1..Len(sending'), NEW x \in Members(ready'), x.kind = "respond"
        PROVE  sending'[i] < x.answer
    BY <2>4, <1>2, <1>3 DEF JInv, Wiring, IsSent, Places
  <2>5. ASSUME NEW x \in Members(ready'), x.kind = "sent", x.ok PROVE IsSent(x.answer)'
    BY <2>5, <1>2, <1>5 DEF JInv, Wiring, IsSent, Places
  <2>6. ASSUME NEW r \in Answer, called'[r] = <<TRUE>> PROVE IsSent(r)'
    <3>1. Head(ready).ok
      BY DEF SendDone
    <3>2. CASE r = Head(ready).answer
      BY <1>1, <1>2, <1>5, <3>1, <3>2 DEF JInv, Wiring, IsSent
    <3>3. CASE r # Head(ready).answer
      BY <1>4, <1>5, <2>6, <3>3 DEF JInv, Wiring, IsSent
    <3>4. QED
      BY <3>2, <3>3
  <2>7. QED
    BY <2>1, <2>2, <2>3, <2>4, <2>5, <2>6 DEF Wiring
<1>13. QED
  BY <1>6, <1>7, <1>8, <1>9, <1>10, <1>11, <1>12

\* The callback hears of the failure, and on_error takes the other sends away.
LEMMA SendErrorKeeps ==
  ASSUME JInv, SendError
  PROVE  TypeOK' /\ Life' /\ Bytes' /\ Reads' /\ Places' /\ Reporting' /\ Wiring'
<1>1. ready # <<>> /\ Head(ready).kind = "sent" /\ IsOpen
  BY DEF SendError, Running
<1>2. PICK n \in {0, 1} : OnError(n)
  BY DEF SendError
<1>3. /\ Head(ready) \in Handler /\ Head(ready) \in Members(ready)
      /\ ready' \in Seq(Handler) /\ Apart(ready') /\ Ordered(ready')
      /\ n \in {0, 1} /\ posted' = posted + n /\ posted' \in 0..MaxAnswers
      /\ state' = "closed" /\ socket' = FALSE /\ wanted' = 0 /\ sending' = <<>>
      /\ \A h \in Members(ready) : h = Head(ready) \/ h \in Members(ready')
      /\ \A h \in Members(ready') :
           \/ h \in Members(ready) /\ (Head(ready).kind # "read" /\ h.kind # "read" =>
                                         h.answer # Head(ready).answer)
           \/ h.kind = "respond" /\ h.answer = posted + 1 /\ n = 1
           \/ h.kind = "read" /\ ~h.ok /\ h.bytes = <<>>
           \/ /\ h.kind = "sent" /\ ~h.ok
              /\ \E i \in 1..Len(sending) : sending[i] = h.answer
      /\ n = 1 => \E h \in Members(ready') : h.kind = "respond" /\ h.answer = posted + 1
      /\ \A i \in 1..Len(sending) :
           \E h \in Members(ready') : h.kind # "read" /\ h.answer = sending[i]
  BY <1>1, <1>2, Errored
<1>4. called' = [called EXCEPT ![Head(ready).answer] = Append(@, FALSE)]
  BY DEF SendError, Call
<1>5. /\ posted \in Nat /\ posted' \in Nat /\ posted <= posted'
       /\ (posted' = posted \/ posted' = posted + 1)
  BY <1>3, Known
<1>6. \A r \in Nat :
         /\ r <= posted => r <= posted' /\ r < posted + 1
         /\ r > posted' => r > posted
         /\ r <= posted' => r <= posted \/ r = posted'
  BY <1>5
<1>7. /\ Head(ready).answer \in Answer /\ Head(ready).answer <= posted
       /\ called[Head(ready).answer] = <<>> /\ called'[Head(ready).answer] = <<FALSE>>
       /\ called' \in [Answer -> Seq(BOOLEAN)]
       /\ \A r \in Answer : r # Head(ready).answer => called'[r] = called[r]
  BY <1>1, <1>4, Hears
<1>8. ASSUME NEW x \in Members(ready'), x.kind = "respond", x.answer = posted + 1, n = 1
       PROVE  /\ posted + 1 \in Answer /\ posted' = posted + 1 /\ called[posted + 1] = <<>>
              /\ \A i \in 1..Len(sending) : sending[i] # posted + 1
  <2>1. x \in Handler
    BY <1>3, <1>8 DEF Members
  <2>2. QED
    BY <1>3, <1>8, <2>1, Fresh
<1>9. UNCHANGED <<header, sent, stream, delivered, sendQueue, wire>>
  BY DEF SendError
<1>10. TypeOK'
  <2>1. hooks' \in Nat
    BY <1>2 DEF OnError, JInv, TypeOK
  <2>2. /\ sending' \in Seq(Answer) /\ state' \in State /\ socket' \in BOOLEAN
        /\ wanted' \in {0, HeaderSize} \cup 1..MaxBody
    <3>1. \A S : <<>> \in Seq(S)
      OBVIOUS
    <3>2. QED
      BY <1>3, <3>1 DEF State
  <2>3. QED
    BY <1>3, <1>7, <1>9, <2>1, <2>2 DEF JInv, TypeOK, State
<1>11. Life'
  BY <1>3 DEF Life
<1>12. Bytes'
  BY <1>3, Verdicts, <1>9 DEF JInv, Bytes, SendError, IsOpen
<1>13. Reads'
  BY <1>3, Verdicts, <1>9 DEF JInv, Reads, TypeOK, SendError, IsOpen
<1>14. Places'
  <2>1. Apart(ready') /\ Ordered(ready') /\ Ascending(sending')
    BY <1>3, Verdicts, <1>9, Known DEF JInv, Places, Ascending
  <2>2. ASSUME NEW x \in Members(ready'), x.kind # "read"
        PROVE  /\ x.answer <= posted' /\ called'[x.answer] = <<>>
               /\ \A i \in 1..Len(sending') : sending'[i] # x.answer
    <3>1. CASE x.kind = "respond" /\ x.answer = posted + 1 /\ n = 1
      BY <1>3, <1>8, <1>7, Verdicts, <1>9, <2>2, <3>1, Known
    <3>2. CASE x \in Members(ready) /\ (Head(ready).kind # "read" => x.answer # Head(ready).answer)
      BY <1>1, <1>3, <1>7, Verdicts, <1>9, <2>2, <3>2, Known DEF JInv, Places
    <3>3. CASE \E i \in 1..Len(sending) : sending[i] = x.answer
      <4>1. PICK i \in 1..Len(sending) : sending[i] = x.answer
        BY <3>3
      <4>2. sending[i] <= posted /\ called[sending[i]] = <<>> /\ sending[i] \in Nat /\ sending[i] \in Answer
        BY Known DEF JInv, Places
      <4>3. sending[i] # Head(ready).answer
        BY <1>1, <1>3 DEF JInv, Places
      <4>4. QED
        BY <1>3, <1>6, <1>7, <4>3, <4>1, <4>2
    <3>4. QED
      BY <1>3, <2>2, <3>1, <3>2, <3>3
  <2>3. ASSUME NEW i \in 1..Len(sending')
        PROVE  sending'[i] <= posted' /\ called'[sending'[i]] = <<>>
    BY <1>3, <1>7, Verdicts, <1>9, Known DEF JInv, Places, Ascending
  <2>4. ASSUME NEW r \in Answer, r > posted' PROVE called'[r] = <<>>
    BY <2>4, <1>6, <1>7, Verdicts, <1>9, Known DEF JInv, Places, Ascending
  <2>5. QED
    BY <2>1, <2>2, <2>3, <2>4 DEF Places
<1>15. Reporting'
  <2>1. ASSUME NEW r \in Answer PROVE called'[r] \in {<<>>, <<TRUE>>, <<FALSE>>}
    BY <1>7, Verdicts, <1>9, Known DEF JInv, Reporting, Places
  <2>2. ASSUME NEW r \in Answer, r <= posted', called'[r] = <<>>
        PROVE  \/ \E x \in Members(ready') : x.kind # "read" /\ x.answer = r
               \/ \E i \in 1..Len(sending') : sending'[i] = r
    <3>1. CASE r <= posted
      <4>1. called[r] = <<>> /\ r # Head(ready).answer
        BY <1>7, Verdicts, <2>2
      <4>2. CASE \E x \in Members(ready) : x.kind # "read" /\ x.answer = r
        BY <1>3, <4>1, <4>2
      <4>3. CASE \E i \in 1..Len(sending) : sending[i] = r
        BY <1>3, <1>9, <4>3
      <4>4. QED
        BY <3>1, <4>1, <4>2, <4>3 DEF JInv, Reporting
    <3>2. CASE r = posted' /\ posted' # posted
      BY <1>3, <1>5, <3>2
    <3>3. QED
      BY <1>6, <2>2, <3>1, <3>2, Known
  <2>3. QED
    BY <2>1, <2>2 DEF Reporting
<1>16. Wiring'
  <2>1. ASSUME NEW i \in 1..Len(wire'), NEW j \in 1..Len(wire'), i < j
        PROVE  wire'[i].answer < wire'[j].answer
    BY <2>1, <1>7, Verdicts, <1>9, Known DEF JInv, Wiring, IsSent, Places
  <2>2. ASSUME NEW i \in 1..Len(wire')
        PROVE  /\ wire'[i].answer <= posted'
               /\ \A j \in 1..Len(sending') : wire'[i].answer < sending'[j]
    <3>1. wire[i].answer <= posted /\ wire[i].answer \in Nat
      BY <1>9, Known DEF JInv, Wiring
    <3>2. QED
      BY <1>3, <1>6, <1>9, <3>1
  <2>3. ASSUME NEW i \in 1..Len(wire'), NEW x \in Members(ready'), x.kind = "respond"
        PROVE  wire'[i].answer < x.answer
    <3>1. wire[i].answer <= posted /\ wire[i].answer \in Nat
      BY <1>9, Known DEF JInv, Wiring
    <3>2. CASE x \in Members(ready)
      BY <1>9, <2>3, <3>2 DEF JInv, Wiring
    <3>3. CASE x.answer = posted + 1
      BY <1>6, <1>9, <3>1, <3>3
    <3>4. QED
      BY <1>3, <2>3, <3>2, <3>3
  <2>4. ASSUME NEW i \in 1..Len(sending'), NEW x \in Members(ready'), x.kind = "respond"
        PROVE  sending'[i] < x.answer
    BY <1>3, <1>7, Verdicts, <1>9, Known DEF JInv, Wiring, IsSent, Places
  <2>5. ASSUME NEW x \in Members(ready'), x.kind = "sent", x.ok PROVE IsSent(x.answer)'
    BY <2>5, <1>3, <1>7, Verdicts, <1>9, Known DEF JInv, Wiring, IsSent, Places
  <2>6. ASSUME NEW r \in Answer, called'[r] = <<TRUE>> PROVE IsSent(r)'
    BY <1>7, Verdicts, <1>9, <2>6 DEF JInv, Wiring, IsSent
  <2>7. QED
    BY <2>1, <2>2, <2>3, <2>4, <2>5, <2>6 DEF Wiring
<1>17. QED
  BY <1>10, <1>11, <1>12, <1>13, <1>14, <1>15, <1>16

\* The callback of a send that close() aborted hears of it once.
LEMMA SendAfterCloseKeeps ==
  ASSUME JInv, SendAfterClose
  PROVE  TypeOK' /\ Life' /\ Bytes' /\ Reads' /\ Places' /\ Reporting' /\ Wiring'
<1>1. ready # <<>> /\ Head(ready).kind = "sent" /\ ready' = Tail(ready)
  BY DEF SendAfterClose, Running
<1>2. /\ Head(ready) \in Handler /\ Head(ready) \in Members(ready)
      /\ ready' \in Seq(Handler) /\ Apart(ready') /\ Ordered(ready')
      /\ \A h \in Members(ready') : h \in Members(ready)
      /\ \A h \in Members(ready) : h = Head(ready) \/ h \in Members(ready')
      /\ SingleRead(ready) => SingleRead(ready')
      /\ \A h \in Members(ready') : h.kind # "read" => h.answer # Head(ready).answer
  BY <1>1, Taken
<1>3. called' = [called EXCEPT ![Head(ready).answer] = Append(@, FALSE)]
  BY DEF SendAfterClose, Call
<1>4. /\ Head(ready).answer \in Answer /\ Head(ready).answer <= posted
       /\ called[Head(ready).answer] = <<>> /\ called'[Head(ready).answer] = <<FALSE>>
       /\ called' \in [Answer -> Seq(BOOLEAN)]
       /\ \A r \in Answer : r # Head(ready).answer => called'[r] = called[r]
  BY <1>1, <1>3, Hears
<1>5. UNCHANGED <<state, socket, wanted, header, sent, stream, delivered, posted, sendQueue, sending, wire, hooks>>
  BY DEF SendAfterClose
<1>6. TypeOK'
  BY <1>2, <1>4 DEF JInv, TypeOK, State, SendAfterClose, IsOpen
<1>7. Life'
  BY DEF JInv, Life, SendAfterClose, IsOpen
<1>8. Bytes'
  BY <1>2 DEF JInv, Bytes, SendAfterClose, IsOpen
<1>9. Reads'
  BY <1>2 DEF JInv, Reads, TypeOK, SendAfterClose, IsOpen
<1>10. Places'
  <2>1. Apart(ready') /\ Ordered(ready') /\ Ascending(sending')
    BY <1>2, <1>5 DEF JInv, Places, Ascending
  <2>2. ASSUME NEW x \in Members(ready'), x.kind # "read"
        PROVE  /\ x.answer <= posted' /\ called'[x.answer] = <<>>
               /\ \A i \in 1..Len(sending') : sending'[i] # x.answer
    BY <2>2, <1>2, <1>4, <1>5, Known DEF JInv, Places, Ascending
  <2>3. ASSUME NEW i \in 1..Len(sending')
        PROVE  sending'[i] <= posted' /\ called'[sending'[i]] = <<>>
    BY <1>1, <1>2, <1>4, <1>5, Known DEF JInv, Places, Ascending
  <2>4. ASSUME NEW r \in Answer, r > posted' PROVE called'[r] = <<>>
    BY <2>4, <1>4, <1>5, Known DEF JInv, Places, Ascending
  <2>5. QED
    BY <2>1, <2>2, <2>3, <2>4 DEF Places
<1>11. Reporting'
  <2>1. ASSUME NEW r \in Answer PROVE called'[r] \in {<<>>, <<TRUE>>, <<FALSE>>}
    BY <1>4 DEF JInv, Reporting, Places
  <2>2. ASSUME NEW r \in Answer, r <= posted', called'[r] = <<>>
        PROVE  \/ \E x \in Members(ready') : x.kind # "read" /\ x.answer = r
               \/ \E i \in 1..Len(sending') : sending'[i] = r
    BY <2>2, <1>2, <1>4, <1>5 DEF JInv, Reporting, Places
  <2>3. QED
    BY <2>1, <2>2 DEF Reporting
<1>12. Wiring'
  <2>1. ASSUME NEW i \in 1..Len(wire'), NEW j \in 1..Len(wire'), i < j
        PROVE  wire'[i].answer < wire'[j].answer
    BY <2>1, <1>5 DEF JInv, Wiring, IsSent, Places
  <2>2. ASSUME NEW i \in 1..Len(wire')
        PROVE  /\ wire'[i].answer <= posted'
               /\ \A j \in 1..Len(sending') : wire'[i].answer < sending'[j]
    BY <1>5 DEF JInv, Wiring, IsSent, Places
  <2>3. ASSUME NEW i \in 1..Len(wire'), NEW x \in Members(ready'), x.kind = "respond"
        PROVE  wire'[i].answer < x.answer
    BY <2>3, <1>2, <1>5 DEF JInv, Wiring, IsSent, Places
  <2>4. ASSUME NEW i \in 1..Len(sending'), NEW x \in Members(ready'), x.kind = "respond"
        PROVE  sending'[i] < x.answer
    BY <2>4, <1>2, <1>5 DEF JInv, Wiring, IsSent, Places
  <2>5. ASSUME NEW x \in Members(ready'), x.kind = "sent", x.ok PROVE IsSent(x.answer)'
    BY <2>5, <1>2, <1>5 DEF JInv, Wiring, IsSent, Places
  <2>6. ASSUME NEW r \in Answer, called'[r] = <<TRUE>> PROVE IsSent(r)'
    BY <2>6, <1>4, Verdicts, <1>5 DEF JInv, Wiring, IsSent, Places
  <2>7. QED
    BY <2>1, <2>2, <2>3, <2>4, <2>5, <2>6 DEF Wiring
<1>13. QED
  BY <1>6, <1>7, <1>8, <1>9, <1>10, <1>11, <1>12

\* The new message comes after what the client has sent.
LEMMA ClientSendsKeeps ==
  ASSUME JInv, ClientSends
  PROVE  TypeOK' /\ Life' /\ Bytes' /\ Reads' /\ Places' /\ Reporting' /\ Wiring'
<1>1. PICK body \in BodySizes :
        sent' = Append(sent, body) /\ stream' = stream \o Message(Len(sent) + 1, body)
  BY DEF ClientSends
<1>2. /\ body \in Nat /\ sent \in Seq(BodySizes) /\ stream \in Seq(Byte)
      /\ Len(sent) \in Nat /\ Len(sent) < MaxMessages /\ MaxMessages \in Nat
      /\ HeaderSize \in Nat
  BY TcpClientAssumption DEF ClientSends, JInv, TypeOK
<1> DEFINE m == Message(Len(sent) + 1, body)
<1>3. \A k \in 1..(HeaderSize + body) : m[k] = [msg |-> Len(sent) + 1, pos |-> k]
  BY DEF Message
<1>4. HeaderSize + body \in Nat /\ m = [k \in 1..(HeaderSize + body) |-> m[k]]
  BY <1>2 DEF Message
<1> HIDE DEF m
<1>5. \A k \in 1..(HeaderSize + body) : m[k] \in Byte /\ m[k].msg = Len(sent) + 1
  <2>1. TAKE k \in 1..(HeaderSize + body)
  <2>2. Len(sent) + 1 \in 1..MaxMessages /\ k \in Nat
    BY <1>2
  <2>3. QED
    <3>1. [msg |-> Len(sent) + 1, pos |-> k] \in Byte
      BY <2>2 DEF Byte
    <3>2. [msg |-> Len(sent) + 1, pos |-> k].msg = Len(sent) + 1
      OBVIOUS
    <3>3. QED
      BY <1>3, <3>1, <3>2
<1>6. m \in Seq(Byte) /\ Len(m) = HeaderSize + body
  BY <1>5, <1>4
<1>7. /\ stream' \in Seq(Byte) /\ sent' \in Seq(BodySizes) /\ Len(sent') = Len(sent) + 1
      /\ \A k \in 1..Len(stream') :
           stream'[k].msg = Len(sent) + 1 \/ (k \in 1..Len(stream) /\ stream'[k] = stream[k])
  <2>1. stream' = stream \o m
    BY <1>1 DEF m
  <2>2. /\ stream' \in Seq(Byte)
        /\ \A k \in 1..Len(stream') :
             \/ k \in 1..Len(stream) /\ stream'[k] = stream[k]
             \/ k - Len(stream) \in 1..Len(m) /\ stream'[k] = m[k - Len(stream)]
    BY <1>2, <1>6, <2>1
  <2>3. \A k \in 1..Len(m) : m[k].msg = Len(sent) + 1
    BY <1>5, <1>6
  <2>4. sent' \in Seq(BodySizes) /\ Len(sent') = Len(sent) + 1
    BY <1>1, <1>2
  <2>5. QED
    BY <2>2, <2>3, <2>4
<1>8. UNCHANGED <<ready, state, socket, wanted, header, delivered, posted, sendQueue, sending, wire, called, hooks>>
  BY DEF ClientSends
<1>9. TypeOK'
  BY <1>2, <1>7, <1>8 DEF JInv, TypeOK
<1>10. Life'
  BY DEF JInv, Life, ClientSends
<1>11. Bytes'
  <2>1. 1..Len(sent) \subseteq 1..Len(sent') /\ Len(sent) + 1 \in 1..Len(sent')
    BY <1>2, <1>7
  <2>2. \A k \in 1..Len(stream') : stream'[k].msg \in 1..Len(sent')
    BY <1>7, <2>1 DEF JInv, Bytes
  <2>3. \A x \in Members(ready') : x.kind = "read" =>
          \A k \in 1..Len(x.bytes) : x.bytes[k].msg \in 1..Len(sent')
    BY <1>8, <2>1 DEF JInv, Bytes
  <2>4. QED
    BY <2>2, <2>3 DEF Bytes
<1>12. Reads'
  BY <1>8 DEF JInv, Reads, IsOpen
<1>13. Places' /\ Reporting' /\ Wiring'
  <2>1. posted' = posted + 0 /\ ready' = ready
    BY <1>8, Known
  <2>2. ready \in Seq(Handler) /\ Apart(ready) /\ Ordered(ready)
    BY DEF JInv, TypeOK, Places
  <2>3. QED
    BY <1>8, <2>1, <2>2, AnswersPosted
<1>14. QED
  BY <1>9, <1>10, <1>11, <1>12, <1>13

\* The read becomes the only read handler.
LEMMA ReadCompletesKeeps ==
  ASSUME JInv, ReadCompletes
  PROVE  TypeOK' /\ Life' /\ Bytes' /\ Reads' /\ Places' /\ Reporting' /\ Wiring'
<1> DEFINE h == [kind |-> "read", ok |-> TRUE, bytes |-> SubSeq(stream, 1, wanted)]
<1>1. /\ wanted > 0 /\ wanted \in Nat /\ Len(stream) >= wanted /\ ready' = Append(ready, h)
      /\ stream \in Seq(Byte)
  BY TcpClientAssumption DEF ReadCompletes, JInv, TypeOK
<1>2. /\ h.bytes \in Seq(Byte) /\ Len(h.bytes) = wanted
      /\ \A k \in 1..Len(h.bytes) : k \in 1..Len(stream) /\ h.bytes[k] = stream[k]
  BY <1>1
<1>3. h \in Handler /\ h.kind = "read" /\ h.ok
  BY <1>2 DEF Handler
<1> HIDE DEF h
<1>4. /\ ready' \in Seq(Handler) /\ Apart(ready') /\ Ordered(ready')
      /\ h \in Members(ready')
      /\ \A g \in Members(ready) : g \in Members(ready')
      /\ \A g \in Members(ready') : g \in Members(ready) \/ g = h
      /\ SingleRead(ready) /\ (h.kind = "read" => \A g \in Members(ready) : g.kind # "read")
         => SingleRead(ready')
  BY <1>1, <1>3, Completed
<1>5. UNCHANGED <<state, socket, header, sent, delivered, posted, sendQueue, sending, wire, called, hooks>>
  BY DEF ReadCompletes
<1>6. TypeOK'
  BY <1>4 DEF JInv, TypeOK, ReadCompletes, IsOpen
<1>7. Life'
  BY DEF JInv, Life, ReadCompletes, IsOpen
<1>8. Bytes'
  <2>1. /\ stream' = SubSeq(stream, wanted + 1, Len(stream))
    BY DEF ReadCompletes
  <2>2. /\ Len(stream) \in Nat
        /\ \A k \in 1..Len(stream') : \E j \in 1..Len(stream) : stream'[k] = stream[j]
    <3>1. \A k \in 1..Len(stream') :
            wanted + k \in 1..Len(stream) /\ stream'[k] = stream[wanted + k]
      BY <1>1, <2>1
    <3>2. QED
      BY <1>1, <3>1
  <2>3. \A k \in 1..Len(stream') : stream'[k].msg \in 1..Len(sent')
    BY <1>5, <2>2 DEF JInv, Bytes
  <2>4. \A k \in 1..Len(h.bytes) : h.bytes[k].msg \in 1..Len(sent')
    BY <1>2, <1>5 DEF JInv, Bytes
  <2>5. \A x \in Members(ready') : x.kind = "read" =>
          \A k \in 1..Len(x.bytes) : x.bytes[k].msg \in 1..Len(sent')
    BY <1>4, <1>5, <2>4 DEF JInv, Bytes
  <2>6. QED
    BY <2>3, <2>5 DEF Bytes
<1>9. Reads'
  <2>1. wanted' = 0 /\ wanted > 0 /\ wanted # 0
    BY <1>1 DEF ReadCompletes
  <2>2. IsOpen /\ state # "idle"
    BY <2>1 DEF JInv, Reads, Life
  <2>3. SingleRead(ready) /\ \A x \in Members(ready) : x.kind # "read"
    BY <2>1, <2>2 DEF JInv, Reads
  <2>4. SingleRead(ready')
    BY <1>4, <2>3
  <2>5. state = "reading_header" => Len(h.bytes) = HeaderSize
    BY <1>2, <2>1 DEF JInv, Reads
  <2>6. \A x \in Members(ready') : x.kind = "read" => x = h
    BY <1>4, <2>3
  <2>7. QED
    BY <1>4, <1>3, <1>5, <2>1, <2>4, <2>5, <2>6 DEF Reads, IsOpen
<1>10. Places' /\ Reporting' /\ Wiring'
  <2>1. posted' = posted + 0
    BY <1>5, Known
  <2>2. QED
    BY <1>3, <1>4, <1>5, <2>1, AnswersPosted
<1>11. QED
  BY <1>6, <1>7, <1>8, <1>9, <1>10

\* The read becomes the only read handler.
LEMMA ReadFailsKeeps ==
  ASSUME JInv, ReadFails
  PROVE  TypeOK' /\ Life' /\ Bytes' /\ Reads' /\ Places' /\ Reporting' /\ Wiring'
<1> DEFINE h == [kind |-> "read", ok |-> FALSE, bytes |-> <<>>]
<1>1. wanted > 0 /\ ready' = Append(ready, h)
  BY DEF ReadFails
<1>2. h \in Handler /\ h.kind = "read" /\ ~h.ok /\ h.bytes = <<>>
  BY DEF Handler
<1> HIDE DEF h
<1>3. /\ ready' \in Seq(Handler) /\ Apart(ready') /\ Ordered(ready')
      /\ h \in Members(ready')
      /\ \A g \in Members(ready) : g \in Members(ready')
      /\ \A g \in Members(ready') : g \in Members(ready) \/ g = h
      /\ SingleRead(ready) /\ (h.kind = "read" => \A g \in Members(ready) : g.kind # "read")
         => SingleRead(ready')
  BY <1>1, <1>2, Completed
<1>4. UNCHANGED <<state, socket, header, sent, stream, delivered, posted, sendQueue, sending, wire, called, hooks>>
  BY DEF ReadFails
<1>5. TypeOK'
  BY <1>3 DEF JInv, TypeOK, ReadFails, IsOpen
<1>6. Life'
  BY DEF JInv, Life, ReadFails
<1>7. Bytes'
  BY <1>3, <1>2 DEF JInv, Bytes, ReadFails
<1>8. Reads'
  BY <1>3, <1>2 DEF JInv, Reads, ReadFails, IsOpen
<1>9. Places' /\ Reporting' /\ Wiring'
  <2>1. posted' = posted + 0
    BY <1>4, Known
  <2>2. QED
    BY <1>2, <1>3, <1>4, <2>1, AnswersPosted
<1>10. QED
  BY <1>5, <1>6, <1>7, <1>8, <1>9

\* The oldest send completes: its answer is the youngest on the wire.
LEMMA SendCompletesKeeps ==
  ASSUME JInv, SendCompletes
  PROVE  TypeOK' /\ Life' /\ Bytes' /\ Reads' /\ Places' /\ Reporting' /\ Wiring'
<1> DEFINE h == [kind |-> "sent", answer |-> Head(sending), ok |-> TRUE]
<1>1. /\ sending # <<>> /\ sending \in Seq(Answer) /\ sending' = Tail(sending)
      /\ ready' = Append(ready, h)
  BY DEF SendCompletes, JInv, TypeOK
<1>2. /\ Head(sending) \in Answer /\ 1 \in 1..Len(sending) /\ Head(sending) = sending[1]
      /\ sending' \in Seq(Answer) /\ Len(sending') \in Nat
      /\ \A i \in 1..Len(sending') : i + 1 \in 1..Len(sending) /\ sending'[i] = sending[i + 1]
      /\ \A i \in 1..Len(sending) :
           i = 1 \/ (i - 1 \in 1..Len(sending') /\ sending'[i - 1] = sending[i])
  BY <1>1, TailFacts
<1>3. /\ h \in Handler /\ h.kind = "sent" /\ h.ok = TRUE
      /\ h.answer = sending[1]
  BY <1>2 DEF Handler
<1>4. \A g \in Members(ready) : g.kind # "read" => g.answer # h.answer
  BY <1>2, <1>3 DEF JInv, Places
<1> HIDE DEF h
<1>5. /\ ready' \in Seq(Handler) /\ Apart(ready') /\ Ordered(ready')
      /\ h \in Members(ready')
      /\ \A g \in Members(ready) : g \in Members(ready')
      /\ \A g \in Members(ready') : g \in Members(ready) \/ g = h
      /\ SingleRead(ready) /\ (h.kind = "read" => \A g \in Members(ready) : g.kind # "read")
         => SingleRead(ready')
  BY <1>1, <1>3, <1>4, Completed
<1>6. /\ wire' \in Seq([answer : Answer, whole : BOOLEAN])
      /\ Len(wire) \in Nat /\ Len(wire') = Len(wire) + 1
      /\ \A i \in 1..Len(wire) : wire'[i] = wire[i]
      /\ wire'[Len(wire) + 1].answer = sending[1]
  <2>1. PICK whole \in BOOLEAN : wire' = Append(wire, [answer |-> Head(sending), whole |-> whole])
    BY DEF SendCompletes
  <2> DEFINE W == [answer : Answer, whole : BOOLEAN]
             w == [answer |-> Head(sending), whole |-> whole]
  <2>2. w \in W /\ wire \in Seq(W) /\ w.answer = sending[1]
    BY <1>2, Known
  <2>3. wire' = Append(wire, w)
    BY <2>1
  <2> HIDE DEF W, w
  <2>4. /\ wire' \in Seq(W) /\ Len(wire) \in Nat /\ Len(wire') = Len(wire) + 1
        /\ \A i \in 1..Len(wire) : wire'[i] = wire[i]
        /\ wire'[Len(wire) + 1] = w
    BY <2>2, <2>3
  <2>5. QED
    BY <2>2, <2>4 DEF W
<1>7. \A i \in 1..Len(wire') :
        \/ i \in 1..Len(wire) /\ wire'[i].answer = wire[i].answer
        \/ i = Len(wire) + 1 /\ wire'[i].answer = sending[1]
  BY <1>6
<1>8. /\ \A i \in 1..Len(wire) : wire[i].answer < sending[1] /\ wire[i].answer \in Nat
      /\ sending[1] <= posted /\ sending[1] \in Nat
      /\ \A i \in 1..Len(sending') : sending[1] < sending'[i]
  <2>1. /\ \A i \in 1..Len(wire) : wire[i].answer < sending[1] /\ wire[i].answer \in Nat
        /\ sending[1] <= posted /\ sending[1] \in Nat
    BY <1>2, Known DEF JInv, Wiring, Places
  <2>2. ASSUME NEW i \in 1..Len(sending') PROVE sending[1] < sending'[i]
    <3>1. 1 < i + 1 /\ i + 1 \in 1..Len(sending) /\ sending'[i] = sending[i + 1]
      BY <1>2
    <3>2. QED
      BY <1>2, <3>1 DEF JInv, Places, Ascending
  <2>3. QED
    BY <2>1, <2>2
<1>9. \A x \in Members(ready') : x.kind = "respond" => x \in Members(ready)
  BY <1>5, <1>3
<1>10. UNCHANGED <<state, socket, wanted, header, sent, stream, delivered, posted, sendQueue, called, hooks>>
  BY DEF SendCompletes
<1>11. TypeOK'
  BY <1>5, <1>9, <1>10 DEF JInv, TypeOK, State, SendCompletes, IsOpen
<1>12. Life'
  BY <1>9, <1>10 DEF JInv, Life, SendCompletes, IsOpen
<1>13. Bytes'
  BY <1>5, <1>3, <1>9, <1>10 DEF JInv, Bytes, SendCompletes, IsOpen
<1>14. Reads'
  <2>1. \A x \in Members(ready') : x.kind = "read" => x \in Members(ready)
    BY <1>5, <1>3
  <2>2. \A x \in Members(ready) : x \in Members(ready')
    BY <1>5
  <2>3. SingleRead(ready) => SingleRead(ready')
    BY <1>5, <1>3
  <2>4. QED
    BY <1>10, <2>1, <2>2, <2>3 DEF JInv, Reads, IsOpen
<1>15. Places'
  <2>1. Apart(ready') /\ Ordered(ready') /\ Ascending(sending')
    <3>1. ASSUME NEW i \in 1..Len(sending'), NEW j \in 1..Len(sending'), i < j
          PROVE  sending'[i] < sending'[j]
      <4>1. i + 1 < j + 1 /\ i + 1 \in 1..Len(sending) /\ j + 1 \in 1..Len(sending)
        BY <1>2, <3>1
      <4>2. QED
        BY <1>2, <4>1 DEF JInv, Places, Ascending
    <3>2. QED
      BY <1>5, <3>1 DEF Ascending
  <2>2. ASSUME NEW x \in Members(ready'), x.kind # "read"
        PROVE  /\ x.answer <= posted' /\ called'[x.answer] = <<>>
               /\ \A i \in 1..Len(sending') : sending'[i] # x.answer
    <3>1. CASE x \in Members(ready)
      <4>1. /\ x.answer <= posted' /\ called'[x.answer] = <<>>
            /\ \A i \in 1..Len(sending) : sending[i] # x.answer
        BY <1>10, <2>2, <3>1 DEF JInv, Places
      <4>2. QED
        BY <1>2, <4>1
    <3>2. CASE x = h
      <4>1. x.answer <= posted' /\ called'[x.answer] = <<>>
        BY <1>2, <1>3, <1>10, <3>2 DEF JInv, Places
      <4>2. ASSUME NEW i \in 1..Len(sending') PROVE sending'[i] # x.answer
        <5>1. 1 < i + 1 /\ i + 1 \in 1..Len(sending) /\ sending'[i] = sending[i + 1]
          BY <1>2
        <5>2. sending[1] < sending[i + 1] /\ sending[1] \in Nat /\ sending[i + 1] \in Nat
          BY <1>2, <5>1, Known DEF JInv, Places, Ascending
        <5>3. QED
          BY <1>3, <3>2, <5>1, <5>2
      <4>3. QED
        BY <4>1, <4>2
    <3>3. QED
      BY <1>5, <3>1, <3>2
  <2>3. ASSUME NEW i \in 1..Len(sending')
        PROVE  sending'[i] <= posted' /\ called'[sending'[i]] = <<>>
    BY <1>2, <1>10, <2>3 DEF JInv, Places
  <2>4. ASSUME NEW r \in Answer, r > posted' PROVE called'[r] = <<>>
    BY <2>4, <1>8, <1>9, <1>10, Known DEF JInv, Places, Ascending
  <2>5. QED
    BY <2>1, <2>2, <2>3, <2>4 DEF Places
<1>16. Reporting'
  <2>1. ASSUME NEW r \in Answer PROVE called'[r] \in {<<>>, <<TRUE>>, <<FALSE>>}
    BY <1>8, <1>9, <1>10, Known DEF JInv, Reporting, Places
  <2>2. ASSUME NEW r \in Answer, r <= posted', called'[r] = <<>>
        PROVE  \/ \E x \in Members(ready') : x.kind # "read" /\ x.answer = r
               \/ \E i \in 1..Len(sending') : sending'[i] = r
    <3>1. r <= posted /\ called[r] = <<>>
      BY <1>10, <2>2
    <3>2. CASE \E x \in Members(ready) : x.kind # "read" /\ x.answer = r
      BY <1>5, <3>2
    <3>3. CASE \E i \in 1..Len(sending) : sending[i] = r
      <4>1. PICK i \in 1..Len(sending) : sending[i] = r
        BY <3>3
      <4>2. CASE i = 1
        BY <1>5, <1>3, <4>1, <4>2
      <4>3. CASE i - 1 \in 1..Len(sending') /\ sending'[i - 1] = sending[i]
        BY <4>1, <4>3
      <4>4. QED
        BY <1>2, <4>2, <4>3
    <3>4. QED
      BY <3>1, <3>2, <3>3 DEF JInv, Reporting
  <2>3. QED
    BY <2>1, <2>2 DEF Reporting
<1>17. Wiring'
  <2>1. ASSUME NEW i \in 1..Len(wire'), NEW j \in 1..Len(wire'), i < j
        PROVE  wire'[i].answer < wire'[j].answer
    <3>1. i \in 1..Len(wire) /\ wire'[i].answer = wire[i].answer
      BY <1>6, <1>7, <2>1
    <3>2. CASE j \in 1..Len(wire) /\ wire'[j].answer = wire[j].answer
      BY <2>1, <3>1, <3>2 DEF JInv, Wiring
    <3>3. CASE wire'[j].answer = sending[1]
      BY <1>8, <3>1, <3>3
    <3>4. QED
      BY <1>7, <3>2, <3>3
  <2>2. ASSUME NEW i \in 1..Len(wire')
        PROVE  /\ wire'[i].answer <= posted'
               /\ \A j \in 1..Len(sending') : wire'[i].answer < sending'[j]
    <3>1. CASE i \in 1..Len(wire) /\ wire'[i].answer = wire[i].answer
      BY <1>2, <1>10, <3>1 DEF JInv, Wiring
    <3>2. CASE wire'[i].answer = sending[1]
      BY <1>8, <1>10, <3>2
    <3>3. QED
      BY <1>7, <3>1, <3>2
  <2>3. ASSUME NEW i \in 1..Len(wire'), NEW x \in Members(ready'), x.kind = "respond"
        PROVE  wire'[i].answer < x.answer
    <3>1. x \in Members(ready)
      BY <1>9, <2>3
    <3>2. CASE i \in 1..Len(wire) /\ wire'[i].answer = wire[i].answer
      BY <2>3, <3>1, <3>2 DEF JInv, Wiring
    <3>3. CASE wire'[i].answer = sending[1]
      BY <1>2, <2>3, <3>1, <3>3 DEF JInv, Wiring
    <3>4. QED
      BY <1>7, <3>2, <3>3
  <2>4. ASSUME NEW i \in 1..Len(sending'), NEW x \in Members(ready'), x.kind = "respond"
        PROVE  sending'[i] < x.answer
    BY <1>2, <1>9, <2>4 DEF JInv, Wiring
  <2>5. ASSUME NEW x \in Members(ready'), x.kind = "sent", x.ok PROVE IsSent(x.answer)'
    <3>1. \A r : IsSent(r) => IsSent(r)'
      <4>1. SUFFICES ASSUME NEW r, NEW i \in 1..Len(wire), wire[i].answer = r PROVE IsSent(r)'
        BY DEF IsSent
      <4>2. i \in 1..Len(wire') /\ wire'[i].answer = r
        BY <1>6, <4>1
      <4>3. QED
        BY <4>2 DEF IsSent
    <3>2. CASE x \in Members(ready)
      BY <2>5, <3>1, <3>2 DEF JInv, Wiring
    <3>3. CASE x = h
      <4>1. Len(wire) + 1 \in 1..Len(wire') /\ wire'[Len(wire) + 1].answer = x.answer
        BY <1>3, <1>6, <3>3
      <4>2. QED
        BY <4>1 DEF IsSent
    <3>4. QED
      BY <1>5, <3>2, <3>3
  <2>6. ASSUME NEW r \in Answer, called'[r] = <<TRUE>> PROVE IsSent(r)'
    <3>1. PICK i \in 1..Len(wire) : wire[i].answer = r
      BY <1>10, <2>6 DEF JInv, Wiring, IsSent
    <3>2. i \in 1..Len(wire') /\ wire'[i].answer = r
      BY <1>6, <3>1
    <3>3. QED
      BY <3>2 DEF IsSent
  <2>7. QED
    BY <2>1, <2>2, <2>3, <2>4, <2>5, <2>6 DEF Wiring
<1>18. QED
  BY <1>11, <1>12, <1>13, <1>14, <1>15, <1>16, <1>17

\* The oldest send completes without being on the wire.
LEMMA SendFailsKeeps ==
  ASSUME JInv, SendFails
  PROVE  TypeOK' /\ Life' /\ Bytes' /\ Reads' /\ Places' /\ Reporting' /\ Wiring'
<1> DEFINE h == [kind |-> "sent", answer |-> Head(sending), ok |-> FALSE]
<1>1. /\ sending # <<>> /\ sending \in Seq(Answer) /\ sending' = Tail(sending)
      /\ ready' = Append(ready, h)
  BY DEF SendFails, JInv, TypeOK
<1>2. /\ Head(sending) \in Answer /\ 1 \in 1..Len(sending) /\ Head(sending) = sending[1]
      /\ sending' \in Seq(Answer) /\ Len(sending') \in Nat
      /\ \A i \in 1..Len(sending') : i + 1 \in 1..Len(sending) /\ sending'[i] = sending[i + 1]
      /\ \A i \in 1..Len(sending) :
           i = 1 \/ (i - 1 \in 1..Len(sending') /\ sending'[i - 1] = sending[i])
  BY <1>1, TailFacts
<1>3. /\ h \in Handler /\ h.kind = "sent" /\ h.ok = FALSE
      /\ h.answer = sending[1]
  BY <1>2 DEF Handler
<1>4. \A g \in Members(ready) : g.kind # "read" => g.answer # h.answer
  BY <1>2, <1>3 DEF JInv, Places
<1> HIDE DEF h
<1>5. /\ ready' \in Seq(Handler) /\ Apart(ready') /\ Ordered(ready')
      /\ h \in Members(ready')
      /\ \A g \in Members(ready) : g \in Members(ready')
      /\ \A g \in Members(ready') : g \in Members(ready) \/ g = h
      /\ SingleRead(ready) /\ (h.kind = "read" => \A g \in Members(ready) : g.kind # "read")
         => SingleRead(ready')
  BY <1>1, <1>3, <1>4, Completed
<1>6. UNCHANGED <<state, socket, wanted, header, sent, stream, delivered, posted, sendQueue, wire, called, hooks>>
  BY DEF SendFails
<1>7. TypeOK'
  BY <1>5 DEF JInv, TypeOK, State, SendFails, IsOpen
<1>8. Life'
  BY DEF JInv, Life, SendFails, IsOpen
<1>9. Bytes'
  BY <1>5, <1>3 DEF JInv, Bytes, SendFails, IsOpen
<1>10. Reads'
  <2>1. \A x \in Members(ready') : x.kind = "read" => x \in Members(ready)
    BY <1>5, <1>3
  <2>2. \A x \in Members(ready) : x \in Members(ready')
    BY <1>5
  <2>3. SingleRead(ready) => SingleRead(ready')
    BY <1>5, <1>3
  <2>4. QED
    BY <1>6, <2>1, <2>2, <2>3 DEF JInv, Reads, IsOpen
<1>11. Places'
  <2>1. Apart(ready') /\ Ordered(ready') /\ Ascending(sending')
    <3>1. ASSUME NEW i \in 1..Len(sending'), NEW j \in 1..Len(sending'), i < j
          PROVE  sending'[i] < sending'[j]
      <4>1. i + 1 < j + 1 /\ i + 1 \in 1..Len(sending) /\ j + 1 \in 1..Len(sending)
        BY <1>2, <3>1
      <4>2. QED
        BY <1>2, <4>1 DEF JInv, Places, Ascending
    <3>2. QED
      BY <1>5, <3>1 DEF Ascending
  <2>2. ASSUME NEW x \in Members(ready'), x.kind # "read"
        PROVE  /\ x.answer <= posted' /\ called'[x.answer] = <<>>
               /\ \A i \in 1..Len(sending') : sending'[i] # x.answer
    <3>1. CASE x \in Members(ready)
      <4>1. /\ x.answer <= posted' /\ called'[x.answer] = <<>>
            /\ \A i \in 1..Len(sending) : sending[i] # x.answer
        BY <1>6, <2>2, <3>1 DEF JInv, Places
      <4>2. QED
        BY <1>2, <4>1
    <3>2. CASE x = h
      <4>1. x.answer <= posted' /\ called'[x.answer] = <<>>
        BY <1>2, <1>3, <1>6, <3>2 DEF JInv, Places
      <4>2. ASSUME NEW i \in 1..Len(sending') PROVE sending'[i] # x.answer
        <5>1. 1 < i + 1 /\ i + 1 \in 1..Len(sending) /\ sending'[i] = sending[i + 1]
          BY <1>2
        <5>2. sending[1] < sending[i + 1] /\ sending[1] \in Nat /\ sending[i + 1] \in Nat
          BY <1>2, <5>1, Known DEF JInv, Places, Ascending
        <5>3. QED
          BY <1>3, <3>2, <5>1, <5>2
      <4>3. QED
        BY <4>1, <4>2
    <3>3. QED
      BY <1>5, <3>1, <3>2
  <2>3. ASSUME NEW i \in 1..Len(sending')
        PROVE  sending'[i] <= posted' /\ called'[sending'[i]] = <<>>
    BY <1>2, <1>6, <2>3 DEF JInv, Places
  <2>4. ASSUME NEW r \in Answer, r > posted' PROVE called'[r] = <<>>
    BY <2>4, <1>6 DEF JInv, Places, Ascending
  <2>5. QED
    BY <2>1, <2>2, <2>3, <2>4 DEF Places
<1>12. Reporting'
  <2>1. ASSUME NEW r \in Answer PROVE called'[r] \in {<<>>, <<TRUE>>, <<FALSE>>}
    BY <1>6 DEF JInv, Reporting, Places
  <2>2. ASSUME NEW r \in Answer, r <= posted', called'[r] = <<>>
        PROVE  \/ \E x \in Members(ready') : x.kind # "read" /\ x.answer = r
               \/ \E i \in 1..Len(sending') : sending'[i] = r
    <3>1. r <= posted /\ called[r] = <<>>
      BY <1>6, <2>2
    <3>2. CASE \E x \in Members(ready) : x.kind # "read" /\ x.answer = r
      BY <1>5, <3>2
    <3>3. CASE \E i \in 1..Len(sending) : sending[i] = r
      <4>1. PICK i \in 1..Len(sending) : sending[i] = r
        BY <3>3
      <4>2. CASE i = 1
        BY <1>5, <1>3, <4>1, <4>2
      <4>3. CASE i - 1 \in 1..Len(sending') /\ sending'[i - 1] = sending[i]
        BY <4>1, <4>3
      <4>4. QED
        BY <1>2, <4>2, <4>3
    <3>4. QED
      BY <3>1, <3>2, <3>3 DEF JInv, Reporting
  <2>3. QED
    BY <2>1, <2>2 DEF Reporting
<1>13. Wiring'
  <2>1. ASSUME NEW i \in 1..Len(wire'), NEW j \in 1..Len(wire'), i < j
        PROVE  wire'[i].answer < wire'[j].answer
    BY <2>1, <1>6 DEF JInv, Wiring, IsSent, Places
  <2>2. ASSUME NEW i \in 1..Len(wire')
        PROVE  /\ wire'[i].answer <= posted'
               /\ \A j \in 1..Len(sending') : wire'[i].answer < sending'[j]
    BY <1>2, <1>6 DEF JInv, Wiring, IsSent, Places
  <2>3. ASSUME NEW i \in 1..Len(wire'), NEW x \in Members(ready'), x.kind = "respond"
        PROVE  wire'[i].answer < x.answer
    BY <2>3, <1>5, <1>3, <1>6 DEF JInv, Wiring, IsSent, Places
  <2>4. ASSUME NEW i \in 1..Len(sending'), NEW x \in Members(ready'), x.kind = "respond"
        PROVE  sending'[i] < x.answer
    BY <2>4, <1>5, <1>2, <1>3 DEF JInv, Wiring, IsSent, Places
  <2>5. ASSUME NEW x \in Members(ready'), x.kind = "sent", x.ok PROVE IsSent(x.answer)'
    BY <2>5, <1>5, <1>3, <1>6 DEF JInv, Wiring, IsSent, Places
  <2>6. ASSUME NEW r \in Answer, called'[r] = <<TRUE>> PROVE IsSent(r)'
    BY <2>6, <1>6 DEF JInv, Wiring, IsSent, Places
  <2>7. QED
    BY <2>1, <2>2, <2>3, <2>4, <2>5, <2>6 DEF Wiring
<1>14. QED
  BY <1>7, <1>8, <1>9, <1>10, <1>11, <1>12, <1>13

\* A new answer is younger than all the others.
LEMMA RespondLaterKeeps ==
  ASSUME JInv, RespondLater
  PROVE  TypeOK' /\ Life' /\ Bytes' /\ Reads' /\ Places' /\ Reporting' /\ Wiring'
<1>1. ready' = ready \o Respond(1) /\ posted + 1 <= MaxAnswers /\ posted' = posted + 1
  BY DEF RespondLater, MayRespond
<1>2. ready \in Seq(Handler) /\ Apart(ready) /\ Ordered(ready)
  BY DEF JInv, TypeOK, Places
<1>3. /\ ready' \in Seq(Handler) /\ Apart(ready') /\ Ordered(ready')
      /\ posted' = posted + 1 /\ posted' \in 0..MaxAnswers
      /\ SingleRead(ready) => SingleRead(ready')
      /\ \A h \in Members(ready) : h \in Members(ready')
      /\ \A h \in Members(ready') :
           h \in Members(ready) \/ (h.kind = "respond" /\ h.answer = posted + 1)
      /\ \E h \in Members(ready') : h.kind = "respond" /\ h.answer = posted + 1
  BY <1>1, <1>2, Posted
<1>4. UNCHANGED <<state, socket, wanted, header, sent, stream, delivered, sendQueue, sending, wire, called, hooks>>
  BY DEF RespondLater
<1>5. TypeOK'
  BY <1>3 DEF JInv, TypeOK, RespondLater, IsOpen
<1>6. Life'
  BY DEF JInv, Life, RespondLater
<1>7. Bytes'
  BY <1>3 DEF JInv, Bytes, RespondLater
<1>8. Reads'
  BY <1>3 DEF JInv, Reads, RespondLater, IsOpen
<1>9. Places' /\ Reporting' /\ Wiring'
  BY <1>3, <1>4, AnswersPosted
<1>10. QED
  BY <1>5, <1>6, <1>7, <1>8, <1>9

\* A new connection has read, queued, sent and reported nothing.
LEMMA InitJInv == Init => JInv
<1> SUFFICES ASSUME Init
             PROVE  JInv
  OBVIOUS
<1>1. IInv
  BY InitIInv
<1>2. /\ ready = <<>> /\ sending = <<>> /\ wire = <<>> /\ stream = <<>> /\ posted = 0
      /\ state = "idle" /\ socket /\ wanted = 0 /\ delivered = <<>>
      /\ \A r \in Answer : called[r] = <<>>
  BY DEF Init
<1>3. /\ Members(ready) = {} /\ ready \in Seq(Handler) /\ Apart(ready) /\ Ordered(ready)
  BY <1>2, None
<1>4. Len(<<>>) = 0 /\ 1..0 = {} /\ \A S : <<>> \in Seq(S)
  OBVIOUS
<1>6. TypeOK
  <2>1. posted \in 0..MaxAnswers /\ Len(sent) <= MaxMessages
    BY <1>2, <1>4, TcpClientAssumption DEF Init
  <2>2. QED
    BY <2>1 DEF Init, TypeOK, State
<1>7. Life /\ Bytes /\ Reads
  BY <1>2, <1>3, <1>4 DEF Life, Bytes, Reads
<1>8. Places
  BY <1>2, <1>3, <1>4 DEF Places, Ascending
<1>9. Reporting
  <2>1. \A r \in Answer : ~(r <= 0)
    BY TcpClientAssumption DEF Answer
  <2>2. QED
    BY <1>2, <2>1 DEF Reporting
<1>10. Wiring
  <2>1. \A r \in Answer : called[r] # <<TRUE>>
    <3>1. <<>> # <<TRUE>>
      OBVIOUS
    <3>2. QED
      BY <1>2, <3>1
  <2>2. QED
    BY <1>2, <1>3, <1>4, <2>1 DEF Wiring
<1>11. QED
  BY <1>1, <1>6, <1>7, <1>8, <1>9, <1>10 DEF JInv

\* Every step keeps the invariant.
LEMMA NextJInv == JInv /\ [Next]_vars => JInv'
<1> SUFFICES ASSUME JInv, [Next]_vars
             PROVE  JInv'
  OBVIOUS
<1>1. IInv'
  BY NextIInv DEF JInv
<1>2. CASE Start \/ StartThrows
  BY <1>1, <1>2, StartKeeps, StartThrowsKeeps DEF JInv
<1>3. CASE RunHandler
  <2>1. CASE ReadHeader \/ ReadEmptyRequest \/ ReadBody \/ ReadError \/ ReadAfterClose
    BY <1>1, <2>1, ReadHeaderKeeps, ReadEmptyRequestKeeps, ReadBodyKeeps, ReadErrorKeeps,
       ReadAfterCloseKeeps DEF JInv
  <2>2. CASE StartSend \/ SendNotConnected \/ SendDone \/ SendError \/ SendAfterClose
    BY <1>1, <2>2, StartSendKeeps, SendNotConnectedKeeps, SendDoneKeeps, SendErrorKeeps,
       SendAfterCloseKeeps DEF JInv
  <2>3. QED
    BY <1>3, <2>1, <2>2 DEF RunHandler
<1>4. CASE Environment
  <2>1. CASE ClientSends \/ ReadCompletes \/ ReadFails
    BY <1>1, <2>1, ClientSendsKeeps, ReadCompletesKeeps, ReadFailsKeeps DEF JInv
  <2>2. CASE SendCompletes \/ SendFails \/ RespondLater
    BY <1>1, <2>2, SendCompletesKeeps, SendFailsKeeps, RespondLaterKeeps DEF JInv
  <2>3. QED
    BY <1>4, <2>1, <2>2 DEF Environment
<1>5. CASE UNCHANGED vars
  <2>1. /\ ready' = ready /\ state' = state /\ socket' = socket /\ wanted' = wanted
        /\ header' = header /\ sent' = sent /\ stream' = stream /\ delivered' = delivered
        /\ posted' = posted /\ sendQueue' = sendQueue /\ sending' = sending
        /\ wire' = wire /\ called' = called /\ hooks' = hooks
    BY <1>5 DEF vars
  <2>2. TypeOK' /\ Life' /\ Bytes' /\ Reads'
    BY <2>1 DEF JInv, TypeOK, Life, Bytes, Reads, IsOpen
  <2>3. Places' /\ Reporting'
    BY <2>1 DEF JInv, Places, Reporting
  <2>4. Wiring'
    BY <2>1 DEF JInv, Wiring, IsSent
  <2>5. QED
    BY <1>1, <2>2, <2>3, <2>4 DEF JInv
<1>6. QED
  BY <1>2, <1>3, <1>4, <1>5 DEF Next

\* The invariant holds.
LEMMA JInvariance == Spec => []JInv
  BY InitJInv, NextJInv, PTL DEF Spec

-----------------------------------------------------------------------------

\* The state of a connection keeps its types whatever the client, the socket
\* and the commands do: async_read is never asked for more than a header or
\* max_allowed_body_size, because on_body_size refuses it first.
THEOREM TypeCorrectness == Spec => []TypeOK
<1>1. JInv => TypeOK
  BY DEF JInv
<1>2. QED
  BY JInvariance, <1>1, PTL

\* The answers are on the wire in the order of respond(), none of them twice,
\* however many async_send are under way together.
THEOREM WireOrder == Spec => []WireInOrder
<1>1. JInv => WireInOrder
  BY DEF JInv, Wiring, WireInOrder
<1>2. QED
  BY JInvariance, <1>1, PTL

\* on_send reports success only for an answer the socket has taken.
THEOREM SuccessOnWire == Spec => []SuccessIsOnTheWire
<1>1. JInv => SuccessIsOnTheWire
  BY DEF JInv, Wiring, IsSent, SuccessIsOnTheWire
<1>2. QED
  BY JInvariance, <1>1, PTL

\* A set whose elements are all equal has one element at most.
LEMMA AtMostOne ==
  ASSUME NEW S, \A i, j \in S : i = j
  PROVE  IF S = {} THEN Cardinality(S) = 0 ELSE Cardinality(S) = 1
<1>1. CASE S = {}
  BY <1>1, FS_EmptySet
<1>2. CASE S # {}
  <2>1. PICK x \in S : TRUE
    BY <1>2
  <2>2. S = {x}
    BY <2>1
  <2>3. QED
    BY <1>2, <2>2, FS_Singleton
<1>3. QED
  BY <1>1, <1>2

\* While the connection is open exactly one async_read is under way or has
\* completed: the client never stalls, and two reads never share the buffer.
THEOREM OneRead == Spec => []OneReadWhileOpen
<1>1. ASSUME JInv PROVE OneReadWhileOpen
  <2> DEFINE S == {i \in 1..Len(ready) : ready[i].kind = "read"}
  <2>1. ~IsOpen => wanted = 0
    BY <1>1 DEF JInv, Reads
  <2>2. ASSUME IsOpen, state # "idle"
        PROVE  Cardinality(S) + (IF wanted > 0 THEN 1 ELSE 0) = 1
    <3>1. \A i, j \in S : i = j
      BY <1>1, <2>2 DEF JInv, Reads, SingleRead
    <3>2. wanted > 0 => S = {}
      BY <1>1, <2>2 DEF JInv, Reads, Members
    <3>3. wanted = 0 => S # {}
      BY <1>1, <2>2 DEF JInv, Reads, Members
    <3>4. wanted \in Nat
      BY <1>1, TcpClientAssumption DEF JInv, TypeOK
    <3>5. IF S = {} THEN Cardinality(S) = 0 ELSE Cardinality(S) = 1
      BY <3>1, AtMostOne
    <3> HIDE DEF S
    <3>6. QED
      BY <3>2, <3>3, <3>4, <3>5
  <2>3. QED
    BY <2>1, <2>2 DEF OneReadWhileOpen, ReadsQueued
<1>2. QED
  BY JInvariance, <1>1, PTL

\* Every call of respond() is in one place: posted, being sent, or reported.
\* None is lost and no callback is called twice, even when on_error closes the
\* connection with sends under way.
THEOREM OnePlace == Spec => []AnswerInOnePlace
<1>1. ASSUME JInv PROVE AnswerInOnePlace
  <2>1. SUFFICES ASSUME NEW r \in Answer
                 PROVE  Count(sendQueue, r) + Count(sending, r) + CountHandlers(r)
                          + Len(called[r]) = IF r <= posted THEN 1 ELSE 0
    BY DEF AnswerInOnePlace
  <2> DEFINE Q == {i \in 1..Len(sendQueue) : sendQueue[i] = r}
             S == {i \in 1..Len(sending) : sending[i] = r}
             H == {i \in 1..Len(ready) : ready[i].kind # "read" /\ ready[i].answer = r}
  <2>2. Q = {}
    BY <1>1, Known
  <2>3. \A i, j \in S : i = j
    <3>1. SUFFICES ASSUME NEW i \in S, NEW j \in S, i < j PROVE FALSE
      <4>1. \A i, j \in S : i \in Nat /\ j \in Nat
        OBVIOUS
      <4>2. \A i, j \in Nat : i < j \/ j < i \/ i = j
        OBVIOUS
      <4> HIDE DEF S
      <4>3. QED
        BY <3>1, <4>1, <4>2
    <3>2. sending[i] < sending[j]
      BY <1>1, <3>1 DEF JInv, Places, Ascending
    <3>3. r \in Nat /\ ~(r < r)
      BY <1>1, Known
    <3>4. QED
      BY <3>1, <3>2, <3>3
  <2>4. \A i, j \in H : i = j
    BY <1>1 DEF JInv, Places, Apart
  <2>5. \A i \in H : ready[i] \in Members(ready) /\ ready[i].kind # "read" /\ ready[i].answer = r
    BY DEF Members
  <2>6. H # {} => r <= posted /\ called[r] = <<>> /\ S = {}
    BY <1>1, <2>5 DEF JInv, Places
  <2>7. S # {} => r <= posted /\ called[r] = <<>>
    BY <1>1 DEF JInv, Places
  <2>8. r <= posted /\ called[r] = <<>> => H # {} \/ S # {}
    <3>1. SUFFICES ASSUME r <= posted, called[r] = <<>> PROVE H # {} \/ S # {}
      OBVIOUS
    <3>2. CASE \E h \in Members(ready) : h.kind # "read" /\ h.answer = r
      BY <3>2 DEF Members
    <3>3. CASE \E i \in 1..Len(sending) : sending[i] = r
      BY <3>3
    <3>4. QED
      BY <1>1, <3>1, <3>2 DEF JInv, Reporting
  <2>9. /\ called[r] # <<>> => r <= posted /\ Len(called[r]) = 1
        /\ called[r] = <<>> => Len(called[r]) = 0
    <3>1. called[r] \in {<<>>, <<TRUE>>, <<FALSE>>}
      BY <1>1 DEF JInv, Reporting
    <3>3. r > posted => called[r] = <<>>
      BY <1>1 DEF JInv, Places
    <3>4. r > posted \/ r <= posted
      BY <1>1, Known
    <3>5. QED
      BY <3>1, <3>3, <3>4
  <2>10. /\ Cardinality(Q) = 0
         /\ IF S = {} THEN Cardinality(S) = 0 ELSE Cardinality(S) = 1
         /\ IF H = {} THEN Cardinality(H) = 0 ELSE Cardinality(H) = 1
    <3>1. Cardinality(Q) = 0
      BY <2>2, FS_EmptySet
    <3>2. IF S = {} THEN Cardinality(S) = 0 ELSE Cardinality(S) = 1
      BY <2>3, AtMostOne
    <3>3. IF H = {} THEN Cardinality(H) = 0 ELSE Cardinality(H) = 1
      BY <2>4, AtMostOne
    <3>4. QED
      BY <3>1, <3>2, <3>3
  <2>11. /\ Count(sendQueue, r) = Cardinality(Q) /\ Count(sending, r) = Cardinality(S)
         /\ CountHandlers(r) = Cardinality(H)
    BY DEF Count, CountHandlers
  <2> HIDE DEF Q, S, H
  <2>12. CASE H # {}
    BY <2>6, <2>10, <2>11, <2>12
  <2>13. CASE H = {} /\ S # {}
    BY <2>7, <2>10, <2>11, <2>13
  <2>14. CASE H = {} /\ S = {}
    <3>1. CASE called[r] = <<>>
      <4>1. ~(r <= posted) /\ Len(called[r]) = 0
        BY <2>8, <2>14, <3>1
      <4>2. QED
        BY <2>10, <2>11, <2>14, <4>1
    <3>2. CASE called[r] # <<>>
      <4>1. r <= posted /\ Len(called[r]) = 1
        BY <2>9, <3>2
      <4>2. QED
        BY <2>10, <2>11, <2>14, <4>1
    <3>3. QED
      BY <3>1, <3>2
  <2>15. QED
    BY <2>12, <2>13, <2>14
<1>2. QED
  BY JInvariance, <1>1, PTL

-----------------------------------------------------------------------------
(* The connection implements Connection. *)

LEMMA SameReport ==
  ASSUME called' = called
  PROVE  Reported' = Reported
  BY DEF Reported

\* A callback is called for an answer of which nothing has been reported.
LEMMA OneReport ==
  ASSUME JInv, NEW r \in Answer, NEW ok \in BOOLEAN, r <= posted, called[r] = <<>>,
         called' = [called EXCEPT ![r] = Append(@, ok)]
  PROVE  Port!Reports(r, IF ok THEN "success" ELSE "failure")
<1>1. called \in [Answer -> Seq(BOOLEAN)]
  BY DEF JInv, TypeOK
<1>2. /\ Append(<<>>, TRUE) = <<TRUE>> /\ Append(<<>>, FALSE) = <<FALSE>>
      /\ <<TRUE>> # <<>> /\ <<FALSE>> # <<>> /\ <<FALSE>> # <<TRUE>>
  OBVIOUS
<1>3. /\ called'[r] = IF ok THEN <<TRUE>> ELSE <<FALSE>>
      /\ \A q \in Answer : q # r => called'[q] = called[q]
  <2>1. /\ called'[r] = Append(called[r], ok)
        /\ \A q \in Answer : q # r => called'[q] = called[q]
    BY <1>1
  <2>2. CASE ok = TRUE
    BY <1>2, <2>1, <2>2
  <2>3. CASE ok = FALSE
    BY <1>2, <2>1, <2>3
  <2>4. QED
    BY <2>2, <2>3
<1>4. Reported[r] = "none"
  <2>1. \A q \in Answer : called[q] = <<>> => Reported[q] = "none"
    BY <1>2 DEF Reported
  <2>2. QED
    BY <2>1
<1>5. Reported'[r] = IF ok THEN "success" ELSE "failure"
  <2>1. \A q \in Answer :
          /\ called'[q] = <<TRUE>> => Reported'[q] = "success"
          /\ called'[q] = <<FALSE>> => Reported'[q] = "failure"
    BY <1>2 DEF Reported
  <2>2. QED
    BY <1>3, <2>1
<1>6. \A q \in Answer : q # r => Reported'[q] = Reported[q]
  BY <1>3 DEF Reported
<1>7. Reported' = [Reported EXCEPT ![r] = IF ok THEN "success" ELSE "failure"]
  <2>1. Reported' = [q \in Answer |-> Reported'[q]] /\ Reported = [q \in Answer |-> Reported[q]]
    BY DEF Reported
  <2> DEFINE what == IF ok THEN "success" ELSE "failure"
  <2>2. \A q \in Answer : Reported'[q] = IF q = r THEN what ELSE Reported[q]
    BY <1>5, <1>6
  <2> HIDE DEF what
  <2>3. Reported' = [Reported EXCEPT ![r] = what]
    BY <2>1, <2>2
  <2>4. QED
    BY <2>3 DEF what
<1>8. QED
  BY <1>4, <1>7 DEF Port!Reports

\* A handler runs on a connection that has been accepted.
LEMMA Linked ==
  ASSUME JInv
  PROVE  /\ ready # <<>> => state # "idle"
         /\ state # "idle" => Link = IF IsOpen THEN "open" ELSE "closed"
         /\ state # "idle" /\ ~IsOpen => state = "closed"
         /\ state = "closed" => Link = "closed"
<1>1. state \in State
  BY DEF JInv, TypeOK
<1>2. QED
  BY <1>1 DEF JInv, Life, Link, IsOpen, State

LEMMA Answering ==
  ASSUME JInv, ready # <<>>, Head(ready).kind # "read"
  PROVE  /\ Head(ready).answer \in Answer /\ Head(ready).answer <= posted
         /\ called[Head(ready).answer] = <<>>
<1>1. Head(ready) \in Members(ready)
  <2>1. ready \in Seq(Handler)
    BY DEF JInv, TypeOK
  <2>2. QED
    BY <2>1, MembersTail
<1>2. QED
  BY <1>1, Known DEF JInv, Places

LEMMA DeliverGives ==
  ASSUME TypeOK, NEW head, NEW body, NEW n \in {0, 1}, Deliver(head, body, n)
  PROVE  /\ Port!MayGive /\ Len(delivered') = Len(delivered) + 1 /\ called' = called
         /\ socket' = socket
<1>1. delivered' = Append(delivered, [header |-> head, body |-> body]) /\ posted' = posted + n
      /\ called' = called /\ socket' = socket
  BY DEF Deliver
<1>2. posted \in Nat
  BY TcpClientAssumption DEF TypeOK
<1>3. posted' \in {posted, posted + 1}
  BY <1>1, <1>2
<1>4. delivered \in Seq(Request)
  BY DEF TypeOK
<1>5. Len(delivered') = Len(delivered) + 1
  BY <1>1, <1>4
<1>6. QED
  BY <1>1, <1>3, <1>5 DEF Port!MayGive

LEMMA ErrorCloses ==
  ASSUME TypeOK, NEW n \in {0, 1}, OnError(n)
  PROVE  Port!MayGive /\ Link' = "closed"
<1>1. posted' = posted + n /\ state' = "closed"
  BY DEF OnError
<1>2. posted \in Nat
  BY TcpClientAssumption DEF TypeOK
<1>3. posted' \in {posted, posted + 1}
  BY <1>1, <1>2
<1>4. QED
  BY <1>1, <1>3 DEF Port!MayGive, Link

\* Every handler is a step of Connection, or changes nothing it shows.
LEMMA RunHandlerMaps ==
  ASSUME JInv, RunHandler
  PROVE  Port!Next \/ UNCHANGED <<Link, Len(delivered), posted, Reported>>
<1>1. /\ TypeOK /\ ready # <<>> /\ state # "idle"
      /\ Link = IF IsOpen THEN "open" ELSE "closed"
  <2>1. ready # <<>>
    BY DEF RunHandler, ReadHeader, ReadEmptyRequest, ReadBody, ReadOk, ReadError,
           ReadAfterClose, StartSend, SendNotConnected, SendDone, SendError,
           SendAfterClose, Running
  <2>2. QED
    BY <2>1, Linked DEF JInv
<1>2. CASE ReadHeader
  <2>1. /\ state' = "reading_body" /\ socket' /\ delivered' = delivered /\ posted' = posted
        /\ called' = called /\ IsOpen
    BY <1>2 DEF ReadHeader, ReadOk, IsOpen
  <2>2. Link' = "open"
    BY <2>1 DEF Link
  <2>3. QED
    BY <1>1, <2>1, <2>2, SameReport
<1>3. CASE ReadEmptyRequest
  <2>1. PICK n \in {0, 1} : Deliver(Head(ready).bytes, Head(ready).bytes, n)
    BY <1>3 DEF ReadEmptyRequest
  <2>2. /\ Port!MayGive /\ Len(delivered') = Len(delivered) + 1 /\ called' = called
        /\ socket' = socket
    BY <1>1, <2>1, DeliverGives
  <2>3. IsOpen /\ Link' = Link
    BY <1>3, <2>2 DEF ReadEmptyRequest, ReadOk, Link
  <2>4. Reported' = Reported
    BY <2>2, SameReport
  <2>5. Port!Serve
    BY <1>1, <2>2, <2>3, <2>4 DEF Port!Serve
  <2>6. QED
    BY <2>5 DEF Port!Next
<1>4. CASE ReadBody
  <2>1. PICK n \in {0, 1} : Deliver(header, Head(ready).bytes, n)
    BY <1>4 DEF ReadBody
  <2>2. /\ Port!MayGive /\ Len(delivered') = Len(delivered) + 1 /\ called' = called
        /\ socket' = socket
    BY <1>1, <2>1, DeliverGives
  <2>3. IsOpen /\ state' = "reading_header"
    BY <1>4 DEF ReadBody, ReadOk
  <2>4. Link = "open" /\ Link' = "open"
    BY <1>1, <2>3 DEF Link
  <2>5. Reported' = Reported
    BY <2>2, SameReport
  <2>6. Port!Serve
    BY <2>2, <2>4, <2>5 DEF Port!Serve
  <2>7. QED
    BY <2>6 DEF Port!Next
<1>5. CASE ReadError
  <2>1. PICK n \in {0, 1} : OnError(n)
    BY <1>5 DEF ReadError
  <2>2. Port!MayGive /\ Link' = "closed"
    BY <1>1, <2>1, ErrorCloses
  <2>3. IsOpen /\ delivered' = delivered /\ called' = called
    BY <1>5 DEF ReadError
  <2>4. Reported' = Reported
    BY <2>3, SameReport
  <2>5. Port!Close
    BY <1>1, <2>2, <2>3, <2>4 DEF Port!Close
  <2>6. QED
    BY <2>5 DEF Port!Next
<1>6. CASE ReadAfterClose \/ StartSend
  <2>1. /\ state' = state /\ socket' = socket /\ delivered' = delivered /\ posted' = posted
        /\ called' = called
    BY <1>6 DEF ReadAfterClose, StartSend
  <2>2. QED
    BY <2>1, SameReport DEF Link
<1>7. CASE SendNotConnected \/ SendAfterClose
  <2>1. Head(ready).kind # "read" /\ ~IsOpen
    BY <1>7 DEF SendNotConnected, SendAfterClose, Running
  <2>2. /\ Head(ready).answer \in Answer /\ Head(ready).answer <= posted
        /\ called[Head(ready).answer] = <<>>
    BY <1>1, <2>1, Answering
  <2>3. Call(Head(ready).answer, FALSE)
    <3>1. sendQueue = <<>>
      BY Known
    <3>2. Head(Append(<<>>, Head(ready).answer)) = Head(ready).answer
      BY <2>2
    <3>3. QED
      BY <1>7, <3>1, <3>2 DEF SendNotConnected, SendAfterClose
  <2>4. Port!Reports(Head(ready).answer, "failure")
    BY <2>2, <2>3, OneReport DEF Call
  <2>5. state' = state /\ socket' = socket /\ delivered' = delivered /\ posted' = posted
    BY <1>7 DEF SendNotConnected, SendAfterClose
  <2>6. Port!Failure
    BY <1>1, <2>1, <2>2, <2>4, <2>5 DEF Port!Failure, Link
  <2>7. QED
    BY <2>6 DEF Port!Next
<1>8. CASE SendDone
  <2>1. Head(ready).kind # "read" /\ IsOpen /\ Call(Head(ready).answer, TRUE)
    BY <1>8 DEF SendDone, Running
  <2>2. /\ Head(ready).answer \in Answer /\ Head(ready).answer <= posted
        /\ called[Head(ready).answer] = <<>>
    BY <1>1, <2>1, Answering
  <2>3. Port!Reports(Head(ready).answer, "success")
    BY <2>1, <2>2, OneReport DEF Call
  <2>4. state' = state /\ socket' = socket /\ delivered' = delivered /\ posted' = posted
    BY <1>8 DEF SendDone
  <2>5. Port!Success
    BY <1>1, <2>1, <2>2, <2>3, <2>4 DEF Port!Success, Link
  <2>6. QED
    BY <2>5 DEF Port!Next
<1>9. CASE SendError
  <2>1. Head(ready).kind # "read" /\ IsOpen /\ Call(Head(ready).answer, FALSE)
    BY <1>9 DEF SendError, Running
  <2>2. /\ Head(ready).answer \in Answer /\ Head(ready).answer <= posted
        /\ called[Head(ready).answer] = <<>>
    BY <1>1, <2>1, Answering
  <2>3. Port!Reports(Head(ready).answer, "failure")
    BY <2>1, <2>2, OneReport DEF Call
  <2>4. PICK n \in {0, 1} : OnError(n)
    BY <1>9 DEF SendError
  <2>5. Port!MayGive /\ Link' = "closed"
    BY <1>1, <2>4, ErrorCloses
  <2>6. delivered' = delivered
    BY <1>9 DEF SendError
  <2>7. Port!Close
    BY <1>1, <2>1, <2>2, <2>3, <2>5, <2>6 DEF Port!Close
  <2>8. QED
    BY <2>7 DEF Port!Next
<1>10. QED
  BY <1>2, <1>3, <1>4, <1>5, <1>6, <1>7, <1>8, <1>9 DEF RunHandler

\* What the server and its commands see of a connection is what Connection
\* allows: a request is served and an answer succeeds on an open connection
\* only, each answer is reported once, and fails only as it closes or after.
THEOREM ConnectionImplemented == Spec => ImplementsConnection
<1>1. Init => Port!Init
  <2> SUFFICES ASSUME Init PROVE Port!Init
    OBVIOUS
  <2>1. Link = "new" /\ posted = 0 /\ Len(delivered) = 0
    BY DEF Init, Link
  <2>2. Reported = [r \in Answer |-> "none"]
    BY DEF Init, Reported
  <2>3. QED
    BY <2>1, <2>2 DEF Port!Init
<1>2. JInv /\ [Next]_vars => [Port!Next]_<<Link, Len(delivered), posted, Reported>>
  <2> SUFFICES ASSUME JInv, [Next]_vars
               PROVE  Port!Next \/ UNCHANGED <<Link, Len(delivered), posted, Reported>>
    OBVIOUS
  <2>1. CASE Start \/ StartThrows
    <3>1. /\ Link = "new" /\ Link' \in {"open", "dropped"}
          /\ delivered' = delivered /\ posted' = posted /\ called' = called
      BY <2>1 DEF Start, StartThrows, Link
    <3>2. Reported' = Reported
      BY <3>1, SameReport
    <3>3. Port!Accept
      BY <3>1, <3>2 DEF Port!Accept
    <3>4. QED
      BY <3>3 DEF Port!Next
  <2>2. CASE RunHandler
    BY <2>2, RunHandlerMaps
  <2>3. CASE RespondLater
    <3>1. /\ Link \in {"open", "closed"} /\ Link' = Link /\ posted' = posted + 1
          /\ delivered' = delivered /\ called' = called
      BY <2>3, Linked DEF RespondLater, Link
    <3>2. Reported' = Reported
      BY <3>1, SameReport
    <3>3. Port!Give
      BY <3>1, <3>2 DEF Port!Give
    <3>4. QED
      BY <3>3 DEF Port!Next
  <2>4. CASE \/ ClientSends \/ ReadCompletes \/ ReadFails \/ SendCompletes \/ SendFails
             \/ UNCHANGED vars
    <3>1. /\ state' = state /\ socket' = socket /\ delivered' = delivered /\ posted' = posted
          /\ called' = called
      BY <2>4 DEF ClientSends, ReadCompletes, ReadFails, SendCompletes, SendFails, vars
    <3>2. QED
      BY <3>1, SameReport DEF Link
  <2>5. QED
    BY <2>1, <2>2, <2>3, <2>4 DEF Next, Environment
<1>3. QED
  BY <1>1, <1>2, JInvariance, PTL DEF Spec, ImplementsConnection, Port!Spec

=============================================================================
