------------------------------ MODULE TcpClient ------------------------------
(***************************************************************************)
(* One connection of a client: accepting it, reading its requests (a header *)
(* and a body of the size the header names), answering them in any number   *)
(* and at any time, and closing it when a read or a send fails, after the   *)
(* disconnection hooks.                                                     *)
(*                                                                          *)
(* `ready' is the part of the io_context's queue that belongs to this       *)
(* connection.  The commands are external: one may answer while it handles  *)
(* a request, while a disconnection hook runs, or later.                    *)
(***************************************************************************)
EXTENDS Naturals, Sequences, FiniteSets

CONSTANTS
  HeaderSize,   \* request_header::size
  MaxBody,      \* tcp_client::max_allowed_body_size
  BodySizes,    \* the body sizes a client sends
  MaxMessages,  \* bound: messages the client sends
  MaxAnswers    \* bound: calls of respond()

ASSUME TcpClientAssumption ==
  /\ HeaderSize \in Nat \ {0}
  /\ MaxBody \in Nat
  /\ BodySizes \subseteq Nat
  /\ MaxMessages \in Nat
  /\ MaxAnswers \in Nat

VARIABLES
  ready,      \* the completion handlers ready to run, oldest first
  state,      \* read_state_machine::state_
  socket,     \* TRUE if the socket is open
  wanted,     \* the size of the read under way, 0 if there is none
  header,     \* the bytes of the last header read
  sent,       \* the body size of each message the client has sent
  stream,     \* the bytes the client has sent that are not read yet
  delivered,  \* history: the requests handed to server::on_request
  posted,     \* the number of calls of respond() so far
  sendQueue,  \* send_queue_
  sending,    \* the async_send operations under way, oldest first
  wire,       \* history: the answers written to the socket, whole or in part
  called,     \* called[r]: what the callback of answer r was called with
  hooks       \* how often the disconnection hooks have run

vars == <<ready, state, socket, wanted, header, sent, stream, delivered,
          posted, sendQueue, sending, wire, called, hooks>>

Answer == 1..MaxAnswers

\* The k-th byte of the i-th message.
Byte == [msg : 1..MaxMessages, pos : Nat]

Message(i, body) == [k \in 1..(HeaderSize + body) |-> [msg |-> i, pos |-> k]]

HeaderOf(i)     == Message(i, 0)
BodyOf(i, body) == [k \in 1..body |-> [msg |-> i, pos |-> HeaderSize + k]]

\* What request_header::decode finds as body_size.
BodySize(bytes) == sent[bytes[HeaderSize].msg]

Handler ==
  [kind : {"read"}, ok : BOOLEAN, bytes : Seq(Byte)] \cup
  [kind : {"respond"}, answer : Answer] \cup
  [kind : {"sent"}, answer : Answer, ok : BOOLEAN]

State == {"idle", "reading_header", "reading_body", "closed"}

Request == [header : Seq(Byte), body : Seq(Byte)]

TypeOK ==
  /\ ready \in Seq(Handler)
  /\ state \in State
  /\ socket \in BOOLEAN
  /\ wanted \in {0, HeaderSize} \cup 1..MaxBody
  /\ header \in Seq(Byte)
  /\ sent \in Seq(BodySizes) /\ Len(sent) <= MaxMessages
  /\ stream \in Seq(Byte)
  /\ delivered \in Seq(Request)
  /\ posted \in 0..MaxAnswers
  /\ sendQueue \in Seq(Answer)
  /\ sending \in Seq(Answer)
  /\ wire \in Seq([answer : Answer, whole : BOOLEAN])
  /\ called \in [Answer -> Seq(BOOLEAN)]
  /\ hooks \in Nat

Init ==
  /\ ready = <<>>
  /\ state = "idle"
  /\ socket = TRUE
  /\ wanted = 0
  /\ header = <<>>
  /\ sent = <<>>
  /\ stream = <<>>
  /\ delivered = <<>>
  /\ posted = 0
  /\ sendQueue = <<>>
  /\ sending = <<>>
  /\ wire = <<>>
  /\ called = [r \in Answer |-> <<>>]
  /\ hooks = 0

-----------------------------------------------------------------------------
(* What the handlers are made of. *)

IsOpen == socket /\ state # "closed"

Running(kind) == ready # <<>> /\ Head(ready).kind = kind

\* n calls of respond(), which posts.
Respond(n) ==
  [i \in 1..n |-> [kind |-> "respond", answer |-> posted + i]]

\* The commands and hooks that a handler calls may answer.
MayRespond(n) == n \in {0, 1} /\ posted + n <= MaxAnswers

\* sock_.close() completes what is under way with operation_aborted.
Aborted(reading, sends) ==
  (IF reading > 0 THEN <<[kind |-> "read", ok |-> FALSE, bytes |-> <<>>]>>
                  ELSE <<>>)
  \o [i \in 1..Len(sends) |-> [kind |-> "sent", answer |-> sends[i], ok |-> FALSE]]

\* on_error: server::on_error runs the hooks while the connection is still
\* open, then close().
OnError_CloseOnly(n) ==
  /\ n = 0
  /\ state' = "closed"
  /\ socket' = FALSE
  /\ wanted' = 0
  /\ sending' = <<>>
  /\ ready' = Tail(ready) \o Aborted(wanted, sending)
  /\ UNCHANGED <<hooks, posted>>

OnError_HooksOnly(n) ==
  /\ MayRespond(n)
  /\ hooks' = hooks + 1
  /\ posted' = posted + n
  /\ ready' = Tail(ready) \o Respond(n)
  /\ UNCHANGED <<state, socket, wanted, sending>>

OnError(n) ==
  /\ MayRespond(n)
  /\ hooks' = hooks + 1
  /\ posted' = posted + n
  /\ state' = "closed"
  /\ socket' = FALSE
  /\ wanted' = 0
  /\ sending' = <<>>
  /\ ready' = Tail(ready) \o Respond(n) \o Aborted(wanted, sending)

\* The callback of an answer, which hears whether the send succeeded.
Call_Success(r, ok) == called' = [called EXCEPT ![r] = Append(@, TRUE)]

Call(r, ok) == called' = [called EXCEPT ![r] = Append(@, ok)]

-----------------------------------------------------------------------------
(* Accepting. *)

\* server::on_accept and tcp_client::start.
Start ==
  /\ state = "idle" /\ socket
  /\ state' = "reading_header"
  /\ wanted' = HeaderSize
  /\ UNCHANGED <<ready, socket, header, sent, stream, delivered, posted,
                 sendQueue, sending, wire, called, hooks>>

\* endpoint() throws if the peer has gone: the connection is dropped.
StartThrows ==
  /\ state = "idle" /\ socket
  /\ socket' = FALSE
  /\ UNCHANGED <<ready, state, wanted, header, sent, stream, delivered,
                 posted, sendQueue, sending, wire, called, hooks>>

-----------------------------------------------------------------------------
(* Reading. *)

\* A read has completed on a connection that is still open.
ReadOk == Running("read") /\ IsOpen /\ Head(ready).ok

\* The request goes to its command with the buffer as its body.
Deliver(head, body, n) ==
  /\ MayRespond(n)
  /\ posted' = posted + n
  /\ ready' = Tail(ready) \o Respond(n)
  /\ delivered' = Append(delivered, [header |-> head, body |-> body])
  /\ UNCHANGED <<socket, sent, stream, sendQueue, sending, wire, called, hooks>>

TooLarge_Never(bytes) == FALSE

TooLarge(bytes) == BodySize(bytes) > MaxBody

ReadHeader ==
  /\ ReadOk
  /\ state = "reading_header"
  /\ LET bytes == Head(ready).bytes
     IN  /\ ~TooLarge(bytes)
         /\ BodySize(bytes) > 0
         /\ header' = bytes
         /\ wanted' = BodySize(bytes)
  /\ state' = "reading_body"
  /\ ready' = Tail(ready)
  /\ UNCHANGED <<socket, sent, stream, delivered, posted, sendQueue, sending,
                 wire, called, hooks>>

\* Without a body the buffer still holds the header.
ReadEmptyRequest ==
  /\ ReadOk
  /\ state = "reading_header"
  /\ LET bytes == Head(ready).bytes
     IN  /\ ~TooLarge(bytes)
         /\ BodySize(bytes) = 0
         /\ header' = bytes
         /\ \E n \in {0, 1} : Deliver(bytes, bytes, n)
  /\ wanted' = HeaderSize
  /\ UNCHANGED state

ReadBody ==
  /\ ReadOk
  /\ state = "reading_body"
  /\ \E n \in {0, 1} : Deliver(header, Head(ready).bytes, n)
  /\ state' = "reading_header"
  /\ wanted' = HeaderSize
  /\ UNCHANGED header

\* A body too large, or a read that fails.
ReadError ==
  /\ Running("read")
  /\ IsOpen
  /\ Head(ready).ok => state = "reading_header" /\ TooLarge(Head(ready).bytes)
  /\ \E n \in {0, 1} : OnError(n)
  /\ header' = IF Head(ready).ok THEN Head(ready).bytes ELSE header
  /\ UNCHANGED <<sent, stream, delivered, sendQueue, wire, called>>

ReadAfterClose ==
  /\ Running("read")
  /\ ~IsOpen
  /\ ready' = Tail(ready)
  /\ UNCHANGED <<state, socket, wanted, header, sent, stream, delivered,
                 posted, sendQueue, sending, wire, called, hooks>>

-----------------------------------------------------------------------------
(* Answering. *)

\* send_next takes the oldest answer off the queue.
SendNext_Front(queue) ==
  /\ sendQueue' = queue
  /\ sending' = Append(sending, Head(queue))

SendNext(queue) ==
  /\ sendQueue' = Tail(queue)
  /\ sending' = Append(sending, Head(queue))

\* The posted half of respond(), and send_next on an open connection.
StartSend ==
  /\ Running("respond")
  /\ IsOpen
  /\ SendNext(Append(sendQueue, Head(ready).answer))
  /\ ready' = Tail(ready)
  /\ UNCHANGED <<state, socket, wanted, header, sent, stream, delivered,
                 posted, wire, called, hooks>>

\* The same on a closed one: the callback gets not_connected.
SendNotConnected ==
  /\ Running("respond")
  /\ ~IsOpen
  /\ LET queue == Append(sendQueue, Head(ready).answer)
     IN  /\ sendQueue' = Tail(queue)
         /\ Call(Head(queue), FALSE)
  /\ ready' = Tail(ready)
  /\ UNCHANGED <<state, socket, wanted, header, sent, stream, delivered,
                 posted, sending, wire, hooks>>

\* A send completes: the callback, then the next answer if one is queued.
SendDone ==
  /\ Running("sent")
  /\ IsOpen
  /\ Head(ready).ok
  /\ Call(Head(ready).answer, TRUE)
  /\ IF sendQueue = <<>> THEN UNCHANGED <<sendQueue, sending>>
                         ELSE SendNext(sendQueue)
  /\ ready' = Tail(ready)
  /\ UNCHANGED <<state, socket, wanted, header, sent, stream, delivered,
                 posted, wire, hooks>>

SendError ==
  /\ Running("sent")
  /\ IsOpen
  /\ ~Head(ready).ok
  /\ Call(Head(ready).answer, FALSE)
  /\ \E n \in {0, 1} : OnError(n)
  /\ UNCHANGED <<header, sent, stream, delivered, sendQueue, wire>>

SendAfterClose_Silent ==
  /\ Running("sent")
  /\ ~IsOpen
  /\ ready' = Tail(ready)
  /\ UNCHANGED <<state, socket, wanted, header, sent, stream, delivered,
                 posted, sendQueue, sending, wire, called, hooks>>

SendAfterClose ==
  /\ Running("sent")
  /\ ~IsOpen
  /\ Call(Head(ready).answer, FALSE)
  /\ ready' = Tail(ready)
  /\ UNCHANGED <<state, socket, wanted, header, sent, stream, delivered,
                 posted, sendQueue, sending, wire, hooks>>

RunHandler ==
  \/ ReadHeader \/ ReadEmptyRequest \/ ReadBody \/ ReadError \/ ReadAfterClose
  \/ StartSend \/ SendNotConnected \/ SendDone \/ SendError \/ SendAfterClose

-----------------------------------------------------------------------------
(* The environment: the client, the socket and the rest of the server. *)

ClientSends ==
  /\ Len(sent) < MaxMessages
  /\ \E body \in BodySizes :
       /\ sent' = Append(sent, body)
       /\ stream' = stream \o Message(Len(sent) + 1, body)
  /\ UNCHANGED <<ready, state, socket, wanted, header, delivered, posted,
                 sendQueue, sending, wire, called, hooks>>

\* async_read completes when it has all it wants.
ReadCompletes ==
  /\ wanted > 0
  /\ Len(stream) >= wanted
  /\ ready' = Append(ready, [kind |-> "read", ok |-> TRUE,
                             bytes |-> SubSeq(stream, 1, wanted)])
  /\ stream' = SubSeq(stream, wanted + 1, Len(stream))
  /\ wanted' = 0
  /\ UNCHANGED <<state, socket, header, sent, delivered, posted, sendQueue,
                 sending, wire, called, hooks>>

\* The client closes or resets the connection.
ReadFails ==
  /\ wanted > 0
  /\ ready' = Append(ready, [kind |-> "read", ok |-> FALSE, bytes |-> <<>>])
  /\ wanted' = 0
  /\ UNCHANGED <<state, socket, header, sent, stream, delivered, posted,
                 sendQueue, sending, wire, called, hooks>>

\* The socket takes the oldest send, all of it or as much as it has room for;
\* async_send completes either way.
SendCompletes ==
  /\ sending # <<>>
  /\ \E whole \in BOOLEAN :
       wire' = Append(wire, [answer |-> Head(sending), whole |-> whole])
  /\ ready' = Append(ready, [kind |-> "sent", answer |-> Head(sending), ok |-> TRUE])
  /\ sending' = Tail(sending)
  /\ UNCHANGED <<state, socket, wanted, header, sent, stream, delivered,
                 posted, sendQueue, called, hooks>>

SendFails ==
  /\ sending # <<>>
  /\ ready' = Append(ready, [kind |-> "sent", answer |-> Head(sending), ok |-> FALSE])
  /\ sending' = Tail(sending)
  /\ UNCHANGED <<state, socket, wanted, header, sent, stream, delivered,
                 posted, sendQueue, wire, called, hooks>>

\* A command answers from another handler, a router's reply for instance.
RespondLater ==
  /\ state # "idle"
  /\ MayRespond(1)
  /\ posted' = posted + 1
  /\ ready' = ready \o Respond(1)
  /\ UNCHANGED <<state, socket, wanted, header, sent, stream, delivered,
                 sendQueue, sending, wire, called, hooks>>

Environment ==
  \/ ClientSends \/ ReadCompletes \/ ReadFails \/ SendCompletes \/ SendFails
  \/ RespondLater

Next == Start \/ StartThrows \/ RunHandler \/ Environment

Spec == Init /\ [][Next]_vars

\* The io_context runs what is ready, and the socket takes or fails a send.
FairSpec ==
  /\ Spec
  /\ WF_vars(RunHandler)
  /\ WF_vars(SendCompletes \/ SendFails)

-----------------------------------------------------------------------------
(* Properties. *)

\* Every request handed to the server is the client's next message, whole,
\* once, in order and within the limit; one without a body carries its own
\* header's bytes instead, which ReadEmptyRequest leaves in the buffer.
RequestsAsSent ==
  \A i \in 1..Len(delivered) :
    /\ i <= Len(sent)
    /\ sent[i] <= MaxBody
    /\ delivered[i].header = HeaderOf(i)
    /\ delivered[i].body = IF sent[i] = 0 THEN HeaderOf(i) ELSE BodyOf(i, sent[i])

ReadsQueued == Cardinality({i \in 1..Len(ready) : ready[i].kind = "read"})

\* While the connection is open one read is under way or has completed: a
\* client never stalls for want of a read, nor do two reads share the buffer.
OneReadWhileOpen ==
  /\ IsOpen /\ state # "idle" => ReadsQueued + (IF wanted > 0 THEN 1 ELSE 0) = 1
  /\ ~IsOpen => wanted = 0

\* The disconnection hooks run exactly once, when the connection closes, even
\* if a read and sends of it fail together.
HooksOnceAsItCloses == hooks = IF state = "closed" THEN 1 ELSE 0

Count(seq, r) == Cardinality({i \in 1..Len(seq) : seq[i] = r})

CountHandlers(r) ==
  Cardinality({i \in 1..Len(ready) : ready[i].kind # "read" /\ ready[i].answer = r})

\* An answer given to respond() is in one place: posted, queued, being sent or
\* reported to its callback.  None is lost and no callback is called twice.
AnswerInOnePlace ==
  \A r \in Answer :
    Count(sendQueue, r) + Count(sending, r) + CountHandlers(r) + Len(called[r])
      = IF r <= posted THEN 1 ELSE 0

\* The answers are on the wire in the order of respond(), none twice, though
\* several sends are under way at a time and some are cut short.
WireInOrder ==
  \A i, j \in 1..Len(wire) : i < j => wire[i].answer < wire[j].answer

\* An answer whose callback has heard of success is on the wire.
SuccessIsOnTheWire ==
  \A r \in Answer :
    called[r] = <<TRUE>> => \E i \in 1..Len(wire) : wire[i].answer = r

\* What server and its commands see of the connection.
Link ==
  CASE state = "idle" -> IF socket THEN "new" ELSE "dropped"
    [] state = "closed" -> "closed"
    [] OTHER -> "open"

Reported ==
  [r \in Answer |-> CASE called[r] = <<>> -> "none"
                      [] called[r] = <<TRUE>> -> "success"
                      [] OTHER -> "failure"]

Port == INSTANCE Connection
          WITH Answers <- Answer, link <- Link, served <- Len(delivered),
               given <- posted, reported <- Reported

\* The connection keeps Connection's promise: an answer is reported once,
\* succeeds on an open connection only, and fails only as it closes or after.
ImplementsConnection == Port!Spec

\* Nothing waits in send_queue_ between two handlers, so the queue puts no
\* order on the sends under way.
NothingQueued == sendQueue = <<>>

\* No request is served once the hooks have run.
NothingServedAfterHooks == [][hooks > 0 => delivered' = delivered]_vars

\* Every answer's callback is called in the end.
AnswersReported == \A r \in Answer : (posted >= r) ~> (called[r] # <<>>)

=============================================================================
