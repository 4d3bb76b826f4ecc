------------------------------ MODULE ApiReader ------------------------------
(***************************************************************************)
(* How a connected API reads the router's answers: the length of a word, its *)
(* bytes, the sentence that an empty word ends, and the callback that the    *)
(* sentence's tag names.  Sessions has the same connection with whole         *)
(* sentences; here a sentence is read as it comes.                           *)
(*                                                                          *)
(* A word is its kind and its size.  On the stream it is the bytes of its     *)
(* length, one item each, and its contents, one item of that many bytes.     *)
(* The stream is what the router has sent, read from a place in it that      *)
(* moves on.                                                                 *)
(***************************************************************************)
EXTENDS WordLength, Integers, FiniteSets

CONSTANTS
  ParamSizes,   \* the sizes of the parameters that the router sends
  TagModulus,   \* tags count modulo this, 2^32 in the code
  MaxRequests,  \* bound: sentences sent to the router
  MaxAnswers    \* bound: sentences the router sends

ASSUME ApiReaderAssumption ==
  /\ 1 \in ParamSizes
  /\ ParamSizes \subseteq 1..(MaxLength - 1)
  /\ TagModulus \in Nat \ {0}
  /\ MaxRequests \in Nat
  /\ MaxAnswers \in Nat

VARIABLES
  ready,      \* the completion handlers ready to run, oldest first
  state,      \* api_read_state_machine::state_
  socket,     \* TRUE if the socket is open
  pending,    \* the async_read under way
  sentence,   \* read_context::sentence_, the words read so far
  callbacks,  \* read_cbs_: the request whose callback each tag names, or 0
  requests,   \* how many requests have been sent, 0 is the first one's tag
  answers,    \* the sentences the router has sent
  reserved,   \* before which of them it put a reserved byte not yet read, or 0
  next,       \* the place in the router's stream that is read next
  handled,    \* history: the sentences given to handle_response
  faults,     \* history: "cut", "reserved", "closed" if that has happened
  aborted     \* an assertion has failed and the process is gone

\* What the router has sent, and how far it is read.
stream == <<answers, reserved, next>>

vars == <<ready, state, socket, pending, sentence, callbacks, requests, stream,
          handled, faults, aborted>>

Requests == 1..MaxRequests
Tag(r)   == (r - 1) % TagModulus
Tags     == {Tag(r) : r \in Requests}

-----------------------------------------------------------------------------
(* The router's sentences. *)

\* "!done" stands for !re and !trap too, which are read alike.
Type == {"!done", "!fatal", "!other"}

TypeSize == 5
TagSize  == 6

Word ==
  [kind : Type, size : {TypeSize}] \cup
  [kind : {"param"}, size : {0} \cup ParamSizes] \cup
  [kind : {".tag"}, tag : Tags, size : {TagSize}]

Typed(type) == [kind |-> type, size |-> TypeSize]
Param(size) == [kind |-> "param", size |-> size]
TagWord(t)  == [kind |-> ".tag", tag |-> t, size |-> TagSize]

\* An answer to request r.
AnswersTo(r) ==
  {<<Typed("!done"), TagWord(Tag(r)), Param(size)>> : size \in ParamSizes}

\* Sentences for no request: a bare !done, then ones that are no answer.  The
\* last have two tags, or a word without bytes.
BareSentence == <<Typed("!done")>>

OddSentences ==
  {<<>>, <<Param(1)>>} \cup
  {<<Typed(type), Param(1)>> : type \in {"!fatal", "!other", "!done"}} \cup
  {<<Typed("!done"), TagWord(t), TagWord(t)>> : t \in Tags} \cup
  {<<Typed("!done"), Param(0)>>}

Sentence == Seq(Word)

\* An item of the stream: a byte of a length or the contents of a word.
ByteItem(b) == [kind |-> "byte", size |-> 1, byte |-> b]
WordItem(w) == [kind |-> "word", size |-> w.size, word |-> w]

Garbled == WordItem(Param(1))

Octet == 0..255

Item ==
  [kind : {"byte"}, size : {1}, byte : Octet] \cup
  [kind : {"word"}, size : {0, 1, TypeSize, TagSize} \cup ParamSizes, word : Word]

\* A place in the stream: a byte of the length of a word, or its contents after
\* the last of them.  The word after a sentence's last is the empty one.
Place == [sentence : Nat \ {0}, word : Nat \ {0}, byte : Nat \ {0}]

StartOf(n) == [sentence |-> n, word |-> 1, byte |-> 1]

\* A word without bytes does not end a sentence only if its length is longer
\* than it need be.
LengthOf(size) == IF size = 0 THEN <<128, 0>> ELSE EncodeLength(size)

WordAt(p)   == answers[p.sentence].words[p.word]
LengthAt(p) == LengthOf(WordAt(p).size)

AtEnd(p)      == p.word > Len(answers[p.sentence].words)
AtContents(p) == p.byte > Len(LengthAt(p))

ItemAt(p) ==
  IF AtEnd(p) THEN ByteItem(0)
  ELSE IF AtContents(p) THEN WordItem(WordAt(p))
  ELSE ByteItem(LengthAt(p)[p.byte])

After(p) ==
  IF AtEnd(p) THEN StartOf(p.sentence + 1)
  ELSE IF AtContents(p) THEN [sentence |-> p.sentence, word |-> p.word + 1, byte |-> 1]
  ELSE [p EXCEPT !.byte = @ + 1]

-----------------------------------------------------------------------------
NoRead        == [kind |-> "none"]
ReadNext(n)   == [kind |-> "read", size |-> n]

\* The second read of a long length goes into the buffer of the first, which
\* has one byte.
BufferSize == 1

ReadMore(b) ==
  [kind |-> "more", low |-> LowBits(b), more |-> MoreBytes(b),
   size |-> IF MoreBytes(b) < BufferSize THEN MoreBytes(b) ELSE BufferSize]

Read ==
  {NoRead} \cup
  [kind : {"read"}, size : {0, 1, TypeSize, TagSize} \cup ParamSizes] \cup
  [kind : {"more"}, low : Octet, more : 1..4, size : {BufferSize}]

Handler ==
  [kind : {"read"}, read : Read \ {NoRead}, ok : BOOLEAN, item : Item] \cup
  [kind : {"sent"}, req : Requests]

State == {"idle", "reading_length", "reading_word", "closed"}

Outcome == {"kept", "dropped", "closing", "ignored", "refused"}

TypeOK ==
  /\ ready \in Seq(Handler)
  /\ state \in State
  /\ socket \in BOOLEAN
  /\ pending \in Read
  /\ sentence \in Sentence
  /\ callbacks \in [Tags -> 0..MaxRequests]
  /\ requests \in 0..MaxRequests
  /\ answers \in Seq([words : Sentence, req : 0..MaxRequests])
  /\ reserved \in Nat
  /\ next \in Place
  /\ handled \in Seq([words : Sentence, to : 0..MaxRequests, outcome : Outcome])
  /\ faults \subseteq {"cut", "reserved", "closed"}
  /\ aborted \in BOOLEAN

\* api::open's connection is made and start() has begun to read.
Init ==
  /\ ready = <<>>
  /\ state = "reading_length"
  /\ socket = TRUE
  /\ pending = ReadNext(1)
  /\ sentence = <<>>
  /\ callbacks = [t \in Tags |-> 0]
  /\ requests = 0
  /\ answers = <<>>
  /\ reserved = 0
  /\ next = StartOf(1)
  /\ handled = <<>>
  /\ faults = {}
  /\ aborted = FALSE

-----------------------------------------------------------------------------
(* What the handlers are made of. *)

IsOpen == socket /\ state # "closed"

Running(kind) == ready # <<>> /\ Head(ready).kind = kind

\* read_next_word, on a socket that is open or not by now; the state has been
\* set to idle before.
ReadNextWord_Unchecked(open) ==
  state' = "reading_length" /\ pending' = ReadNext(1)
ReadNextWord_Never(open) ==
  state' = "idle" /\ pending' = NoRead

ReadNextWord(open) ==
  \/ open /\ state' = "reading_length" /\ pending' = ReadNext(1)
  \/ ~open /\ state' = "idle" /\ pending' = NoRead

\* on_error: close(), which finds no read under way, and the session's handler.
OnError ==
  /\ socket' = FALSE
  /\ state' = "closed"
  /\ pending' = NoRead

\* The words that are left when a sentence has been handled.
NextSentence_Kept(words) == words

NextSentence(words) == <<>>

-----------------------------------------------------------------------------
(* handle_response. *)

IsValid(words) == words # <<>> /\ words[1].kind \in Type

\* A sentence of one word is empty, whatever its type.
IsEmpty(words) == Len(words) <= 1

TagsOf(words) == {words[i].tag : i \in {j \in DOMAIN words : words[j].kind = ".tag"}}

\* The words of an answer are read up to a second tag.
TaggedTwice(words) ==
  /\ IsValid(words) /\ words[1].kind = "!done"
  /\ \E i, j \in DOMAIN words :
       i # j /\ words[i].kind = ".tag" /\ words[j].kind = ".tag"

\* The tag names a callback.
HasCallback(words) == \E t \in TagsOf(words) : callbacks[t] # 0

Refused(words) ==
  \/ ~IsValid(words)
  \/ /\ ~IsEmpty(words)
     /\ \/ words[1].kind \in {"!fatal", "!other"}
        \/ ~HasCallback(words)

\* The callback that has run stays in read_cbs_ if it returned true.
AfterCall_Kept(t, outcome)    == callbacks
AfterCall_Dropped(t, outcome) == [callbacks EXCEPT ![t] = 0]

AfterCall(t, outcome) ==
  IF outcome = "kept" THEN callbacks ELSE [callbacks EXCEPT ![t] = 0]

Record(to, outcome) ==
  handled' = Append(handled, [words |-> sentence, to |-> to, outcome |-> outcome])

\* A callback may also close the session, and the API with it.
Call ==
  /\ IsValid(sentence) /\ ~IsEmpty(sentence) /\ ~Refused(sentence)
  /\ \E t \in TagsOf(sentence), outcome \in {"kept", "dropped", "closing"} :
       /\ Record(callbacks[t], outcome)
       /\ callbacks' = AfterCall(t, outcome)
       /\ socket' = (outcome # "closing")

Refuse ==
  /\ Refused(sentence)
  /\ Record(0, "refused")
  /\ socket' = FALSE
  /\ UNCHANGED callbacks

Ignore ==
  /\ IsValid(sentence) /\ IsEmpty(sentence)
  /\ Record(0, "ignored")
  /\ UNCHANGED <<callbacks, socket>>

-----------------------------------------------------------------------------
(* The handlers. *)

\* A read has completed on a connection that is still open.
ReadOk(kind) ==
  Running("read") /\ Head(ready).read.kind = kind /\ IsOpen /\ Head(ready).ok

ReadLength ==
  ReadOk("read") /\ state = "reading_length" /\ Head(ready).item.kind = "byte"

FByte == Head(ready).item.byte

\* The empty word.  read_next_word follows even if the answer has closed the
\* connection.
EndSentence ==
  /\ ReadLength /\ FByte = 0
  /\ ~TaggedTwice(sentence)
  /\ Call \/ Refuse \/ Ignore
  /\ sentence' = NextSentence(sentence)
  /\ ReadNextWord(socket')
  /\ ready' = Tail(ready)
  /\ UNCHANGED <<requests, stream, faults, aborted>>

ShortLength ==
  /\ ReadLength /\ 0 < FByte /\ FByte < 128
  /\ state' = "reading_word"
  /\ pending' = ReadNext(FByte)
  /\ ready' = Tail(ready)
  /\ UNCHANGED <<socket, sentence, callbacks, requests, stream, handled,
                 faults, aborted>>

LongLength ==
  /\ ReadLength /\ 128 <= FByte /\ FByte <= 240
  /\ pending' = ReadMore(FByte)
  /\ ready' = Tail(ready)
  /\ UNCHANGED <<state, socket, sentence, callbacks, requests, stream, handled,
                 faults, aborted>>

ReservedLength ==
  /\ ReadLength /\ 240 < FByte
  /\ OnError
  /\ ready' = Tail(ready)
  /\ UNCHANGED <<sentence, callbacks, requests, stream, handled, faults,
                 aborted>>

\* The rest of a long length, whose handler asserts that it is all there.
RestOfLength ==
  /\ ReadOk("more")
  /\ Head(ready).item.kind = "byte"
  /\ LET read == Head(ready).read
     IN  \/ /\ read.size = read.more
            /\ state' = "reading_word"
            /\ pending' = ReadNext(WordLen(read.low, <<Head(ready).item.byte>>))
            /\ UNCHANGED aborted
         \/ /\ read.size # read.more
            /\ aborted' = TRUE
            /\ UNCHANGED <<state, pending>>
  /\ ready' = Tail(ready)
  /\ UNCHANGED <<socket, sentence, callbacks, requests, stream, handled,
                 faults>>

ReadWord ==
  /\ ReadOk("read")
  /\ state = "reading_word"
  /\ Head(ready).item.kind = "word"
  /\ Head(ready).item.size > 0
  /\ sentence' = Append(sentence, Head(ready).item.word)
  /\ ReadNextWord(TRUE)
  /\ ready' = Tail(ready)
  /\ UNCHANGED <<socket, callbacks, requests, stream, handled, faults,
                 aborted>>

\* The assertions that a read has brought something, and that an answer has one
\* tag.
FailAssertion ==
  /\ \/ ReadOk("read") /\ Head(ready).item.size = 0
     \/ ReadLength /\ FByte = 0 /\ TaggedTwice(sentence)
  /\ aborted' = TRUE
  /\ ready' = Tail(ready)
  /\ UNCHANGED <<state, socket, pending, sentence, callbacks, requests, stream,
                 handled, faults>>

ReadError ==
  /\ Running("read")
  /\ IsOpen
  /\ ~Head(ready).ok
  /\ OnError
  /\ ready' = Tail(ready)
  /\ UNCHANGED <<sentence, callbacks, requests, stream, handled, faults,
                 aborted>>

ReadAfterClose ==
  /\ Running("read")
  /\ ~IsOpen
  /\ ready' = Tail(ready)
  /\ UNCHANGED <<state, socket, pending, sentence, callbacks, requests, stream,
                 handled, faults, aborted>>

\* The completion of a send keeps the callback: emplace, which leaves an older
\* callback of the same tag where it is.
Register_Replace(r) == callbacks' = [callbacks EXCEPT ![Tag(r)] = r]

Register(r) ==
  callbacks' = [callbacks EXCEPT ![Tag(r)] = IF @ = 0 THEN r ELSE @]

Sent ==
  /\ Running("sent")
  /\ IF IsOpen THEN Register(Head(ready).req) ELSE UNCHANGED callbacks
  /\ ready' = Tail(ready)
  /\ UNCHANGED <<state, socket, pending, sentence, requests, stream, handled,
                 faults, aborted>>

RunHandler ==
  /\ ~aborted
  /\ \/ EndSentence \/ ShortLength \/ LongLength \/ ReservedLength
     \/ RestOfLength \/ ReadWord \/ FailAssertion \/ ReadError \/ ReadAfterClose
     \/ Sent

-----------------------------------------------------------------------------
(* The environment: the session, the socket and the router. *)

\* A request has gone out; its completion handler runs before the one of any
\* read that follows.
Transmit ==
  /\ IsOpen
  /\ requests < MaxRequests
  /\ requests' = requests + 1
  /\ ready' = Append(ready, [kind |-> "sent", req |-> requests + 1])
  /\ UNCHANGED <<state, socket, pending, sentence, callbacks, stream, handled,
                 faults, aborted>>

RouterSends(words, r) ==
  /\ Len(answers) < MaxAnswers
  /\ answers' = Append(answers, [words |-> words, req |-> r])
  /\ UNCHANGED <<ready, state, socket, pending, sentence, callbacks, requests,
                 reserved, next, handled, faults, aborted>>

RouterAnswers ==
  \/ \E r \in 1..requests : \E words \in AnswersTo(r) : RouterSends(words, r)
  \/ \E words \in OddSentences \cup {BareSentence} : RouterSends(words, 0)

\* A control byte, which RouterOS reserves, where a length is expected.
RouterReserved ==
  /\ faults = {}
  /\ faults' = {"reserved"}
  /\ reserved' = Len(answers) + 1
  /\ UNCHANGED <<ready, state, socket, pending, sentence, callbacks, requests,
                 answers, next, handled, aborted>>

\* With a stream that follows the protocol the read is for the whole next item.
Complete(item) ==
  /\ ready' = Append(ready, [kind |-> "read", read |-> pending, ok |-> TRUE,
                             item |-> IF item.size = pending.size THEN item
                                      ELSE Garbled])
  /\ pending' = NoRead

AtReserved == reserved # 0 /\ next = StartOf(reserved)

ReadCompletes ==
  /\ pending # NoRead
  /\ \/ /\ AtReserved
        /\ Complete(ByteItem(248))
        /\ reserved' = 0
        /\ UNCHANGED next
     \/ /\ ~AtReserved
        /\ next.sentence <= Len(answers)
        /\ Complete(ItemAt(next))
        /\ next' = After(next)
        /\ UNCHANGED reserved
  /\ UNCHANGED <<state, socket, sentence, callbacks, requests, answers, handled,
                 faults, aborted>>

FailedRead == [kind |-> "read", read |-> pending, ok |-> FALSE, item |-> ByteItem(0)]

ReadFails ==
  /\ pending # NoRead
  /\ ready' = Append(ready, FailedRead)
  /\ pending' = NoRead
  /\ faults' = faults \cup {"cut"}
  /\ UNCHANGED <<state, socket, sentence, callbacks, requests, stream, handled,
                 aborted>>

\* The session closes its API from another handler.
CloseApi ==
  /\ IsOpen
  /\ OnError
  /\ ready' = IF pending = NoRead THEN ready ELSE Append(ready, FailedRead)
  /\ faults' = faults \cup {"closed"}
  /\ UNCHANGED <<sentence, callbacks, requests, stream, handled, aborted>>

Environment ==
  /\ ~aborted
  /\ \/ Transmit \/ RouterAnswers \/ RouterReserved \/ ReadCompletes
     \/ ReadFails \/ CloseApi

Next == RunHandler \/ Environment

Spec == Init /\ [][Next]_vars

\* The io_context runs what is ready and reads what has come.
FairSpec ==
  /\ Spec
  /\ WF_vars(RunHandler)
  /\ WF_vars(~aborted /\ ReadCompletes)

-----------------------------------------------------------------------------
(* Properties. *)

ReadsQueued == Cardinality({i \in 1..Len(ready) : ready[i].kind = "read"})

\* An open connection has one read under way or completed, a closed one none
\* under way: the state left by an answer that closes never starts another.
OneReadWhileOpen ==
  /\ IsOpen /\ ~aborted =>
       /\ state # "idle"
       /\ ReadsQueued + (IF pending # NoRead THEN 1 ELSE 0) = 1
  /\ ~IsOpen => pending = NoRead

\* A callback that returned false, or closed the session, never hears again.
DroppedForGood ==
  \A i, j \in 1..Len(handled) :
    /\ i < j
    /\ handled[i].to # 0
    /\ handled[i].to = handled[j].to
    => handled[i].outcome = "kept"

DroppedBefore(i) ==
  \E j \in 1..(i - 1) :
    /\ handled[j].outcome = "dropped"
    /\ TagsOf(handled[j].words) = TagsOf(handled[i].words)

\* An answer goes to the callback of its own request, unless the tags have
\* wrapped.  Then it goes to an older request that still waits, or it is a late
\* answer and a callback of its tag had returned false before.
RightCallback ==
  \A i \in 1..Len(handled) :
    LET to  == handled[i].to
        req == answers[i].req
    IN  to \notin {0, req} =>
          \/ req - to >= TagModulus
          \/ /\ to - req >= TagModulus
             /\ DroppedBefore(i)

\* The reader closes the connection only for a reason: it was cut or closed,
\* the router sent a reserved length or a sentence that is no answer, or an
\* answer came for a tag whose callback had returned false before.
ClosesForAReason ==
  ~IsOpen =>
    \/ faults # {}
    \/ \E i \in 1..Len(handled) :
         /\ handled[i].outcome \in {"refused", "closing"}
         /\ \/ handled[i].outcome = "closing"
            \/ answers[i].words \in OddSentences
            \/ DroppedBefore(i)

WordsOf(seq) == [i \in 1..Len(seq) |-> seq[i].words]

Api == INSTANCE SentenceApi
         WITH open <- IsOpen, answers <- WordsOf(answers),
              handled <- WordsOf(handled)

\* Reading word by word is, seen from outside, handling a sentence at a time,
\* as Sessions does: no interleaving of reads, sends and closing shows.
ImplementsSentenceApi == Api!Spec

\* An assertion of the reader fails only for the sentence that is next: it has
\* two tags, or a word without bytes or of 2^14 bytes or more.  Nothing that is
\* left of the sentences before it can have failed it.
LongSize == 16384

AssertsForAReason ==
  aborted =>
    /\ Len(handled) < Len(answers)
    /\ LET words == answers[Len(handled) + 1].words
       IN  \/ TaggedTwice(words)
           \/ \E i \in DOMAIN words : words[i].size = 0 \/ words[i].size >= LongSize

\* api.cpp:148, assert(nread == mbytes): the rest of a long length is read
\* whole.
LengthsAreWhole == ReadOk("more") => Head(ready).read.size = Head(ready).read.more

\* Every sentence the router sends is handled, unless the connection or, by an
\* assertion, the process ends.
AnswersHandled ==
  \A i \in 1..MaxAnswers :
    (Len(answers) >= i) ~> (Len(handled) >= i \/ ~IsOpen \/ aborted)

=============================================================================
