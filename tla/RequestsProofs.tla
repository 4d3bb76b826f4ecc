--------------------------- MODULE RequestsProofs ---------------------------
(***************************************************************************)
(* For connections of any length: the requests that reach the commands are   *)
(* the client's messages, whole, once and in order.                          *)
(*                                                                          *)
(* KInv says where the stream stands.  A byte of the stream determines those *)
(* after it (Flow) up to the end of what the client has sent (Ends), so it   *)
(* is enough to know the first: it is a message's first byte when a header   *)
(* is to be read, and that of its body when a body is (Expected).            *)
(***************************************************************************)
EXTENDS TcpClientProofs

-----------------------------------------------------------------------------
(* The invariant of what is read: where the stream stands. *)

Size(i) == HeaderSize + sent[i]

ByteAt(i, p) == [msg |-> i, pos |-> p]

\* A byte is followed by the rest of its message, and that by the next one.
Flow(s) ==
  \A k \in 1..Len(s) :
    /\ s[k].msg \in 1..Len(sent) /\ s[k].pos \in 1..Size(s[k].msg)
    /\ \A j \in k..Len(s) :
         j - k <= Size(s[k].msg) - s[k].pos => s[j] = ByteAt(s[k].msg, s[k].pos + (j - k))
    /\ \A j \in 1..Len(s) :
         j = k + (Size(s[k].msg) - s[k].pos) + 1 => s[j] = ByteAt(s[k].msg + 1, 1)

Ends(s) == s # <<>> => s[Len(s)] = ByteAt(Len(sent), Size(Len(sent)))

\* The next byte to be read is the first of message i, or of its body.
Begins(i) ==
  /\ i \in 1..(Len(sent) + 1)
  /\ IF i <= Len(sent) THEN stream # <<>> /\ stream[1] = ByteAt(i, 1) ELSE stream = <<>>

Continues(i) ==
  IF sent[i] = 0 THEN Begins(i + 1)
                 ELSE stream # <<>> /\ stream[1] = ByteAt(i, HeaderSize + 1)

Current == Len(delivered) + 1

Expected ==
  /\ state = "idle" => Begins(Current)
  /\ state = "reading_header" /\ wanted > 0 => Begins(Current)
  /\ state = "reading_body" =>
       /\ Current <= Len(sent) /\ header = HeaderOf(Current) /\ sent[Current] \in 1..MaxBody
       /\ wanted > 0 => wanted = sent[Current] /\ Continues(Current)
  /\ IsOpen => \A h \in Members(ready) : h.kind = "read" /\ h.ok =>
       /\ Current <= Len(sent)
       /\ state = "reading_header" => h.bytes = HeaderOf(Current) /\ Continues(Current)
       /\ state = "reading_body" =>
            h.bytes = BodyOf(Current, sent[Current]) /\ Begins(Current + 1)

KInv == RequestsAsSent /\ Flow(stream) /\ Ends(stream) /\ Expected

-----------------------------------------------------------------------------
(* Sequences of bytes. *)

\* Two sequences, one after the other.
LEMMA Concatenation ==
  ASSUME NEW S, NEW s \in Seq(S), NEW t \in Seq(S)
  PROVE  /\ s \o t \in Seq(S) /\ Len(s \o t) = Len(s) + Len(t)
         /\ \A k \in 1..Len(s) : (s \o t)[k] = s[k]
         /\ \A k \in 1..Len(t) : (s \o t)[Len(s) + k] = t[k]
  OBVIOUS

\* What is left of a sequence without its first n elements.
LEMMA ElementsOfSuffix ==
  ASSUME NEW S, NEW s \in Seq(S), NEW n \in Nat, n <= Len(s)
  PROVE  LET t == SubSeq(s, n + 1, Len(s))
         IN  /\ t \in Seq(S) /\ Len(s) \in Nat /\ Len(t) \in Nat /\ Len(t) = Len(s) - n
             /\ \A k \in 1..Len(t) : n + k \in 1..Len(s) /\ t[k] = s[n + k]
             /\ t # <<>> <=> n < Len(s)
<1> DEFINE t == SubSeq(s, n + 1, Len(s))
<1>1. t \in Seq(S) /\ Len(s) \in Nat
  OBVIOUS
<1>2. Len(t) = Len(s) - n /\ Len(t) \in Nat
  OBVIOUS
<1>3. \A k \in 1..Len(t) : n + k \in 1..Len(s) /\ t[k] = s[n + k]
  OBVIOUS
<1>4. t # <<>> <=> Len(t) # 0
  <2>1. \A u \in Seq(S) : u # <<>> <=> Len(u) # 0
    OBVIOUS
  <2>2. QED
    BY <1>1, <2>1
<1>5. Len(t) # 0 <=> n < Len(s)
  BY <1>1, <1>2
<1>6. QED
  BY <1>1, <1>2, <1>3, <1>4, <1>5

-----------------------------------------------------------------------------
(* Moving along the stream. *)

\* What is known of the sizes.
LEMMA Sizes ==
  ASSUME TypeOK
  PROVE  /\ sent \in Seq(Nat) /\ Len(sent) \in Nat /\ stream \in Seq(Byte)
         /\ HeaderSize \in Nat /\ HeaderSize > 0
         /\ \A i \in 1..Len(sent) : sent[i] \in Nat /\ Size(i) \in Nat /\ Size(i) > 0
<1>1. sent \in Seq(BodySizes) /\ stream \in Seq(Byte)
  BY DEF TypeOK
<1>2. \A i \in 1..Len(sent) : sent[i] \in Nat
  BY <1>1, Elements, TcpClientAssumption
<1>3. sent \in Seq(Nat)
  BY <1>1, <1>2
<1>4. QED
  BY <1>1, <1>2, <1>3, TcpClientAssumption DEF Size

\* n bytes from position p of message i: they are that message's, and the byte
\* after them is the message's next one, or the first of the next message.
LEMMA Advance ==
  ASSUME TypeOK, NEW s \in Seq(Byte), Flow(s), Ends(s), s # <<>>,
         NEW i, NEW p \in Nat, s[1] = ByteAt(i, p),
         NEW n \in Nat, n > 0, n <= Len(s), p + n - 1 <= Size(i)
  PROVE  /\ i \in 1..Len(sent)
         /\ \A k \in 1..n : s[k] = ByteAt(i, p + k - 1)
         /\ p + n - 1 < Size(i) => n < Len(s) /\ s[n + 1] = ByteAt(i, p + n)
         /\ p + n - 1 = Size(i) =>
              IF i + 1 <= Len(sent) THEN n < Len(s) /\ s[n + 1] = ByteAt(i + 1, 1)
                                    ELSE n = Len(s)
<1>1. /\ s[1].msg = i /\ s[1].pos = p /\ Len(s) \in Nat /\ 1 \in 1..Len(s)
      /\ \A a, b, c, d : ByteAt(a, b) = ByteAt(c, d) => a = c /\ b = d
  BY DEF ByteAt
<1>2. i \in 1..Len(sent) /\ p \in 1..Size(i)
  BY <1>1 DEF Flow
<1>3. Size(i) \in Nat /\ i \in Nat /\ Len(sent) \in Nat
  BY <1>2, Sizes
<1>4. \A j \in 1..Len(s) : j - 1 <= Size(i) - p => s[j] = ByteAt(i, p + (j - 1))
  BY <1>1 DEF Flow
<1>5. \A j \in 1..Len(s) : j = 1 + (Size(i) - p) + 1 => s[j] = ByteAt(i + 1, 1)
  BY <1>1 DEF Flow
<1>6. ASSUME NEW k \in 1..n PROVE s[k] = ByteAt(i, p + k - 1)
  <2>1. k \in 1..Len(s) /\ k - 1 <= Size(i) - p /\ p + (k - 1) = p + k - 1
    BY <1>1, <1>3
  <2>2. s[k] = ByteAt(i, p + (k - 1))
    BY <1>4, <2>1
  <2>3. QED
    BY <2>1, <2>2
<1>7. s[n] = ByteAt(i, p + n - 1)
  BY <1>6
<1>8. n = Len(s) => i = Len(sent) /\ p + n - 1 = Size(i)
  <2>1. SUFFICES ASSUME n = Len(s) PROVE i = Len(sent) /\ p + n - 1 = Size(i)
    OBVIOUS
  <2>2. ByteAt(i, p + n - 1) = ByteAt(Len(sent), Size(Len(sent)))
    BY <1>7, <2>1 DEF Ends
  <2>3. i = Len(sent) /\ p + n - 1 = Size(Len(sent))
    BY <1>1, <2>2
  <2>4. QED
    BY <2>3
<1>9. ASSUME p + n - 1 < Size(i) PROVE n < Len(s) /\ s[n + 1] = ByteAt(i, p + n)
  <2>1. n < Len(s)
    BY <1>1, <1>3, <1>8, <1>9
  <2>2. n + 1 \in 1..Len(s) /\ (n + 1) - 1 <= Size(i) - p /\ p + ((n + 1) - 1) = p + n
    BY <1>1, <1>3, <1>9, <2>1
  <2>3. s[n + 1] = ByteAt(i, p + ((n + 1) - 1))
    BY <1>4, <2>2
  <2>4. QED
    BY <2>1, <2>2, <2>3
<1>10. ASSUME p + n - 1 = Size(i), n < Len(s) PROVE s[n + 1] = ByteAt(i + 1, 1)
  <2>1. n + 1 \in 1..Len(s) /\ n + 1 = 1 + (Size(i) - p) + 1
    BY <1>1, <1>3, <1>10
  <2>2. QED
    BY <1>5, <2>1
<1>11. ASSUME p + n - 1 = Size(i), i + 1 <= Len(sent) PROVE n < Len(s)
  BY <1>1, <1>3, <1>8, <1>11
<1>12. ASSUME p + n - 1 = Size(i), ~(i + 1 <= Len(sent)) PROVE n = Len(s)
  <2>1. SUFFICES ASSUME n < Len(s) PROVE FALSE
    BY <1>1
  <2>2. s[n + 1] = ByteAt(i + 1, 1) /\ n + 1 \in 1..Len(s)
    BY <1>1, <1>10, <1>12, <2>1
  <2>3. s[n + 1].msg = i + 1
    BY <2>2 DEF ByteAt
  <2>4. i + 1 \in 1..Len(sent)
    BY <2>2, <2>3 DEF Flow
  <2>5. QED
    BY <1>12, <2>4
<1>13. QED
  BY <1>2, <1>6, <1>9, <1>10, <1>11, <1>12

\* What is left after a read is as the stream was.
LEMMA Suffix ==
  ASSUME TypeOK, NEW s \in Seq(Byte), Flow(s), Ends(s), NEW n \in Nat, n <= Len(s)
  PROVE  LET t == SubSeq(s, n + 1, Len(s))
         IN  /\ t \in Seq(Byte) /\ Flow(t) /\ Ends(t)
             /\ t # <<>> <=> n < Len(s)
             /\ n < Len(s) => t[1] = s[n + 1]
<1> DEFINE t == SubSeq(s, n + 1, Len(s))
<1>1. /\ t \in Seq(Byte) /\ Len(s) \in Nat /\ Len(t) \in Nat /\ Len(t) = Len(s) - n
      /\ \A k \in 1..Len(t) : n + k \in 1..Len(s) /\ t[k] = s[n + k]
      /\ t # <<>> <=> n < Len(s)
  BY ElementsOfSuffix
<1> HIDE DEF t
<1>2. Flow(t)
  <2>1. SUFFICES ASSUME NEW k \in 1..Len(t)
                 PROVE  /\ t[k].msg \in 1..Len(sent) /\ t[k].pos \in 1..Size(t[k].msg)
                        /\ \A j \in k..Len(t) :
                             j - k <= Size(t[k].msg) - t[k].pos =>
                               t[j] = ByteAt(t[k].msg, t[k].pos + (j - k))
                        /\ \A j \in 1..Len(t) :
                             j = k + (Size(t[k].msg) - t[k].pos) + 1 =>
                               t[j] = ByteAt(t[k].msg + 1, 1)
    BY DEF Flow
  <2>2. n + k \in 1..Len(s) /\ t[k] = s[n + k]
    BY <1>1
  <2>3. t[k].msg \in 1..Len(sent) /\ t[k].pos \in 1..Size(t[k].msg)
    BY <2>2 DEF Flow
  <2>4. Size(t[k].msg) \in Nat /\ t[k].pos \in Nat
    BY <2>3, Sizes
  <2>5. ASSUME NEW j \in k..Len(t), j - k <= Size(t[k].msg) - t[k].pos
        PROVE  t[j] = ByteAt(t[k].msg, t[k].pos + (j - k))
    <3>1. /\ n + j \in (n + k)..Len(s) /\ (n + j) - (n + k) = j - k /\ j \in 1..Len(t)
      BY <1>1, <2>2
    <3>2. s[n + j] = ByteAt(t[k].msg, t[k].pos + ((n + j) - (n + k)))
      BY <2>2, <2>5, <3>1 DEF Flow
    <3>3. QED
      BY <1>1, <3>1, <3>2
  <2>6. ASSUME NEW j \in 1..Len(t), j = k + (Size(t[k].msg) - t[k].pos) + 1
        PROVE  t[j] = ByteAt(t[k].msg + 1, 1)
    <3> DEFINE d == Size(t[k].msg) - t[k].pos
    <3>1. d \in Int /\ k \in Nat /\ j = k + d + 1
      BY <2>4, <2>6
    <3> HIDE DEF d
    <3>2. n + j \in 1..Len(s) /\ n + j = (n + k) + d + 1
      BY <1>1, <3>1
    <3>3. s[n + j] = ByteAt(t[k].msg + 1, 1)
      BY <2>2, <3>2 DEF Flow, d
    <3>4. QED
      BY <1>1, <3>3
  <2>7. QED
    BY <2>3, <2>5, <2>6
<1>3. Ends(t)
  <2>1. SUFFICES ASSUME t # <<>> PROVE t[Len(t)] = ByteAt(Len(sent), Size(Len(sent)))
    BY DEF Ends
  <2>2. Len(t) \in 1..Len(t) /\ n + Len(t) = Len(s) /\ n < Len(s)
    BY <1>1, <2>1
  <2>3. t[Len(t)] = s[Len(s)] /\ s # <<>>
    BY <1>1, <2>2
  <2>4. QED
    BY <2>3 DEF Ends
<1>4. n < Len(s) => t[1] = s[n + 1]
  BY <1>1
<1>5. QED
  BY <1>1, <1>2, <1>3, <1>4 DEF t

-----------------------------------------------------------------------------
(* The steps. *)

\* A handler is put at the end.
LEMMA Queued ==
  ASSUME JInv, NEW h \in Handler, ready' = Append(ready, h)
  PROVE  \A g \in Members(ready') : g \in Members(ready) \/ g = h
<1>1. ready \in Seq(Handler)
  BY DEF JInv, TypeOK
<1>2. ready' = ready \o <<h>> /\ <<h>> \in Seq(Handler) /\ Members(<<h>>) = {h}
  BY <1>1, One
<1>3. QED
  BY <1>1, <1>2, MembersConcat

\* The header of message i, byte by byte; its last byte names the message.
LEMMA HeaderBytes ==
  ASSUME NEW i
  PROVE  /\ HeaderOf(i) = [k \in 1..HeaderSize |-> ByteAt(i, k)]
         /\ HeaderOf(i)[HeaderSize].msg = i
<1>1. HeaderSize + 0 = HeaderSize /\ HeaderSize \in 1..HeaderSize
  BY TcpClientAssumption
<1>2. HeaderOf(i) = [k \in 1..HeaderSize |-> ByteAt(i, k)]
  BY <1>1 DEF HeaderOf, Message, ByteAt
<1>3. QED
  BY <1>1, <1>2 DEF ByteAt

\* A step that takes nothing from the stream and queues no read that is ok
\* leaves all this as it is.
LEMMA NothingRead ==
  ASSUME KInv, UNCHANGED <<sent, stream, delivered, header, state>>,
         wanted' \in {0, wanted}, IsOpen' => IsOpen,
         \A h \in Members(ready') : h.kind = "read" /\ h.ok => h \in Members(ready)
  PROVE  KInv'
<1>1. RequestsAsSent' /\ Flow(stream)' /\ Ends(stream)'
  BY DEF KInv, RequestsAsSent, HeaderOf, BodyOf, Message, Flow, Ends, Size, ByteAt
<1>2. /\ Current' = Current
      /\ \A i : (Begins(i)' <=> Begins(i)) /\ (Continues(i)' <=> Continues(i))
  BY DEF Current, Begins, Continues, ByteAt
<1>3. wanted' > 0 => wanted' = wanted
  <2>1. ~(0 > 0)
    OBVIOUS
  <2>2. QED
    BY <2>1
<1>4. Expected'
  BY <1>2, <1>3 DEF KInv, Expected, HeaderOf, BodyOf, Message
<1>5. QED
  BY <1>1, <1>4 DEF KInv

\* A connection that closes serves nothing more.
LEMMA NothingExpected ==
  ASSUME KInv, UNCHANGED <<sent, stream, delivered>>, state' = "closed"
  PROVE  KInv'
<1>1. RequestsAsSent' /\ Flow(stream)' /\ Ends(stream)'
  BY DEF KInv, RequestsAsSent, HeaderOf, BodyOf, Message, Flow, Ends, Size, ByteAt
<1>2. Expected'
  BY DEF Expected, IsOpen
<1>3. QED
  BY <1>1, <1>2 DEF KInv

\* The bytes of the first message that has not been read come first.
LEMMA StartReads ==
  ASSUME JInv, KInv, Start
  PROVE  KInv'
<1>1. /\ UNCHANGED <<sent, stream, delivered>> /\ state = "idle"
      /\ state' = "reading_header" /\ ready' = <<>>
  BY DEF Start, JInv, Life
<1>2. Members(ready') = {}
  BY <1>1, None
<1>3. RequestsAsSent' /\ Flow(stream)' /\ Ends(stream)'
  BY <1>1 DEF KInv, RequestsAsSent, HeaderOf, BodyOf, Message, Flow, Ends, Size, ByteAt
<1>4. Begins(Current)'
  BY <1>1 DEF KInv, Expected, Current, Begins, ByteAt
<1>5. Expected'
  BY <1>1, <1>2, <1>4 DEF Expected
<1>6. QED
  BY <1>3, <1>5 DEF KInv

\* The header of a message that has a body: the body comes next.
LEMMA ReadHeaderReads ==
  ASSUME JInv, KInv, ReadHeader
  PROVE  KInv'
<1> DEFINE b == Head(ready).bytes
<1>1. /\ ready # <<>> /\ Head(ready).kind = "read" /\ Head(ready).ok /\ IsOpen
      /\ state = "reading_header" /\ state' = "reading_body" /\ ready' = Tail(ready)
      /\ ~TooLarge(b) /\ BodySize(b) > 0 /\ header' = b /\ wanted' = BodySize(b)
      /\ UNCHANGED <<sent, stream, delivered>>
  BY DEF ReadHeader, ReadOk, Running
<1>2. Head(ready) \in Members(ready) /\ \A h \in Members(ready') : h.kind # "read"
  <2>1. SingleRead(ready)
    BY <1>1 DEF JInv, Reads
  <2>2. QED
    BY <1>1, <2>1, Taken
<1>3. Current <= Len(sent) /\ b = HeaderOf(Current) /\ Continues(Current)
  BY <1>1, <1>2 DEF KInv, Expected
<1>4. Current \in 1..Len(sent) /\ sent[Current] \in Nat
  <2>1. Current \in Nat /\ Current >= 1 /\ Len(sent) \in Nat
    <3>1. delivered \in Seq(Request)
      BY DEF JInv, TypeOK
    <3>2. QED
      BY <3>1, Sizes DEF JInv, Current
  <2>2. Current \in 1..Len(sent)
    BY <1>3, <2>1
  <2>3. QED
    BY <2>2, Sizes DEF JInv
<1>5. BodySize(b) = sent[Current]
  BY <1>3, HeaderBytes DEF BodySize
<1>6. sent[Current] \in 1..MaxBody
  <2>1. ~(sent[Current] > MaxBody)
    BY <1>1, <1>5 DEF TooLarge
  <2>2. QED
    BY <1>1, <1>4, <1>5, <2>1, TcpClientAssumption
<1> HIDE DEF b
<1>7. RequestsAsSent' /\ Flow(stream)' /\ Ends(stream)'
  BY <1>1 DEF KInv, RequestsAsSent, HeaderOf, BodyOf, Message, Flow, Ends, Size, ByteAt
<1>8. Current' = Current /\ Continues(Current)' /\ HeaderOf(Current)' = HeaderOf(Current)
  BY <1>1, <1>3 DEF Current, Continues, Begins, ByteAt, HeaderOf, Message
<1>9. Expected'
  BY <1>1, <1>2, <1>3, <1>5, <1>6, <1>8 DEF Expected
<1>10. QED
  BY <1>7, <1>9 DEF KInv

\* A request is delivered: the next message's header comes next.
LEMMA Served ==
  ASSUME JInv, KInv, NEW head, NEW body, NEW n, Deliver(head, body, n),
         UNCHANGED <<sent, stream>>, state' = "reading_header",
         \A h \in Members(ready') : h.kind # "read",
         Current <= Len(sent), sent[Current] <= MaxBody, head = HeaderOf(Current),
         body = IF sent[Current] = 0 THEN HeaderOf(Current) ELSE BodyOf(Current, sent[Current]),
         Begins(Current + 1)
  PROVE  KInv'
<1>1. /\ delivered \in Seq(Request)
      /\ delivered' = Append(delivered, [header |-> head, body |-> body])
  BY DEF JInv, TypeOK, Deliver
<1>2. /\ Len(delivered) \in Nat /\ Len(delivered') = Current /\ Current' = Current + 1
      /\ \A i \in 1..Len(delivered') :
           \/ i \in 1..Len(delivered) /\ delivered'[i] = delivered[i]
           \/ i = Current /\ delivered'[i] = [header |-> head, body |-> body]
  BY <1>1 DEF Current
<1>3. RequestsAsSent'
  <2>1. SUFFICES ASSUME NEW i \in 1..Len(delivered')
                 PROVE  /\ i <= Len(sent) /\ sent[i] <= MaxBody
                        /\ delivered'[i].header = HeaderOf(i)
                        /\ delivered'[i].body = IF sent[i] = 0 THEN HeaderOf(i)
                                                               ELSE BodyOf(i, sent[i])
    BY DEF RequestsAsSent, HeaderOf, BodyOf, Message
  <2>2. CASE i \in 1..Len(delivered) /\ delivered'[i] = delivered[i]
    BY <2>2 DEF KInv, RequestsAsSent
  <2>3. CASE i = Current /\ delivered'[i] = [header |-> head, body |-> body]
    BY <2>3
  <2>4. QED
    BY <1>2, <2>2, <2>3
<1>4. Flow(stream)' /\ Ends(stream)'
  BY DEF KInv, Flow, Ends, Size, ByteAt
<1>5. Begins(Current)'
  BY <1>2 DEF Begins, ByteAt
<1>6. Expected'
  BY <1>5 DEF Expected
<1>7. QED
  BY <1>3, <1>4, <1>6 DEF KInv

\* The message that is being read is one that the client has sent.
LEMMA CurrentFacts ==
  ASSUME JInv, Current <= Len(sent)
  PROVE  /\ Current \in 1..Len(sent) /\ Current \in Nat
         /\ sent[Current] \in Nat /\ Size(Current) = HeaderSize + sent[Current]
<1>1. Current \in Nat /\ Current >= 1
  <2>1. delivered \in Seq(Request)
    BY DEF JInv, TypeOK
  <2>2. QED
    BY <2>1 DEF Current
<1>2. Current \in 1..Len(sent)
  BY <1>1, Sizes DEF JInv
<1>3. QED
  BY <1>1, <1>2, Sizes DEF JInv, Size

\* A message without a body is delivered at once: the next one comes next.
LEMMA ReadEmptyRequestReads ==
  ASSUME JInv, KInv, ReadEmptyRequest
  PROVE  KInv'
<1> DEFINE b == Head(ready).bytes
<1>1. /\ ready # <<>> /\ Head(ready).kind = "read" /\ Head(ready).ok /\ IsOpen
      /\ state = "reading_header" /\ state' = "reading_header" /\ BodySize(b) = 0
  BY DEF ReadEmptyRequest, ReadOk, Running
<1>2. PICK n \in {0, 1} : Deliver(b, b, n)
  BY DEF ReadEmptyRequest
<1>3. Head(ready) \in Members(ready) /\ \A h \in Members(ready') : h.kind # "read"
  <2>1. SingleRead(ready)
    BY <1>1 DEF JInv, Reads
  <2>2. QED
    BY <1>1, <1>2, <2>1, Delivered
<1>4. Current <= Len(sent) /\ b = HeaderOf(Current) /\ Continues(Current)
  BY <1>1, <1>3 DEF KInv, Expected
<1>5. BodySize(b) = sent[Current]
  BY <1>4, HeaderBytes DEF BodySize
<1> HIDE DEF b
<1>6. sent[Current] = 0 /\ sent[Current] <= MaxBody /\ Begins(Current + 1)
  BY <1>1, <1>4, <1>5, TcpClientAssumption DEF Continues
<1>7. UNCHANGED <<sent, stream>>
  BY <1>2 DEF Deliver
<1>8. QED
  BY <1>1, <1>2, <1>3, <1>4, <1>6, <1>7, Served

\* The body is the current message's, and its header was kept.
LEMMA ReadBodyReads ==
  ASSUME JInv, KInv, ReadBody
  PROVE  KInv'
<1> DEFINE b == Head(ready).bytes
<1>1. /\ ready # <<>> /\ Head(ready).kind = "read" /\ Head(ready).ok /\ IsOpen
      /\ state = "reading_body" /\ state' = "reading_header"
  BY DEF ReadBody, ReadOk, Running
<1>2. PICK n \in {0, 1} : Deliver(header, b, n)
  BY DEF ReadBody
<1>3. Head(ready) \in Members(ready) /\ \A h \in Members(ready') : h.kind # "read"
  <2>1. SingleRead(ready)
    BY <1>1 DEF JInv, Reads
  <2>2. QED
    BY <1>1, <1>2, <2>1, Delivered
<1>4. /\ Current <= Len(sent) /\ header = HeaderOf(Current) /\ sent[Current] \in 1..MaxBody
      /\ b = BodyOf(Current, sent[Current]) /\ Begins(Current + 1)
  BY <1>1, <1>3 DEF KInv, Expected
<1>5. sent[Current] # 0 /\ sent[Current] <= MaxBody
  BY <1>4, TcpClientAssumption
<1>6. UNCHANGED <<sent, stream>>
  BY <1>2 DEF Deliver
<1> HIDE DEF b
<1>7. QED
  BY <1>1, <1>2, <1>3, <1>4, <1>5, <1>6, Served

\* A read takes the rest of what it is to read, and leaves what comes after it.
LEMMA ReadCompletesReads ==
  ASSUME JInv, KInv, ReadCompletes
  PROVE  KInv'
<1> DEFINE h == [kind |-> "read", ok |-> TRUE, bytes |-> SubSeq(stream, 1, wanted)]
<1>1. /\ wanted \in Nat /\ wanted > 0 /\ wanted <= Len(stream) /\ wanted' = 0
      /\ ready' = Append(ready, h) /\ stream' = SubSeq(stream, wanted + 1, Len(stream))
      /\ UNCHANGED <<state, socket, header, sent, delivered>> /\ stream \in Seq(Byte)
      /\ TypeOK /\ stream # <<>>
  BY TcpClientAssumption DEF ReadCompletes, JInv, TypeOK
<1>2. IsOpen /\ state # "idle" /\ \A g \in Members(ready) : g.kind # "read"
  <2>1. wanted # 0
    BY <1>1
  <2>2. IsOpen /\ state # "idle"
    BY <2>1 DEF JInv, Reads, Life
  <2>3. QED
    BY <1>1, <2>2 DEF JInv, Reads
<1>3. h.bytes = SubSeq(stream, 1, wanted) /\ h.kind = "read"
  OBVIOUS
<1>4. SubSeq(stream, 1, wanted) = [k \in 1..wanted |-> stream[k]]
  BY <1>1
<1>5. \A g \in Members(ready') : g \in Members(ready) \/ g = h
  <2>1. h.bytes \in Seq(Byte)
    BY <1>1
  <2>2. h \in Handler
    BY <2>1 DEF Handler
  <2> HIDE DEF h
  <2>3. QED
    BY <1>1, <2>2, Queued
<1> HIDE DEF h
<1>6. Flow(stream) /\ Ends(stream)
  BY DEF KInv
<1>7. /\ Flow(stream') /\ Ends(stream')
      /\ stream' # <<>> <=> wanted < Len(stream)
      /\ wanted < Len(stream) => stream'[1] = stream[wanted + 1]
  BY <1>1, <1>6, Suffix
<1>8. RequestsAsSent' /\ Flow(stream)' /\ Ends(stream)'
  BY <1>1, <1>7 DEF KInv, RequestsAsSent, HeaderOf, BodyOf, Message, Flow, Ends, Size, ByteAt
<1>9. Current' = Current /\ Len(sent)' = Len(sent) /\ IsOpen' = IsOpen
  BY <1>1 DEF Current, IsOpen
<1>10. CASE state = "reading_header"
  <2>1. Begins(Current) /\ wanted = HeaderSize
    BY <1>1, <1>10 DEF KInv, Expected, JInv, Reads
  <2>2. Current <= Len(sent) /\ stream[1] = ByteAt(Current, 1)
    BY <1>1, <2>1 DEF Begins
  <2>3. /\ Current \in 1..Len(sent) /\ sent[Current] \in Nat /\ Current \in Nat
        /\ Size(Current) = HeaderSize + sent[Current] /\ Len(sent) \in Nat
    BY <2>2, CurrentFacts, Sizes DEF JInv
  <2>4. 1 + HeaderSize - 1 <= Size(Current) /\ 1 \in Nat
    BY <1>1, <2>1, <2>3
  <2>5. /\ \A k \in 1..HeaderSize : stream[k] = ByteAt(Current, 1 + k - 1)
        /\ 1 + HeaderSize - 1 < Size(Current) =>
             HeaderSize < Len(stream) /\ stream[HeaderSize + 1] = ByteAt(Current, 1 + HeaderSize)
        /\ 1 + HeaderSize - 1 = Size(Current) =>
             IF Current + 1 <= Len(sent)
             THEN HeaderSize < Len(stream) /\ stream[HeaderSize + 1] = ByteAt(Current + 1, 1)
             ELSE HeaderSize = Len(stream)
    BY <1>1, <1>6, <2>1, <2>2, <2>4, Advance
  <2>6. h.bytes = HeaderOf(Current)
    <3>1. \A k \in 1..HeaderSize : stream[k] = ByteAt(Current, k)
      <4>1. \A k \in 1..HeaderSize : 1 + k - 1 = k
        OBVIOUS
      <4>2. QED
        BY <2>5, <4>1
    <3>2. HeaderOf(Current) = [k \in 1..HeaderSize |-> ByteAt(Current, k)]
      BY HeaderBytes
    <3>3. QED
      BY <1>3, <1>4, <2>1, <3>1, <3>2
  <2>7. Continues(Current)'
    <3>1. CASE sent[Current] = 0
      <4>1. 1 + HeaderSize - 1 = Size(Current)
        BY <1>1, <2>1, <2>3, <3>1
      <4>2. Current + 1 \in 1..(Len(sent) + 1)
        BY <2>3
      <4>3. IF Current + 1 <= Len(sent)
            THEN HeaderSize < Len(stream) /\ stream[HeaderSize + 1] = ByteAt(Current + 1, 1)
            ELSE HeaderSize = Len(stream)
        BY <2>5, <4>1
      <4>4. IF Current + 1 <= Len(sent) THEN stream' # <<>> /\ stream'[1] = ByteAt(Current + 1, 1)
                                        ELSE stream' = <<>>
        BY <1>1, <1>7, <2>1, <4>3
      <4>5. QED
        BY <1>1, <1>9, <3>1, <4>2, <4>4 DEF Continues, Begins, ByteAt
    <3>2. CASE sent[Current] # 0
      <4>1. 1 + HeaderSize - 1 < Size(Current) /\ 1 + HeaderSize = HeaderSize + 1
        BY <1>1, <2>1, <2>3, <3>2
      <4>2. stream' # <<>> /\ stream'[1] = ByteAt(Current, HeaderSize + 1)
        BY <1>7, <2>1, <2>5, <4>1
      <4>3. QED
        BY <1>1, <1>9, <3>2, <4>2 DEF Continues, ByteAt
    <3>3. QED
      BY <3>1, <3>2
  <2>8. HeaderOf(Current)' = HeaderOf(Current)
    BY <1>9 DEF HeaderOf, Message
  <2>9. Expected'
    BY <1>1, <1>2, <1>5, <1>9, <1>10, <2>2, <2>6, <2>7, <2>8 DEF Expected
  <2>10. QED
    BY <1>8, <2>9 DEF KInv
<1>11. CASE state = "reading_body"
  <2>1. /\ Current <= Len(sent) /\ header = HeaderOf(Current) /\ sent[Current] \in 1..MaxBody
        /\ wanted = sent[Current] /\ Continues(Current)
    BY <1>1, <1>11 DEF KInv, Expected
  <2>2. /\ Current \in 1..Len(sent) /\ sent[Current] \in Nat /\ Current \in Nat
        /\ Size(Current) = HeaderSize + sent[Current] /\ Len(sent) \in Nat
        /\ HeaderSize \in Nat
    BY <1>1, <2>1, CurrentFacts, Sizes
  <2>3. stream[1] = ByteAt(Current, HeaderSize + 1)
    BY <1>1, <2>1 DEF Continues
  <2>4. (HeaderSize + 1) + wanted - 1 = Size(Current) /\ HeaderSize + 1 \in Nat
        /\ Size(Current) <= Size(Current)
    BY <1>1, <2>1, <2>2
  <2>5. /\ \A k \in 1..wanted : stream[k] = ByteAt(Current, (HeaderSize + 1) + k - 1)
        /\ IF Current + 1 <= Len(sent)
           THEN wanted < Len(stream) /\ stream[wanted + 1] = ByteAt(Current + 1, 1)
           ELSE wanted = Len(stream)
    BY <1>1, <1>6, <2>3, <2>4, Advance
  <2>6. h.bytes = BodyOf(Current, sent[Current])
    <3>1. \A k \in 1..wanted : stream[k] = ByteAt(Current, HeaderSize + k)
      <4>1. \A k \in 1..wanted : (HeaderSize + 1) + k - 1 = HeaderSize + k
        BY <2>2
      <4>2. QED
        BY <2>5, <4>1
    <3>2. BodyOf(Current, sent[Current]) = [k \in 1..wanted |-> ByteAt(Current, HeaderSize + k)]
      BY <2>1 DEF BodyOf, ByteAt
    <3>3. QED
      BY <1>3, <1>4, <3>1, <3>2
  <2>7. Begins(Current + 1)'
    <3>1. Current + 1 \in 1..(Len(sent) + 1)
      BY <2>2
    <3>2. IF Current + 1 <= Len(sent) THEN stream' # <<>> /\ stream'[1] = ByteAt(Current + 1, 1)
                                      ELSE stream' = <<>>
      BY <1>1, <1>7, <2>5
    <3>3. QED
      BY <1>1, <1>9, <3>1, <3>2 DEF Begins, ByteAt
  <2>8. /\ HeaderOf(Current)' = HeaderOf(Current)
        /\ BodyOf(Current, sent[Current])' = BodyOf(Current, sent[Current])
    BY <1>1, <1>9 DEF HeaderOf, BodyOf, Message
  <2>9. Expected'
    BY <1>1, <1>2, <1>5, <1>9, <1>11, <2>1, <2>6, <2>7, <2>8 DEF Expected
  <2>10. QED
    BY <1>8, <2>9 DEF KInv
<1>12. QED
  BY <1>2, <1>10, <1>11 DEF JInv, TypeOK, State, IsOpen

\* The client's next message is put after the last byte of the one before it.
LEMMA ClientSendsReads ==
  ASSUME JInv, KInv, ClientSends
  PROVE  KInv'
<1>1. PICK body \in BodySizes :
        sent' = Append(sent, body) /\ stream' = stream \o Message(Len(sent) + 1, body)
  BY DEF ClientSends
<1>2. UNCHANGED <<ready, state, socket, wanted, header, delivered>>
  BY DEF ClientSends
<1> DEFINE N == Len(sent) + 1
           L == Len(stream)
           M == HeaderSize + body
           Z(i) == HeaderSize + sent'[i]
<1>3. /\ TypeOK /\ sent \in Seq(Nat) /\ Len(sent) \in Nat /\ stream \in Seq(Byte)
      /\ body \in Nat /\ HeaderSize \in Nat /\ HeaderSize > 0
      /\ N \in Nat /\ L \in Nat /\ M \in Nat /\ M > 0
  <2>1. TypeOK
    BY DEF JInv
  <2>2. body \in Nat /\ HeaderSize \in Nat /\ HeaderSize > 0
    BY TcpClientAssumption
  <2>3. sent \in Seq(Nat) /\ Len(sent) \in Nat /\ stream \in Seq(Byte)
    BY <2>1, Sizes
  <2>4. QED
    BY <2>1, <2>2, <2>3
<1>4. /\ Len(sent') = N /\ sent'[N] = body
      /\ \A i \in 1..Len(sent) : sent'[i] = sent[i]
  BY <1>1, <1>3
<1>5. /\ stream' = stream \o Message(N, body)
      /\ Message(N, body) = [k \in 1..M |-> ByteAt(N, k)]
  BY <1>1 DEF Message, ByteAt
<1>6. /\ Z(N) = M
      /\ \A i \in 1..Len(sent) : Z(i) = Size(i) /\ Size(i) \in Nat
  BY <1>3, <1>4, Sizes DEF Size
<1>7. /\ Len(stream') = L + M
      /\ \A k \in 1..L : stream'[k] = stream[k]
      /\ \A p \in 1..M : stream'[L + p] = ByteAt(N, p)
      /\ \A k \in 1..Len(stream') : k \in 1..L \/ (k - L \in 1..M /\ k = L + (k - L))
      /\ stream' # <<>>
  <2> DEFINE m == [k \in 1..M |-> ByteAt(N, k)]
  <2>1. \A k \in 1..M : m[k] = ByteAt(N, k)
    OBVIOUS
  <2> HIDE DEF m
  <2>3. stream' = stream \o m
    BY <1>5 DEF m
  <2> DEFINE V == {m[k] : k \in 1..M} \cup Byte
  <2>4. m \in Seq(V) /\ Len(m) = M /\ stream \in Seq(V)
    <3>1. m = [k \in 1..M |-> m[k]]
      BY DEF m
    <3>2. \A k \in 1..M : m[k] \in V
      OBVIOUS
    <3>3. Byte \subseteq V
      OBVIOUS
    <3> HIDE DEF V
    <3>4. m \in Seq(V) /\ Len(m) = M
      BY <1>3, <3>1, <3>2
    <3>5. stream \in Seq(V)
      BY <1>3, <3>3
    <3>6. QED
      BY <3>4, <3>5
  <2> HIDE DEF V, M
  <2>5. /\ stream \o m \in Seq(V) /\ Len(stream \o m) = L + M
        /\ \A k \in 1..L : (stream \o m)[k] = stream[k]
        /\ \A p \in 1..M : (stream \o m)[L + p] = m[p]
    <3>1. stream \o m \in Seq(V) /\ Len(stream \o m) = Len(stream) + Len(m)
      BY <2>4, Concatenation
    <3>2. \A k \in 1..Len(stream) : (stream \o m)[k] = stream[k]
      BY <2>4, Concatenation
    <3>3. \A k \in 1..Len(m) : (stream \o m)[Len(stream) + k] = m[k]
      BY <2>4, Concatenation
    <3>4. QED
      BY <2>4, <3>1, <3>2, <3>3
  <2>6. stream \o m # <<>>
    <3>1. L + M # 0 /\ Len(<<>>) = 0
      BY <1>3
    <3>2. QED
      BY <2>5, <3>1
  <2>7. \A k \in 1..(L + M) : k \in 1..L \/ (k - L \in 1..M /\ k = L + (k - L))
    BY <1>3
  <2>8. QED
    BY <2>1, <2>3, <2>5, <2>6, <2>7
<1> HIDE DEF N, L, M, Z
<1>8. /\ Flow(stream) /\ Ends(stream) /\ RequestsAsSent /\ Expected
      /\ \A a, b, c, d : ByteAt(a, b) = ByteAt(c, d) => a = c /\ b = d
      /\ \A a, b : ByteAt(a, b).msg = a /\ ByteAt(a, b).pos = b
  BY DEF KInv, ByteAt
<1>9. ASSUME NEW k \in 1..L
      PROVE  LET r == Size(stream[k].msg) - stream[k].pos
             IN  /\ r \in Nat /\ k + r <= L
                 /\ k + r = L => stream[k].msg = Len(sent)
  <2> DEFINE r == Size(stream[k].msg) - stream[k].pos
  <2>1. stream[k].msg \in 1..Len(sent) /\ stream[k].pos \in 1..Size(stream[k].msg)
    BY <1>8 DEF Flow, L
  <2>2. r \in Nat /\ stream[k].pos \in Nat /\ Size(stream[k].msg) \in Nat
    BY <1>6, <2>1
  <2>3. stream[L] = ByteAt(Len(sent), Size(Len(sent)))
    <3>1. stream # <<>>
      BY <1>3 DEF L
    <3>2. QED
      BY <1>8, <3>1 DEF Ends, L
  <2>4. ASSUME L - k <= r PROVE stream[k].msg = Len(sent) /\ k + r = L
    <3>1. L \in k..Len(stream) /\ L \in Nat /\ k \in Nat
      BY <1>3 DEF L
    <3>2. stream[L] = ByteAt(stream[k].msg, stream[k].pos + (L - k))
      BY <1>8, <2>4, <3>1 DEF Flow, L
    <3>3. stream[L].msg = stream[k].msg /\ stream[L].pos = stream[k].pos + (L - k)
      BY <1>8, <3>2
    <3>4. stream[L].msg = Len(sent) /\ stream[L].pos = Size(Len(sent))
      BY <1>8, <2>3
    <3>5. stream[k].msg = Len(sent) /\ Size(stream[k].msg) = Size(Len(sent))
      BY <3>3, <3>4
    <3>6. stream[k].pos + (L - k) = Size(stream[k].msg)
      BY <3>3, <3>4, <3>5
    <3>7. k + r = L
      BY <2>2, <3>1, <3>6
    <3>8. QED
      BY <3>5, <3>7
  <2>5. k \in Nat /\ L \in Nat /\ k <= L
    BY <1>3
  <2> HIDE DEF r
  <2>6. r \in Nat /\ k + r <= L /\ (k + r = L => stream[k].msg = Len(sent))
    BY <2>2, <2>4, <2>5
  <2>7. QED
    BY <2>6 DEF r
<1>10. Flow(stream)'
  <2>1. SUFFICES ASSUME NEW k \in 1..Len(stream')
                 PROVE  /\ stream'[k].msg \in 1..N
                        /\ stream'[k].pos \in 1..Z(stream'[k].msg)
                        /\ \A j \in k..Len(stream') :
                             j - k <= Z(stream'[k].msg) - stream'[k].pos =>
                               stream'[j] = ByteAt(stream'[k].msg, stream'[k].pos + (j - k))
                        /\ \A j \in 1..Len(stream') :
                             j = k + (Z(stream'[k].msg) - stream'[k].pos) + 1 =>
                               stream'[j] = ByteAt(stream'[k].msg + 1, 1)
    BY <1>4 DEF Flow, Size, ByteAt, Z
  <2>2. CASE k \in 1..L
    <3> DEFINE i == stream[k].msg
               p == stream[k].pos
               r == Size(i) - p
    <3>1. stream'[k] = stream[k] /\ i \in 1..Len(sent) /\ p \in 1..Size(i) /\ k \in 1..Len(stream)
      BY <1>7, <1>8, <2>2 DEF Flow, L
    <3>2. Z(i) = Size(i) /\ Size(i) \in Nat /\ p \in Nat /\ k \in Nat /\ i \in Nat
      BY <1>6, <2>2, <3>1
    <3>3. r \in Nat /\ k + r <= L /\ (k + r = L => i = Len(sent))
      BY <1>9, <2>2
    <3>4. /\ \A j \in k..Len(stream) : j - k <= r => stream[j] = ByteAt(i, p + (j - k))
          /\ \A j \in 1..Len(stream) : j = k + r + 1 => stream[j] = ByteAt(i + 1, 1)
      BY <1>8, <3>1 DEF Flow
    <3> HIDE DEF r, i, p
    <3>5. ASSUME NEW j \in k..Len(stream'), j - k <= r
          PROVE  stream'[j] = ByteAt(i, p + (j - k))
      <4>1. j \in 1..L /\ j \in k..Len(stream)
        BY <1>3, <1>7, <3>2, <3>3, <3>5 DEF L
      <4>2. QED
        BY <1>7, <3>4, <3>5, <4>1
    <3>6. ASSUME NEW j \in 1..Len(stream'), j = k + r + 1
          PROVE  stream'[j] = ByteAt(i + 1, 1)
      <4>1. CASE j \in 1..L
        BY <1>7, <3>4, <3>6, <4>1 DEF L
      <4>2. CASE j > L
        <5>1. j = L + 1 /\ i = Len(sent)
          BY <1>3, <3>2, <3>3, <3>6, <4>2
        <5>2. stream'[L + 1] = ByteAt(N, 1)
          BY <1>3, <1>7
        <5>3. QED
          BY <5>1, <5>2 DEF N
      <4>3. QED
        BY <1>3, <4>1, <4>2
    <3>7. stream'[k].msg = i /\ stream'[k].pos = p /\ Z(stream'[k].msg) = Z(i)
      BY <3>1 DEF i, p
    <3>8. i \in 1..N /\ p \in 1..Z(i)
      BY <1>3, <3>1, <3>2 DEF N, i, p
    <3>9. Z(i) - p = r
      BY <3>2 DEF r
    <3>10. QED
      BY <3>5, <3>6, <3>7, <3>8, <3>9
  <2>3. CASE k - L \in 1..M /\ k = L + (k - L)
    <3> DEFINE p == k - L
    <3>1. stream'[k] = ByteAt(N, p) /\ p \in 1..M /\ k = L + p
      BY <1>7, <2>3
    <3> HIDE DEF p
    <3>2. stream'[k].msg = N /\ stream'[k].pos = p /\ Z(stream'[k].msg) = M
      <4>1. stream'[k].msg = N /\ stream'[k].pos = p
        BY <1>8, <3>1
      <4>2. QED
        BY <1>6, <4>1
    <3>3. ASSUME NEW j \in k..Len(stream'), j - k <= M - p
          PROVE  stream'[j] = ByteAt(N, p + (j - k))
      <4>1. j - L \in 1..M /\ j = L + (j - L) /\ p + (j - k) = j - L
        BY <1>3, <1>7, <3>1
      <4>2. QED
        BY <1>7, <4>1
    <3>4. ~ \E j \in 1..Len(stream') : j = k + (M - p) + 1
      BY <1>3, <1>7, <3>1
    <3>5. N \in 1..N
      BY <1>3 DEF N
    <3>6. QED
      BY <3>1, <3>2, <3>3, <3>4, <3>5
  <2>4. QED
    BY <1>7, <2>2, <2>3
<1>11. Ends(stream)'
  <2>1. stream'[L + M] = ByteAt(N, M)
    BY <1>3, <1>7
  <2>2. QED
    BY <1>4, <1>6, <1>7, <2>1 DEF Ends, Size, ByteAt, Z
<1>12. RequestsAsSent'
  <2>1. \A i \in 1..Len(delivered) : i \in 1..Len(sent)
    <3>1. delivered \in Seq(Request)
      BY DEF JInv, TypeOK
    <3>2. QED
      BY <1>3, <1>8, <3>1 DEF RequestsAsSent
  <2>2. \A i \in 1..Len(sent) : i <= N
    BY <1>3 DEF N
  <2>3. QED
    BY <1>2, <1>4, <1>8, <2>1, <2>2 DEF RequestsAsSent, HeaderOf, BodyOf, Message
<1>13. \A i : Begins(i) => Begins(i)'
  <2>1. SUFFICES ASSUME NEW i, Begins(i) PROVE Begins(i)'
    OBVIOUS
  <2>2. i \in 1..N /\ i \in 1..(N + 1)
    BY <1>3, <2>1 DEF Begins, N
  <2>3. CASE i <= Len(sent)
    <3>1. stream # <<>> /\ stream[1] = ByteAt(i, 1)
      BY <2>1, <2>3 DEF Begins
    <3>2. 1 \in 1..L
      BY <1>3, <3>1 DEF L
    <3>3. stream'[1] = ByteAt(i, 1)
      BY <1>7, <3>1, <3>2
    <3>4. QED
      BY <1>4, <1>7, <2>2, <3>3 DEF Begins, ByteAt
  <2>4. CASE ~(i <= Len(sent))
    <3>1. stream = <<>> /\ i = N
      BY <1>3, <2>1, <2>2, <2>4 DEF Begins, N
    <3>2. L = 0 /\ 1 \in 1..M /\ L + 1 = 1
      BY <1>3, <3>1 DEF L
    <3>3. stream'[1] = ByteAt(i, 1)
      BY <1>7, <3>1, <3>2
    <3>4. QED
      BY <1>4, <1>7, <2>2, <3>3 DEF Begins, ByteAt
  <2>5. QED
    BY <2>3, <2>4
<1>14. Current' = Current /\ IsOpen' = IsOpen
  BY <1>2 DEF Current, IsOpen
<1>15. Current <= Len(sent) =>
        /\ Current <= Len(sent)' /\ sent[Current]' = sent[Current]
        /\ Continues(Current) => Continues(Current)'
        /\ HeaderOf(Current)' = HeaderOf(Current)
        /\ BodyOf(Current, sent[Current])' = BodyOf(Current, sent[Current])
  <2>1. SUFFICES ASSUME Current <= Len(sent)
                 PROVE  /\ Current <= Len(sent)' /\ sent[Current]' = sent[Current]
                        /\ Continues(Current) => Continues(Current)'
                        /\ HeaderOf(Current)' = HeaderOf(Current)
                        /\ BodyOf(Current, sent[Current])' = BodyOf(Current, sent[Current])
    OBVIOUS
  <2>2. Current \in 1..Len(sent) /\ Current \in Nat
    BY <2>1, CurrentFacts
  <2>3. sent[Current]' = sent[Current] /\ Current <= Len(sent)'
    BY <1>3, <1>4, <1>14, <2>2 DEF N
  <2>4. Continues(Current) => Continues(Current)'
    <3>1. CASE sent[Current] = 0
      <4>1. Begins(Current + 1) => Begins(Current + 1)'
        BY <1>13, <1>14 DEF Begins
      <4>2. QED
        BY <2>3, <3>1, <4>1 DEF Continues
    <3>2. CASE sent[Current] # 0
      <4>1. SUFFICES ASSUME stream # <<>>, stream[1] = ByteAt(Current, HeaderSize + 1)
                     PROVE  stream'[1] = ByteAt(Current, HeaderSize + 1)
        BY <1>7, <1>14, <2>3, <3>2 DEF Continues, ByteAt
      <4>2. 1 \in 1..L
        BY <1>3, <4>1 DEF L
      <4>3. QED
        BY <1>7, <4>1, <4>2
    <3>3. QED
      BY <3>1, <3>2
  <2>5. QED
    BY <1>14, <2>3, <2>4 DEF HeaderOf, BodyOf, Message
<1>16. Expected'
  <2>1. Begins(Current) => Begins(Current)'
    BY <1>13, <1>14 DEF Begins
  <2>2. Begins(Current + 1) => Begins(Current + 1)'
    BY <1>13, <1>14 DEF Begins
  <2>4. ASSUME state = "reading_body"
        PROVE  /\ Current' <= Len(sent)' /\ header' = HeaderOf(Current)'
               /\ sent[Current]' \in 1..MaxBody
               /\ wanted' > 0 => wanted' = sent[Current]' /\ Continues(Current)'
    BY <1>2, <1>8, <1>14, <1>15, <2>4 DEF Expected
  <2>5. ASSUME IsOpen, NEW h \in Members(ready), h.kind = "read", h.ok
        PROVE  /\ Current' <= Len(sent)'
               /\ state = "reading_header" => h.bytes = HeaderOf(Current)' /\ Continues(Current)'
               /\ state = "reading_body" =>
                    h.bytes = BodyOf(Current, sent[Current])' /\ Begins(Current + 1)'
    BY <1>8, <1>14, <1>15, <2>2, <2>5 DEF Expected
  <2>6. QED
    BY <1>2, <1>8, <1>14, <2>1, <2>4, <2>5 DEF Expected
<1>17. QED
  BY <1>10, <1>11, <1>12, <1>16 DEF KInv

\* Nothing has been sent or read.
LEMMA InitKInv == Init => KInv
<1> SUFFICES ASSUME Init
             PROVE  KInv
  OBVIOUS
<1>1. /\ stream = <<>> /\ delivered = <<>> /\ sent = <<>> /\ state = "idle" /\ ready = <<>>
  BY DEF Init
<1>2. Members(ready) = {} /\ Len(<<>>) = 0 /\ 1..0 = {}
  BY <1>1, None
<1>3. RequestsAsSent /\ Flow(stream) /\ Ends(stream)
  BY <1>1, <1>2 DEF RequestsAsSent, Flow, Ends
<1>4. Begins(Current)
  <2>1. Current = 1 /\ 1 \in 1..(0 + 1) /\ ~(1 <= 0)
    BY <1>1 DEF Current
  <2>2. QED
    BY <1>1, <2>1 DEF Begins
<1>5. Expected
  BY <1>1, <1>2, <1>4 DEF Expected
<1>6. QED
  BY <1>3, <1>5 DEF KInv

\* The handlers keep what is expected of the stream.
LEMMA RunHandlerReads ==
  ASSUME JInv, KInv, RunHandler
  PROVE  KInv'
<1>1. CASE ReadHeader \/ ReadEmptyRequest \/ ReadBody
  BY <1>1, ReadHeaderReads, ReadEmptyRequestReads, ReadBodyReads
<1>2. CASE ReadError \/ SendError
  <2>1. UNCHANGED <<sent, stream, delivered>> /\ state' = "closed"
    BY <1>2 DEF ReadError, SendError, OnError
  <2>2. QED
    BY <2>1, NothingExpected
<1>3. CASE ReadAfterClose \/ StartSend \/ SendNotConnected \/ SendDone \/ SendAfterClose
  <2>1. /\ UNCHANGED <<sent, stream, delivered, header, state, wanted, socket>>
        /\ ready # <<>> /\ ready' = Tail(ready)
    BY <1>3 DEF ReadAfterClose, StartSend, SendNotConnected, SendDone, SendAfterClose, Running
  <2>2. \A h \in Members(ready') : h \in Members(ready)
    BY <2>1, Taken
  <2>3. IsOpen' = IsOpen
    BY <2>1 DEF IsOpen
  <2>4. QED
    BY <2>1, <2>2, <2>3, NothingRead
<1>4. QED
  BY <1>1, <1>2, <1>3 DEF RunHandler

\* So do the client, the socket and the commands.
LEMMA EnvironmentReads ==
  ASSUME JInv, KInv, Environment
  PROVE  KInv'
<1>1. CASE ClientSends \/ ReadCompletes
  BY <1>1, ClientSendsReads, ReadCompletesReads
<1>2. CASE ReadFails
  <2> DEFINE h == [kind |-> "read", ok |-> FALSE, bytes |-> <<>>]
  <2>1. /\ UNCHANGED <<sent, stream, delivered, header, state, socket>> /\ wanted' = 0
        /\ ready' = Append(ready, h)
    BY <1>2 DEF ReadFails
  <2>2. h \in Handler /\ ~h.ok
    BY DEF Handler
  <2> HIDE DEF h
  <2>3. \A g \in Members(ready') : g \in Members(ready) \/ g = h
    BY <2>1, <2>2, Queued
  <2>4. IsOpen' = IsOpen
    BY <2>1 DEF IsOpen
  <2>5. QED
    BY <2>1, <2>2, <2>3, <2>4, NothingRead
<1>3. CASE SendCompletes \/ SendFails
  <2>1. PICK ok \in BOOLEAN :
          ready' = Append(ready, [kind |-> "sent", answer |-> Head(sending), ok |-> ok])
    BY <1>3 DEF SendCompletes, SendFails
  <2> DEFINE h == [kind |-> "sent", answer |-> Head(sending), ok |-> ok]
  <2>2. sending \in Seq(Answer) /\ sending # <<>>
    BY <1>3 DEF SendCompletes, SendFails, JInv, TypeOK
  <2>3. Head(sending) \in Answer
    BY <2>2
  <2>4. h \in Handler /\ h.kind = "sent" /\ ready' = Append(ready, h)
    BY <2>1, <2>3 DEF Handler
  <2> HIDE DEF h
  <2>5. \A g \in Members(ready') : g \in Members(ready) \/ g = h
    BY <2>4, Queued
  <2>6. UNCHANGED <<sent, stream, delivered, header, state, wanted, socket>>
    BY <1>3 DEF SendCompletes, SendFails
  <2>7. IsOpen' = IsOpen
    BY <2>6 DEF IsOpen
  <2>8. QED
    BY <2>4, <2>5, <2>6, <2>7, NothingRead
<1>4. CASE RespondLater
  <2>1. /\ UNCHANGED <<sent, stream, delivered, header, state, wanted, socket>>
        /\ ready' = ready \o Respond(1) /\ posted + 1 <= MaxAnswers
    BY <1>4 DEF RespondLater, MayRespond
  <2>2. ready \in Seq(Handler) /\ Apart(ready) /\ Ordered(ready)
    BY DEF JInv, TypeOK, Places
  <2>3. \A g \in Members(ready') : g \in Members(ready) \/ g.kind = "respond"
    BY <2>1, <2>2, Posted
  <2>4. IsOpen' = IsOpen
    BY <2>1 DEF IsOpen
  <2>5. QED
    BY <2>1, <2>3, <2>4, NothingRead
<1>5. QED
  BY <1>1, <1>2, <1>3, <1>4 DEF Environment

\* Every step keeps it.
LEMMA NextKInv == JInv /\ KInv /\ [Next]_vars => KInv'
<1> SUFFICES ASSUME JInv, KInv, [Next]_vars
             PROVE  KInv'
  OBVIOUS
<1>1. CASE Start
  BY <1>1, StartReads
<1>2. CASE StartThrows
  <2>1. /\ UNCHANGED <<sent, stream, delivered, header, state, wanted, ready>>
        /\ ~IsOpen'
    BY <1>2 DEF StartThrows, IsOpen
  <2>2. QED
    BY <2>1, NothingRead
<1>3. CASE RunHandler
  BY <1>3, RunHandlerReads
<1>4. CASE Environment
  BY <1>4, EnvironmentReads
<1>5. CASE UNCHANGED vars
  <2>1. UNCHANGED <<sent, stream, delivered, header, state, wanted, ready, socket>>
    BY <1>5 DEF vars
  <2>2. IsOpen' = IsOpen
    BY <2>1 DEF IsOpen
  <2>3. QED
    BY <2>1, <2>2, NothingRead
<1>6. QED
  BY <1>1, <1>2, <1>3, <1>4, <1>5 DEF Next

-----------------------------------------------------------------------------

\* read_state_machine cuts the client's bytes at the right places: whatever the
\* sizes of the bodies and however the bytes arrive, the requests handed to
\* server::on_request are the client's messages, whole, once and in order.
THEOREM RequestsWhole == Spec => []RequestsAsSent
<1>1. KInv => RequestsAsSent
  BY DEF KInv
<1>2. Spec => []KInv
  BY InitKInv, NextKInv, JInvariance, PTL DEF Spec
<1>3. QED
  BY <1>1, <1>2, PTL

=============================================================================
