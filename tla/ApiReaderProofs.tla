--------------------------- MODULE ApiReaderProofs ---------------------------
(***************************************************************************)
(* What encode_length writes is what on_reading_length reads, for every      *)
(* length below 2^28.  On that rests the reader: it stands where it should   *)
(* in the router's stream, a sentence reaches handle_response whole, once    *)
(* and in order, an answer the callback of its own request, and the reader   *)
(* implements SentenceApi, for any number of requests, sentences and sizes   *)
(* of words.                                                                 *)
(***************************************************************************)
EXTENDS ApiReader, FiniteSetTheorems, TLAPS

-----------------------------------------------------------------------------
(* The length of a word. *)

\* The bytes that encode_length writes, form by form.
LEMMA Forms ==
  ASSUME NEW n \in Nat, n < MaxLength
  PROVE  /\ n < 128 => EncodeLength(n) = <<n>>
         /\ n >= 128 /\ n < 16384 => EncodeLength(n) = <<128 + n \div 256, n % 256>>
         /\ n >= 16384 /\ n < 2097152 =>
              EncodeLength(n) = <<192 + n \div 65536, (n \div 256) % 256, n % 256>>
         /\ n >= 2097152 =>
              EncodeLength(n) = <<224 + n \div 16777216, (n \div 65536) % 256,
                                  (n \div 256) % 256, n % 256>>
<1>1. /\ Bytes(n, 1) = <<n % 256>>
      /\ Bytes(n, 2) = <<(n \div 256) % 256, n % 256>>
      /\ Bytes(n, 3) = <<(n \div 65536) % 256, (n \div 256) % 256, n % 256>>
      /\ Bytes(n, 4) = <<(n \div 16777216) % 256, (n \div 65536) % 256,
                         (n \div 256) % 256, n % 256>>
  BY SMT DEF Bytes, Weight
<1>2. CASE n < 128
  <2>1. n % 256 = n
    BY <1>2, SMT
  <2>2. QED
    BY <1>1, <1>2, <2>1, SMT DEF EncodeLength
<1>3. CASE n >= 128 /\ n < 16384
  <2>1. (n \div 256) % 256 = n \div 256
    BY <1>3, SMT
  <2>2. QED
    BY <1>1, <1>3, <2>1, SMT DEF EncodeLength, Marked
<1>4. CASE n >= 16384 /\ n < 2097152
  <2>1. (n \div 65536) % 256 = n \div 65536
    BY <1>4, SMT
  <2>2. QED
    BY <1>1, <1>4, <2>1, SMT DEF EncodeLength, Marked
<1>5. CASE n >= 2097152
  <2>1. (n \div 16777216) % 256 = n \div 16777216
    BY <1>5, SMT DEF MaxLength
  <2>2. QED
    BY <1>1, <1>5, <2>1, SMT DEF EncodeLength, Marked
<1>6. QED
  BY <1>2, <1>3, <1>4, <1>5, SMT

\* The first byte of a word's length announces the bytes that follow it, and
\* never looks like the end of a sentence unless the word is empty.
THEOREM FirstByte ==
  ASSUME NEW n \in Nat, n < MaxLength
  PROVE  /\ Len(EncodeLength(n)) = MoreBytes(EncodeLength(n)[1]) + 1
         /\ EncodeLength(n)[1] = 0 <=> n = 0
<1>1. CASE n < 128
  BY <1>1, Forms, SMT DEF MoreBytes
<1>2. CASE n >= 128 /\ n < 16384
  <2>1. n \div 256 \in 0..63
    BY <1>2, SMT
  <2>2. QED
    BY <1>2, <2>1, Forms, SMT DEF MoreBytes
<1>3. CASE n >= 16384 /\ n < 2097152
  <2>1. n \div 65536 \in 0..31
    BY <1>3, SMT
  <2>2. QED
    BY <1>3, <2>1, Forms, SMT DEF MoreBytes
<1>4. CASE n >= 2097152
  <2>1. n \div 16777216 \in 0..15
    BY <1>4, SMT DEF MaxLength
  <2>2. QED
    BY <1>4, <2>1, Forms, SMT DEF MoreBytes
<1>5. QED
  BY <1>1, <1>2, <1>3, <1>4, SMT

\* The length that on_reading_length finds is the length that was written.
THEOREM RoundTrip ==
  ASSUME NEW n \in Nat, n < MaxLength
  PROVE  WordLen(LowBits(EncodeLength(n)[1]), Tail(EncodeLength(n))) = n
<1>1. CASE n < 128
  BY <1>1, Forms, SMT DEF LowBits, WordLen, Digit, Weight
<1>2. CASE n >= 128 /\ n < 16384
  <2> DEFINE a == n \div 256
             b == n % 256
  <2>1. a \in 0..63 /\ b \in 0..255 /\ n = 256 * a + b
    BY <1>2, SMT
  <2>2. EncodeLength(n) = <<128 + a, b>>
    BY <1>2, Forms, SMT
  <2>3. LowBits(128 + a) = a
    BY <2>1, SMT DEF LowBits
  <2>4. WordLen(a, <<b>>) = 256 * a + b
    BY <2>1, SMT DEF WordLen, Digit, Weight
  <2>5. QED
    BY <2>1, <2>2, <2>3, <2>4, SMT
<1>3. CASE n >= 16384 /\ n < 2097152
  <2> DEFINE a == n \div 65536
             b == (n \div 256) % 256
             c == n % 256
  <2>1. a \in 0..31 /\ b \in 0..255 /\ c \in 0..255 /\ n = 65536 * a + 256 * b + c
    BY <1>3, SMT
  <2>2. EncodeLength(n) = <<192 + a, b, c>>
    BY <1>3, Forms, SMT
  <2>3. LowBits(192 + a) = a
    BY <2>1, SMT DEF LowBits
  <2>4. WordLen(a, <<b, c>>) = 65536 * a + 256 * b + c
    BY <2>1, SMT DEF WordLen, Digit, Weight
  <2>5. QED
    BY <2>1, <2>2, <2>3, <2>4, SMT
<1>4. CASE n >= 2097152
  <2> DEFINE a == n \div 16777216
             b == (n \div 65536) % 256
             c == (n \div 256) % 256
             d == n % 256
  <2>1. /\ a \in 0..15 /\ b \in 0..255 /\ c \in 0..255 /\ d \in 0..255
        /\ n = 16777216 * a + 65536 * b + 256 * c + d
    BY <1>4, SMT DEF MaxLength
  <2>2. EncodeLength(n) = <<224 + a, b, c, d>>
    BY <1>4, Forms, SMT
  <2>3. LowBits(224 + a) = a
    BY <2>1, SMT DEF LowBits
  <2>4. WordLen(a, <<b, c, d>>) = 16777216 * a + 65536 * b + 256 * c + d
    BY <2>1, SMT DEF WordLen, Digit, Weight
  <2>5. QED
    BY <2>1, <2>2, <2>3, <2>4, SMT
<1>5. QED
  BY <1>1, <1>2, <1>3, <1>4, SMT
-----------------------------------------------------------------------------
(* The invariant of what is read and whom it reaches. *)

\* The reader goes on.
Live == IsOpen /\ ~aborted

IsRead(h) == h.kind = "read"

\* One read, under way or completed, and none after closing.
Reads ==
  /\ \A i, j \in 1..Len(ready) : IsRead(ready[i]) /\ IsRead(ready[j]) => i = j
  /\ pending # NoRead => \A i \in 1..Len(ready) : ~IsRead(ready[i])
  /\ Live =>
       /\ state \in {"reading_length", "reading_word"}
       /\ pending = NoRead => \E i \in 1..Len(ready) : IsRead(ready[i])
  /\ ~IsOpen => pending = NoRead

\* The place in the stream of byte b of the word to be read, which is there.
Here(b) == [sentence |-> Len(handled) + 1, word |-> Len(sentence) + 1, byte |-> b]

InWord ==
  Len(handled) < Len(answers) /\ Len(sentence) < Len(answers[Len(handled) + 1].words)

LengthHere == LengthAt(Here(1))

\* The read r is of what stands at place p.
ReadsAt(r, p) ==
  \/ /\ state = "reading_length"
     /\ r = ReadNext(1)
     /\ p = Here(1)
  \/ /\ state = "reading_length" /\ InWord
     /\ LengthHere[1] >= 128
     /\ r = ReadMore(LengthHere[1])
     /\ p = Here(2)
  \/ /\ state = "reading_word" /\ InWord
     /\ r = ReadNext(WordAt(Here(1)).size)
     /\ p = Here(Len(LengthHere) + 1)

\* The completed read h got the reserved byte, or the item it was for.
GotReserved(h) ==
  /\ state = "reading_length"
  /\ h.read = ReadNext(1)
  /\ h.item = ByteItem(248)
  /\ faults # {}

Got(h, p) ==
  /\ ReadsAt(h.read, p)
  /\ p.sentence <= Len(answers)
  /\ h.item = ItemAt(p)
  /\ next = After(p)

\* A read that got an item of a sentence came before the sends after it: their
\* requests are younger than the sentence's.
SentAfter(i) ==
  \A k \in 1..Len(ready) :
    i < k /\ ~IsRead(ready[k]) => answers[Len(handled) + 1].req < ready[k].req

Aligned ==
  Live =>
    /\ pending # NoRead => ReadsAt(pending, next)
    /\ \A i \in 1..Len(ready) : IsRead(ready[i]) /\ ready[i].ok =>
         \/ GotReserved(ready[i])
         \/ (\E b \in 1..5 : Got(ready[i], Here(b))) /\ SentAfter(i)

\* The words read so far are the first of the sentence that is next.
Partial ==
  Live /\ sentence # <<>> =>
    /\ Len(handled) < Len(answers)
    /\ Len(sentence) <= Len(answers[Len(handled) + 1].words)
    /\ \A i \in 1..Len(sentence) : sentence[i] = answers[Len(handled) + 1].words[i]

Whole ==
  /\ Len(handled) <= Len(answers)
  /\ \A i \in 1..Len(handled) : handled[i].words = answers[i].words

Answered ==
  \A i \in 1..Len(answers) :
    \/ answers[i].req = 0 /\ answers[i].words \in OddSentences \cup {BareSentence}
    \/ answers[i].req \in 1..requests /\ answers[i].words \in AnswersTo(answers[i].req)

\* The sends complete in their order.
Sends ==
  \A i \in 1..Len(ready) : ~IsRead(ready[i]) =>
    /\ ready[i].req <= requests
    /\ \A k \in 1..Len(ready) : i < k /\ ~IsRead(ready[k]) => ready[i].req < ready[k].req

\* r's send has not completed yet.
Queued(r) == \E i \in 1..Len(ready) : ~IsRead(ready[i]) /\ ready[i].req = r

Before(r) ==
  r <= requests /\ \A i \in 1..Len(ready) : ~IsRead(ready[i]) => r < ready[i].req

\* A callback is kept under its request's tag, once its send has completed.
Kept ==
  \A t \in Tags : callbacks[t] # 0 => Tag(callbacks[t]) = t /\ Before(callbacks[t])

\* A callback that was called has been kept, and is gone if it is done.
Ended ==
  \A i \in 1..Len(handled) : handled[i].to # 0 =>
    /\ Before(handled[i].to)
    /\ handled[i].outcome # "kept" => \A t \in Tags : callbacks[t] # handled[i].to

DroppedTag(t) ==
  \E i \in 1..Len(handled) : handled[i].outcome = "dropped" /\ TagsOf(handled[i].words) = {t}

\* A request whose send has completed has its callback kept, or an older one's,
\* unless one of its tag has returned false.
Registered ==
  Live =>
    \A r \in 1..requests :
      Queued(r) \/ DroppedTag(Tag(r)) \/ callbacks[Tag(r)] \in 1..r

Reasons ==
  /\ reserved # 0 => faults # {}
  /\ \A i \in 1..Len(ready) : IsRead(ready[i]) /\ ~ready[i].ok => faults # {}

IInv ==
  /\ TypeOK
  /\ Reads /\ Aligned /\ Partial /\ Whole /\ Answered
  /\ Sends /\ Kept /\ Ended /\ Registered /\ Reasons
  /\ DroppedForGood /\ RightCallback /\ ClosesForAReason /\ AssertsForAReason

-----------------------------------------------------------------------------
(* Lengths, words and the queue. *)

LEMMA Limit == MaxLength \in Nat /\ MaxLength > TagSize /\ MaxLength <= 16 * 16777216
  BY SMT DEF MaxLength, TagSize

\* What the reader needs of a length: its first byte tells how many follow, and
\* a length of two bytes is found again from them.
LEMMA Lengths ==
  ASSUME NEW n \in 0..(MaxLength - 1)
  PROVE  /\ Len(LengthOf(n)) \in 1..4
         /\ \A i \in 1..Len(LengthOf(n)) : LengthOf(n)[i] \in Octet
         /\ LengthOf(n)[1] \in Nat \ {0} /\ LengthOf(n)[1] < 240
         /\ Len(LengthOf(n)) = MoreBytes(LengthOf(n)[1]) + 1
         /\ LengthOf(n)[1] < 128 => LengthOf(n) = <<n>>
         /\ LengthOf(n)[1] >= 128 => Len(LengthOf(n)) \in 2..4
         /\ Len(LengthOf(n)) = 2 =>
              WordLen(LowBits(LengthOf(n)[1]), <<LengthOf(n)[2]>>) = n
         /\ LengthOf(n)[1] >= 192 => n >= LongSize
<1> DEFINE e == LengthOf(n)
<1>0. n \in Nat /\ n < MaxLength /\ n < 16 * 16777216
  BY Limit, SMT
<1>00. n # 0 => e = EncodeLength(n)
  BY DEF LengthOf
<1>1. CASE n = 0
  <2>1. e = <<128, 0>>
    BY <1>1 DEF LengthOf
  <2>2. WordLen(LowBits(128), <<0>>) = 0
    BY SMT DEF LowBits, WordLen, Digit, Weight
  <2>3. Len(e) = 2 /\ e[1] = 128 /\ e[2] = 0 /\ MoreBytes(128) = 1
    BY <2>1, SMT DEF MoreBytes
  <2> HIDE DEF e
  <2>4. /\ Len(e) \in 1..4 /\ \A i \in 1..Len(e) : e[i] \in Octet
        /\ e[1] \in Nat \ {0} /\ e[1] < 240 /\ Len(e) = MoreBytes(e[1]) + 1
        /\ ~(e[1] < 128) /\ Len(e) \in 2..4 /\ ~(e[1] >= 192)
    BY <2>3, SMT DEF Octet
  <2>5. WordLen(LowBits(e[1]), <<e[2]>>) = n
    BY <1>1, <2>2, <2>3
  <2>6. QED
    BY <2>4, <2>5 DEF e
<1>2. CASE n # 0 /\ n < 128
  <2>1. e = <<n>>
    BY <1>0, <1>00, <1>2, Forms, SMT
  <2>2. QED
    BY <1>0, <1>2, <2>1, SMT DEF MoreBytes, Octet
<1>3. CASE n >= 128 /\ n < 16384
  <2>1. n \div 256 \in 0..63 /\ n % 256 \in 0..255
    BY <1>3, SMT
  <2>2. e = <<128 + n \div 256, n % 256>> /\ e = EncodeLength(n)
    BY <1>0, <1>00, <1>3, Forms, SMT
  <2>3. WordLen(LowBits(EncodeLength(n)[1]), Tail(EncodeLength(n))) = n
    BY <1>0, RoundTrip
  <2> HIDE DEF e
  <2>4. Tail(e) = <<e[2]>> /\ Len(e) = 2 /\ e[1] = 128 + n \div 256 /\ e[2] = n % 256
    BY <2>1, <2>2, SMT
  <2>5. WordLen(LowBits(e[1]), <<e[2]>>) = n
    BY <2>2, <2>3, <2>4
  <2>6. e[1] \in 128..191 /\ e[2] \in 0..255
    BY <2>1, <2>4, SMT
  <2>7. MoreBytes(e[1]) = 1
    BY <2>6, SMT DEF MoreBytes
  <2>8. \A i \in 1..Len(e) : e[i] \in Octet
    <3>1. \A i \in 1..Len(e) : i = 1 \/ i = 2
      BY <2>4, SMT
    <3>2. e[1] \in Octet /\ e[2] \in Octet
      BY <2>6, SMT DEF Octet
    <3>3. QED
      BY <3>1, <3>2
  <2>9. /\ Len(e) \in 1..4 /\ e[1] \in Nat \ {0} /\ e[1] < 240
        /\ Len(e) = MoreBytes(e[1]) + 1
        /\ ~(e[1] < 128) /\ Len(e) \in 2..4 /\ ~(e[1] >= 192)
    BY <2>4, <2>6, <2>7, SMT
  <2>10. QED
    BY <2>5, <2>8, <2>9 DEF e
<1>4. CASE n >= 16384 /\ n < 2097152
  <2>1. n \div 65536 \in 0..31 /\ (n \div 256) % 256 \in 0..255 /\ n % 256 \in 0..255
    BY <1>4, SMT
  <2>2. e = <<192 + n \div 65536, (n \div 256) % 256, n % 256>>
    BY <1>0, <1>00, <1>4, Forms, SMT
  <2>3. QED
    BY <1>4, <2>1, <2>2, SMT DEF MoreBytes, Octet, LongSize
<1>5. CASE n >= 2097152
  <2>1. /\ n \div 16777216 \in 0..15 /\ (n \div 65536) % 256 \in 0..255
        /\ (n \div 256) % 256 \in 0..255 /\ n % 256 \in 0..255
    BY <1>0, <1>5, SMT
  <2>2. e = <<224 + n \div 16777216, (n \div 65536) % 256, (n \div 256) % 256, n % 256>>
    BY <1>0, <1>00, <1>5, Forms, SMT
  <2>3. QED
    BY <1>5, <2>1, <2>2, SMT DEF MoreBytes, Octet, LongSize
<1>6. QED
  BY <1>0, <1>1, <1>2, <1>3, <1>4, <1>5, SMT

\* The first handler is taken, or one comes at the end.
LEMMA TailFacts ==
  ASSUME NEW S, NEW s \in Seq(S), s # <<>>
  PROVE  /\ Len(s) \in Nat /\ Len(Tail(s)) \in Nat
         /\ 1 \in 1..Len(s) /\ Head(s) = s[1] /\ Head(s) \in S
         /\ Tail(s) \in Seq(S)
         /\ \A i \in 1..Len(Tail(s)) : i + 1 \in 1..Len(s) /\ Tail(s)[i] = s[i + 1]
         /\ \A i \in 1..Len(s) : i # 1 => i - 1 \in 1..Len(Tail(s)) /\ Tail(s)[i - 1] = s[i]
  OBVIOUS

LEMMA AppendFacts ==
  ASSUME NEW S, NEW s \in Seq(S), NEW e \in S
  PROVE  /\ Append(s, e) \in Seq(S) /\ Len(s) \in Nat /\ Len(Append(s, e)) = Len(s) + 1
         /\ Append(s, e)[Len(s) + 1] = e
         /\ \A i \in 1..Len(s) : i \in 1..Len(Append(s, e)) /\ Append(s, e)[i] = s[i]
         /\ \A i \in 1..Len(Append(s, e)) : i \in 1..Len(s) \/ i = Len(s) + 1
  OBVIOUS

\* A word's size has a length.
LEMMA Sizes ==
  ASSUME NEW w \in Word
  PROVE  /\ w.size \in {0, 1, TypeSize, TagSize} \cup ParamSizes
         /\ w.size \in 0..(MaxLength - 1)
         /\ w.kind = ".tag" => w.tag \in Tags
<1>1. ParamSizes \subseteq 0..(MaxLength - 1) /\ 1 \in 0..(MaxLength - 1)
      /\ TypeSize \in 0..(MaxLength - 1) /\ TagSize \in 0..(MaxLength - 1)
  BY Limit, ApiReaderAssumption, SMT DEF TypeSize, TagSize
<1>2. CASE w \in [kind : Type, size : {TypeSize}]
  <2>1. w.kind # ".tag"
    BY <1>2 DEF Type
  <2>2. QED
    BY <1>1, <1>2, <2>1
<1>3. CASE w \in [kind : {"param"}, size : {0} \cup ParamSizes]
  <2>1. 0 \in 0..(MaxLength - 1)
    BY <1>1, Limit, SMT
  <2>2. QED
    BY <1>1, <1>3, <2>1
<1>4. CASE w \in [kind : {".tag"}, tag : Tags, size : {TagSize}]
  BY <1>1, <1>4
<1>5. QED
  BY <1>2, <1>3, <1>4 DEF Word

\* The tags of a sentence are tags of requests.
LEMMA SentenceTags ==
  ASSUME NEW words \in Sentence
  PROVE  TagsOf(words) \subseteq Tags
<1>1. \A i \in DOMAIN words : words[i] \in Word
  BY DEF Sentence
<1>2. QED
  BY <1>1, Sizes DEF TagsOf

\* The sentences of the router and their tags.
LEMMA Sentences ==
  /\ \A r \in Requests : AnswersTo(r) \subseteq Sentence
  /\ OddSentences \cup {BareSentence} \subseteq Sentence
<1>1. \A type \in Type : Typed(type) \in Word
  BY DEF Typed, Word
<1>2. \A size \in {0} \cup ParamSizes : Param(size) \in Word
  BY DEF Param, Word
<1>3. \A t \in Tags : TagWord(t) \in Word
  BY DEF TagWord, Word
<1>4. ASSUME NEW r \in Requests, NEW size \in ParamSizes
      PROVE  <<Typed("!done"), TagWord(Tag(r)), Param(size)>> \in Sentence
  <2>1. Typed("!done") \in Word /\ TagWord(Tag(r)) \in Word /\ Param(size) \in Word
    BY <1>1, <1>2, <1>3 DEF Type, Tags
  <2>2. QED
    BY <2>1 DEF Sentence
<1>5. /\ <<>> \in Sentence /\ <<Param(1)>> \in Sentence /\ BareSentence \in Sentence
      /\ \A type \in Type : <<Typed(type), Param(1)>> \in Sentence
  BY <1>1, <1>2, ApiReaderAssumption DEF Sentence, BareSentence, Type
<1>6. /\ \A t \in Tags : <<Typed("!done"), TagWord(t), TagWord(t)>> \in Sentence
      /\ <<Typed("!done"), Param(0)>> \in Sentence
  BY <1>1, <1>2, <1>3 DEF Sentence, Type
<1>7. QED
  BY <1>4, <1>5, <1>6 DEF AnswersTo, OddSentences, Type

-----------------------------------------------------------------------------
(* What stands where the reader is. *)

LEMMA SeqFacts ==
  ASSUME NEW S, NEW s \in Seq(S)
  PROVE  Len(s) \in Nat /\ \A i \in 1..Len(s) : s[i] \in S
  OBVIOUS

\* What the types say of the sequences.
LEMMA Elements ==
  ASSUME TypeOK
  PROVE  /\ Len(ready) \in Nat /\ Len(answers) \in Nat /\ Len(handled) \in Nat
         /\ sentence \in Seq(Word) /\ Len(sentence) \in Nat
         /\ \A i \in 1..Len(ready) : ready[i] \in Handler
         /\ \A i \in 1..Len(answers) :
              /\ answers[i].words \in Seq(Word) /\ Len(answers[i].words) \in Nat
              /\ answers[i].req \in 0..MaxRequests
         /\ \A i \in 1..Len(handled) :
              /\ handled[i].words \in Seq(Word)
              /\ handled[i].to \in 0..MaxRequests /\ handled[i].outcome \in Outcome
<1> DEFINE A == [words : Sentence, req : 0..MaxRequests]
           H == [words : Sentence, to : 0..MaxRequests, outcome : Outcome]
<1>1. ready \in Seq(Handler) /\ sentence \in Seq(Word) /\ answers \in Seq(A) /\ handled \in Seq(H)
  BY DEF TypeOK, Sentence
<1>2. \A a \in A : a.words \in Seq(Word) /\ a.req \in 0..MaxRequests
  BY DEF Sentence
<1>3. \A h \in H : h.words \in Seq(Word) /\ h.to \in 0..MaxRequests /\ h.outcome \in Outcome
  BY DEF Sentence
<1> HIDE DEF A, H
<1>4. /\ Len(ready) \in Nat /\ \A i \in 1..Len(ready) : ready[i] \in Handler
      /\ Len(answers) \in Nat /\ \A i \in 1..Len(answers) : answers[i] \in A
      /\ Len(handled) \in Nat /\ \A i \in 1..Len(handled) : handled[i] \in H
      /\ Len(sentence) \in Nat
  BY <1>1, SeqFacts
<1>5. \A i \in 1..Len(answers) : Len(answers[i].words) \in Nat
  BY <1>2, <1>4
<1>6. QED
  BY <1>1, <1>2, <1>3, <1>4, <1>5

\* The word that is read, and its length.
LEMMA TheWord ==
  ASSUME TypeOK, InWord
  PROVE  /\ WordAt(Here(1)) \in Word
         /\ WordAt(Here(1)).size \in 0..(MaxLength - 1)
         /\ WordAt(Here(1)).size \in {0, 1, TypeSize, TagSize} \cup ParamSizes
         /\ LengthHere = LengthOf(WordAt(Here(1)).size)
         /\ \A b : Here(b).sentence = Len(handled) + 1 /\ Here(b).word = Len(sentence) + 1
         /\ \A b : Here(b).byte = b /\ WordAt(Here(b)) = WordAt(Here(1)) /\ LengthAt(Here(b)) = LengthHere
         /\ \A b : ~AtEnd(Here(b))
         /\ Len(handled) \in Nat /\ Len(sentence) \in Nat
         /\ Len(LengthHere) \in 1..4 /\ LengthHere[1] \in Nat \ {0} /\ LengthHere[1] < 240
         /\ LengthHere[1] >= 128 => Len(LengthHere) \in 2..4
         /\ \A i \in 1..Len(LengthHere) : LengthHere[i] \in Octet
<1>1. /\ Len(handled) + 1 \in 1..Len(answers)
      /\ Len(sentence) + 1 \in 1..Len(answers[Len(handled) + 1].words)
      /\ Len(handled) \in Nat /\ Len(sentence) \in Nat
  BY Elements DEF InWord
<1>2. answers[Len(handled) + 1].words \in Seq(Word)
  BY <1>1, Elements
<1>3. WordAt(Here(1)) \in Word
  BY <1>1, <1>2 DEF WordAt, Here
<1>4. \A b : Here(b).sentence = Len(handled) + 1 /\ Here(b).word = Len(sentence) + 1 /\ Here(b).byte = b
  BY DEF Here
<1>5. \A b : ~AtEnd(Here(b))
  BY <1>1, <1>2, <1>4 DEF AtEnd
<1>6. WordAt(Here(1)).size \in 0..(MaxLength - 1)
  BY <1>3, Sizes
<1>7. LengthHere = LengthOf(WordAt(Here(1)).size)
  BY DEF LengthHere, LengthAt
<1>8. /\ Len(LengthHere) \in 1..4 /\ LengthHere[1] \in Nat \ {0} /\ LengthHere[1] < 240
      /\ LengthHere[1] >= 128 => Len(LengthHere) \in 2..4
      /\ \A i \in 1..Len(LengthHere) : LengthHere[i] \in Octet
  <2> DEFINE n == WordAt(Here(1)).size
  <2>1. n \in 0..(MaxLength - 1) /\ LengthHere = LengthOf(n)
    BY <1>6, <1>7
  <2> HIDE DEF n
  <2>2. /\ Len(LengthOf(n)) \in 1..4 /\ LengthOf(n)[1] \in Nat \ {0} /\ LengthOf(n)[1] < 240
        /\ LengthOf(n)[1] >= 128 => Len(LengthOf(n)) \in 2..4
        /\ \A i \in 1..Len(LengthOf(n)) : LengthOf(n)[i] \in Octet
    BY <2>1, Lengths, Zenon
  <2>3. QED
    BY <2>1, <2>2, Zenon
<1>9. \A b : WordAt(Here(b)) = WordAt(Here(1)) /\ LengthAt(Here(b)) = LengthHere
  BY <1>4 DEF WordAt, LengthAt, LengthHere
<1>10. QED
  BY <1>1, <1>3, <1>4, <1>5, <1>6, <1>7, <1>8, <1>9, Sizes

\* A read of a length's first byte gets it, or the end of the sentence.
LEMMA FirstRead ==
  ASSUME TypeOK, Len(handled) < Len(answers),
         Len(sentence) <= Len(answers[Len(handled) + 1].words)
  PROVE  \/ /\ InWord
            /\ ItemAt(Here(1)) = ByteItem(LengthHere[1]) /\ After(Here(1)) = Here(2)
         \/ /\ Len(sentence) = Len(answers[Len(handled) + 1].words)
            /\ ItemAt(Here(1)) = ByteItem(0) /\ After(Here(1)) = StartOf(Len(handled) + 2)
<1>1. CASE InWord
  <2>1. Len(LengthHere) \in 1..4 /\ Here(1).byte = 1 /\ LengthAt(Here(1)) = LengthHere
    BY <1>1, TheWord
  <2>2. ~AtEnd(Here(1)) /\ ~AtContents(Here(1))
    BY <1>1, <2>1, TheWord DEF AtContents
  <2>3. [Here(1) EXCEPT !.byte = @ + 1] = Here(2)
    BY DEF Here
  <2>4. QED
    BY <1>1, <2>1, <2>2, <2>3 DEF ItemAt, After
<1>2. CASE ~InWord
  <2>1. /\ Len(handled) \in Nat /\ Len(sentence) \in Nat /\ Len(handled) + 1 \in 1..Len(answers)
        /\ answers[Len(handled) + 1].words \in Seq(Word)
        /\ Len(answers[Len(handled) + 1].words) \in Nat
    BY Elements
  <2>2. Len(sentence) = Len(answers[Len(handled) + 1].words)
    BY <1>2, <2>1 DEF InWord
  <2>3. AtEnd(Here(1)) /\ Here(1).sentence + 1 = Len(handled) + 2
    BY <2>1, <2>2 DEF AtEnd, Here
  <2>4. QED
    BY <2>2, <2>3 DEF ItemAt, After
<1>3. QED
  BY <1>1, <1>2

LEMMA SecondRead ==
  ASSUME TypeOK, InWord, LengthHere[1] >= 128
  PROVE  /\ Len(LengthHere) >= 2
         /\ ItemAt(Here(2)) = ByteItem(LengthHere[2]) /\ After(Here(2)) = Here(3)
<1>1. Len(LengthHere) \in 2..4 /\ Here(2).byte = 2 /\ LengthAt(Here(2)) = LengthHere
  BY TheWord
<1>2. ~AtEnd(Here(2)) /\ ~AtContents(Here(2))
  <2>1. ~AtEnd(Here(2))
    BY TheWord
  <2>2. ~AtContents(Here(2))
    <3>1. Len(LengthHere) \in Int /\ ~(2 > Len(LengthHere))
      BY <1>1
    <3>2. Here(2).byte > Len(LengthAt(Here(2))) => 2 > Len(LengthHere)
      BY <1>1, Zenon
    <3>3. QED
      BY <3>1, <3>2, Zenon DEF AtContents
  <2>3. QED
    BY <2>1, <2>2
<1>3. [Here(2) EXCEPT !.byte = @ + 1] = Here(3)
  BY DEF Here
<1>4. QED
  BY <1>1, <1>2, <1>3 DEF ItemAt, After

LEMMA LastRead ==
  ASSUME TypeOK, InWord
  PROVE  LET p == Here(Len(LengthHere) + 1)
         IN  /\ ItemAt(p) = WordItem(WordAt(Here(1)))
             /\ After(p) = [sentence |-> Len(handled) + 1, word |-> Len(sentence) + 2, byte |-> 1]
<1> DEFINE p == Here(Len(LengthHere) + 1)
<1>1. /\ Len(LengthHere) \in 1..4 /\ p.byte = Len(LengthHere) + 1
      /\ LengthAt(p) = LengthHere /\ WordAt(p) = WordAt(Here(1))
  BY TheWord
<1>2. ~AtEnd(p) /\ AtContents(p)
  BY <1>1, TheWord DEF AtContents
<1>3. [sentence |-> p.sentence, word |-> p.word + 1, byte |-> 1]
        = [sentence |-> Len(handled) + 1, word |-> Len(sentence) + 2, byte |-> 1]
  <2>1. Len(sentence) \in Nat /\ (Len(sentence) + 1) + 1 = Len(sentence) + 2
    BY TheWord
  <2>2. p.word = Len(sentence) + 1 /\ p.sentence = Len(handled) + 1
    BY DEF Here
  <2>3. QED
    BY <2>1, <2>2
<1>4. QED
  BY <1>1, <1>2, <1>3 DEF ItemAt, After

-----------------------------------------------------------------------------
(* What a completed read has brought. *)

GotEnd(h) ==
  /\ state = "reading_length" /\ h.read = ReadNext(1)
  /\ Len(handled) < Len(answers)
  /\ sentence = answers[Len(handled) + 1].words
  /\ h.item = ByteItem(0) /\ next = StartOf(Len(handled) + 2)

GotFirst(h) ==
  /\ state = "reading_length" /\ h.read = ReadNext(1)
  /\ InWord
  /\ h.item = ByteItem(LengthHere[1]) /\ next = Here(2)

GotSecond(h) ==
  /\ state = "reading_length" /\ h.read = ReadMore(LengthHere[1])
  /\ InWord /\ LengthHere[1] >= 128
  /\ h.item = ByteItem(LengthHere[2]) /\ next = Here(3)

GotWord(h) ==
  /\ state = "reading_word" /\ h.read = ReadNext(WordAt(Here(1)).size)
  /\ InWord
  /\ h.item = WordItem(WordAt(Here(1)))
  /\ next = [sentence |-> Len(handled) + 1, word |-> Len(sentence) + 2, byte |-> 1]

\* As far as the sentence that is next has been read, it is the router's.
LEMMA Room ==
  ASSUME IInv, Live, Len(handled) < Len(answers)
  PROVE  /\ Len(sentence) <= Len(answers[Len(handled) + 1].words)
         /\ Len(sentence) = Len(answers[Len(handled) + 1].words)
              => sentence = answers[Len(handled) + 1].words
<1> DEFINE words == answers[Len(handled) + 1].words
<1>1. /\ words \in Seq(Word) /\ Len(words) \in Nat
      /\ sentence \in Seq(Word) /\ Len(sentence) \in Nat
  BY Elements DEF IInv
<1>2. CASE sentence = <<>>
  <2>1. Len(sentence) = 0
    BY <1>2
  <2>2. Len(words) = 0 => words = <<>>
    BY <1>1
  <2>3. QED
    BY <1>1, <1>2, <2>1, <2>2
<1>3. CASE sentence # <<>>
  <2>1. Len(sentence) <= Len(words) /\ \A i \in 1..Len(sentence) : sentence[i] = words[i]
    BY <1>3 DEF IInv, Partial
  <2>2. Len(sentence) = Len(words) => sentence = words
    BY <1>1, <2>1
  <2>3. QED
    BY <2>1, <2>2
<1>4. QED
  BY <1>2, <1>3

LEMMA Brought ==
  ASSUME IInv, Live, NEW i \in 1..Len(ready), IsRead(ready[i]), ready[i].ok
  PROVE  \/ GotReserved(ready[i])
         \/ /\ SentAfter(i)
            /\ \/ GotEnd(ready[i]) \/ GotFirst(ready[i])
               \/ GotSecond(ready[i]) \/ GotWord(ready[i])
<1> DEFINE h == ready[i]
<1>1. TypeOK
  BY DEF IInv
<1>2. CASE GotReserved(h)
  BY <1>2
<1>3. CASE ~GotReserved(h)
  <2>1. PICK b \in 1..5 : Got(h, Here(b)) /\ SentAfter(i)
    BY <1>3 DEF IInv, Aligned
  <2>2. Len(handled) < Len(answers)
    BY <1>1, <2>1, Elements DEF Got, Here
  <2>3. /\ ReadsAt(h.read, Here(b)) /\ h.item = ItemAt(Here(b)) /\ next = After(Here(b))
    BY <2>1 DEF Got
  <2>4. CASE state = "reading_length" /\ h.read = ReadNext(1) /\ Here(b) = Here(1)
    <3>1. GotEnd(h) \/ GotFirst(h)
      BY <1>1, <2>2, <2>3, <2>4, Room, FirstRead DEF GotEnd, GotFirst
    <3>2. QED
      BY <2>1, <3>1
  <2>5. CASE /\ state = "reading_length" /\ InWord /\ LengthHere[1] >= 128
             /\ h.read = ReadMore(LengthHere[1]) /\ Here(b) = Here(2)
    <3>1. GotSecond(h)
      BY <1>1, <2>3, <2>5, SecondRead DEF GotSecond
    <3>2. QED
      BY <2>1, <3>1
  <2>6. CASE /\ state = "reading_word" /\ InWord /\ h.read = ReadNext(WordAt(Here(1)).size)
             /\ Here(b) = Here(Len(LengthHere) + 1)
    <3>1. GotWord(h)
      BY <1>1, <2>3, <2>6, LastRead DEF GotWord
    <3>2. QED
      BY <2>1, <3>1
  <2>7. QED
    BY <2>3, <2>4, <2>5, <2>6 DEF ReadsAt
<1>4. QED
  BY <1>2, <1>3

\* What the handlers of a read find, the first in the queue.
LEMMA Found ==
  ASSUME IInv, RunHandler
  PROVE  /\ ReadLength /\ FByte = 0 => GotEnd(Head(ready)) /\ SentAfter(1)
         /\ ReadLength /\ 0 < FByte /\ FByte <= 240 =>
              GotFirst(Head(ready)) /\ FByte = LengthHere[1] /\ SentAfter(1)
         /\ ReadLength /\ 240 < FByte => faults # {}
         /\ ReadOk("more") => GotSecond(Head(ready)) /\ SentAfter(1)
         /\ ReadOk("read") /\ state = "reading_word" => GotWord(Head(ready)) /\ SentAfter(1)
<1> DEFINE h == Head(ready)
<1>1. SUFFICES ASSUME \E kind : ReadOk(kind)
               PROVE  /\ ReadLength /\ FByte = 0 => GotEnd(h) /\ SentAfter(1)
                      /\ ReadLength /\ 0 < FByte /\ FByte <= 240 =>
                           GotFirst(h) /\ FByte = LengthHere[1] /\ SentAfter(1)
                      /\ ReadLength /\ 240 < FByte => faults # {}
                      /\ ReadOk("more") => GotSecond(h) /\ SentAfter(1)
                      /\ ReadOk("read") /\ state = "reading_word" => GotWord(h) /\ SentAfter(1)
  BY DEF ReadLength
<1>2. TypeOK /\ ready \in Seq(Handler) /\ ready # <<>> /\ Live
  BY <1>1 DEF IInv, TypeOK, RunHandler, ReadOk, Running, Live
<1>3. 1 \in 1..Len(ready) /\ h = ready[1]
  BY <1>2, TailFacts
<1>4. IsRead(h) /\ h.ok
  BY <1>1 DEF ReadOk, Running, IsRead
<1>5. \/ GotReserved(h)
      \/ SentAfter(1) /\ (GotEnd(h) \/ GotFirst(h) \/ GotSecond(h) \/ GotWord(h))
  BY <1>2, <1>3, <1>4, Brought
<1> HIDE DEF h
<1>6. CASE GotReserved(h)
  <2>1. /\ h.read.kind = "read" /\ state = "reading_length" /\ h.item.byte = 248 /\ faults # {}
    BY <1>6 DEF GotReserved, ReadNext, ByteItem
  <2>2. QED
    BY <2>1 DEF h, ReadOk, FByte
<1>7. CASE GotEnd(h) /\ SentAfter(1)
  <2>1. /\ h.read.kind = "read" /\ state = "reading_length" /\ h.item.byte = 0
    BY <1>7 DEF GotEnd, ReadNext, ByteItem
  <2>2. QED
    BY <1>7, <2>1 DEF h, ReadOk, FByte
<1>8. CASE GotFirst(h) /\ SentAfter(1)
  <2>1. /\ h.read.kind = "read" /\ state = "reading_length" /\ h.item.byte = LengthHere[1]
        /\ LengthHere[1] \in Nat \ {0} /\ LengthHere[1] < 240
    BY <1>2, <1>8, TheWord DEF GotFirst, ReadNext, ByteItem
  <2>2. QED
    BY <1>8, <2>1 DEF h, ReadOk, FByte
<1>9. CASE GotSecond(h) /\ SentAfter(1)
  <2>1. h.read.kind = "more" /\ state = "reading_length"
    BY <1>9 DEF GotSecond, ReadMore
  <2>2. QED
    BY <1>9, <2>1 DEF h, ReadOk, ReadLength
<1>10. CASE GotWord(h) /\ SentAfter(1)
  <2>1. h.read.kind = "read" /\ state = "reading_word"
    BY <1>10 DEF GotWord, ReadNext
  <2>2. QED
    BY <1>10, <2>1 DEF h, ReadOk, ReadLength
<1>11. QED
  BY <1>5, <1>6, <1>7, <1>8, <1>9, <1>10

-----------------------------------------------------------------------------
(* Types. *)

\* Every handler takes itself from the queue and leaves the router alone.
LEMMA Handling ==
  ASSUME RunHandler
  PROVE  /\ ready # <<>> /\ ready' = Tail(ready)
         /\ requests' = requests /\ faults' = faults /\ ~aborted
         /\ answers' = answers /\ reserved' = reserved /\ next' = next
  BY DEF RunHandler, EndSentence, ShortLength, LongLength, ReservedLength, RestOfLength,
         ReadWord, FailAssertion, ReadError, ReadAfterClose, Sent, ReadLength, ReadOk, Running, stream

\* What a sentence does to the callbacks and the connection.
LEMMA Responding ==
  ASSUME TypeOK, Call \/ Refuse \/ Ignore
  PROVE  /\ callbacks' \in [Tags -> 0..MaxRequests]
         /\ socket' \in BOOLEAN
         /\ handled' \in Seq([words : Sentence, to : 0..MaxRequests, outcome : Outcome])
<1> DEFINE H == [words : Sentence, to : 0..MaxRequests, outcome : Outcome]
<1>1. /\ callbacks \in [Tags -> 0..MaxRequests] /\ socket \in BOOLEAN /\ handled \in Seq(H)
      /\ sentence \in Sentence /\ 0 \in 0..MaxRequests
  BY ApiReaderAssumption DEF TypeOK
<1>2. ASSUME NEW to \in 0..MaxRequests, NEW outcome \in Outcome, Record(to, outcome)
      PROVE  handled' \in Seq(H)
  <2>1. [words |-> sentence, to |-> to, outcome |-> outcome] \in H
    BY <1>1
  <2> HIDE DEF H
  <2>2. QED
    BY <1>1, <1>2, <2>1 DEF Record
<1>3. CASE Call
  <2>1. PICK t \in TagsOf(sentence), outcome \in {"kept", "dropped", "closing"} :
          /\ Record(callbacks[t], outcome) /\ callbacks' = AfterCall(t, outcome)
          /\ socket' = (outcome # "closing")
    BY <1>3 DEF Call
  <2>2. t \in Tags
    BY <1>1, SentenceTags
  <2>3. callbacks' \in [Tags -> 0..MaxRequests]
    BY <1>1, <2>1, <2>2 DEF AfterCall
  <2>4. QED
    BY <1>1, <1>2, <2>1, <2>2, <2>3 DEF Outcome
<1>4. CASE Refuse
  BY <1>1, <1>2, <1>4 DEF Refuse, Outcome
<1>5. CASE Ignore
  BY <1>1, <1>2, <1>5 DEF Ignore, Outcome
<1>6. QED
  BY <1>3, <1>4, <1>5

LEMMA Starts ==
  /\ \A n \in Nat \ {0} : StartOf(n) \in Place
  /\ ByteItem(248) \in Item /\ ByteItem(0) \in Item /\ NoRead \in Read /\ ReadNext(1) \in Read
  /\ NoRead # ReadNext(1)
<1>1. 248 \in Octet /\ 0 \in Octet
  BY DEF Octet
<1>2. QED
  BY <1>1 DEF StartOf, Place, ByteItem, Item, NoRead, Read, ReadNext

\* What a read that suits its place gets.
LEMMA Items ==
  ASSUME IInv, Live, ReadsAt(pending, next), next.sentence <= Len(answers)
  PROVE  /\ ItemAt(next) \in Item /\ ItemAt(next).size = pending.size
         /\ After(next) \in Place
<1>1. TypeOK
  BY DEF IInv
<1>2. CASE state = "reading_length" /\ pending = ReadNext(1) /\ next = Here(1)
  <2>1. Len(handled) < Len(answers)
    BY <1>1, <1>2, Elements DEF Here
  <2>2. \/ ItemAt(next) = ByteItem(0) /\ After(next) = StartOf(Len(handled) + 2)
        \/ InWord /\ ItemAt(next) = ByteItem(LengthHere[1]) /\ After(next) = Here(2)
    BY <1>1, <1>2, <2>1, Room, FirstRead
  <2>3. CASE ItemAt(next) = ByteItem(0) /\ After(next) = StartOf(Len(handled) + 2)
    <3>1. Len(handled) + 2 \in Nat \ {0}
      BY <1>1, Elements
    <3>2. QED
      BY <1>2, <2>3, <3>1, Starts DEF ByteItem, ReadNext
  <2>4. CASE InWord /\ ItemAt(next) = ByteItem(LengthHere[1]) /\ After(next) = Here(2)
    <3>1. LengthHere[1] \in Octet /\ Len(handled) \in Nat /\ Len(sentence) \in Nat
      <4>1. 1 \in 1..Len(LengthHere)
        BY <1>1, <2>4, TheWord
      <4>2. QED
        BY <1>1, <2>4, <4>1, TheWord
    <3>2. QED
      BY <1>2, <2>4, <3>1 DEF ByteItem, ReadNext, Item, Here, Place
  <2>5. QED
    BY <2>2, <2>3, <2>4
<1>3. CASE /\ state = "reading_length" /\ InWord /\ LengthHere[1] >= 128
           /\ pending = ReadMore(LengthHere[1]) /\ next = Here(2)
  <2>1. ItemAt(next) = ByteItem(LengthHere[2]) /\ After(next) = Here(3) /\ Len(LengthHere) >= 2
    BY <1>1, <1>3, SecondRead
  <2>2. /\ 2 \in 1..Len(LengthHere)
        /\ Len(handled) \in Nat /\ Len(sentence) \in Nat
    <3>1. Len(LengthHere) \in 2..4 /\ Len(handled) \in Nat /\ Len(sentence) \in Nat
      BY <1>1, <1>3, TheWord
    <3> DEFINE n == Len(LengthHere)
    <3>2. n \in 2..4
      BY <3>1
    <3> HIDE DEF n
    <3>3. 2 \in 1..n
      BY <3>2, SMT
    <3>4. QED
      BY <3>1, <3>3 DEF n
  <2>3. LengthHere[2] \in Octet
    BY <1>1, <1>3, <2>2, TheWord
  <2>4. pending.size = 1
    BY <1>1, <1>3, TheWord DEF ReadMore, MoreBytes, BufferSize
  <2>5. QED
    BY <2>1, <2>2, <2>3, <2>4 DEF ByteItem, Item, Here, Place
<1>4. CASE /\ state = "reading_word" /\ InWord
           /\ pending = ReadNext(WordAt(Here(1)).size)
           /\ next = Here(Len(LengthHere) + 1)
  <2>1. /\ ItemAt(next) = WordItem(WordAt(Here(1)))
        /\ After(next) = [sentence |-> Len(handled) + 1, word |-> Len(sentence) + 2, byte |-> 1]
    BY <1>1, <1>4, LastRead
  <2>2. /\ WordAt(Here(1)) \in Word
        /\ WordAt(Here(1)).size \in {0, 1, TypeSize, TagSize} \cup ParamSizes
        /\ Len(handled) \in Nat /\ Len(sentence) \in Nat
    BY <1>1, <1>4, TheWord
  <2>3. WordItem(WordAt(Here(1))) \in Item
    BY <2>2 DEF WordItem, Item
  <2>4. QED
    BY <1>4, <2>1, <2>2, <2>3 DEF WordItem, ReadNext, Place
<1>5. QED
  BY <1>2, <1>3, <1>4 DEF ReadsAt

\* How a length that has been read goes on.
LEMMA ShortIs ==
  ASSUME TypeOK, InWord, LengthHere[1] < 128
  PROVE  LengthHere[1] = WordAt(Here(1)).size /\ Len(LengthHere) = 1
<1> DEFINE n == WordAt(Here(1)).size
<1>1. n \in 0..(MaxLength - 1) /\ LengthHere = LengthOf(n)
  BY TheWord
<1> HIDE DEF n
<1>2. LengthOf(n)[1] < 128 => LengthOf(n) = <<n>>
  BY <1>1, Lengths, Zenon
<1>3. LengthHere = <<n>>
  BY <1>1, <1>2, Zenon
<1>4. QED
  BY <1>3 DEF n

LEMMA LongIs ==
  ASSUME TypeOK, InWord, LengthHere[1] >= 128
  PROVE  /\ ReadMore(LengthHere[1]) \in Read /\ ReadMore(LengthHere[1]) # NoRead
         /\ ReadMore(LengthHere[1]).size = ReadMore(LengthHere[1]).more =>
              /\ Len(LengthHere) = 2
              /\ WordLen(ReadMore(LengthHere[1]).low, <<LengthHere[2]>>) = WordAt(Here(1)).size
<1> DEFINE n == WordAt(Here(1)).size
           b == LengthHere[1]
<1>1. n \in 0..(MaxLength - 1) /\ LengthHere = LengthOf(n)
  BY TheWord
<1>2. b \in Nat /\ b < 240 /\ b >= 128
  BY TheWord
<1> HIDE DEF n
<1>3. /\ Len(LengthOf(n)) = MoreBytes(LengthOf(n)[1]) + 1
      /\ Len(LengthOf(n)) = 2 =>
           WordLen(LowBits(LengthOf(n)[1]), <<LengthOf(n)[2]>>) = n
  BY <1>1, Lengths, Zenon
<1>4. /\ Len(LengthHere) = MoreBytes(b) + 1
      /\ Len(LengthHere) = 2 => WordLen(LowBits(b), <<LengthHere[2]>>) = n
  BY <1>1, <1>3, Zenon
<1> HIDE DEF b
<1>5. MoreBytes(b) \in 1..4 /\ LowBits(b) \in Octet
  BY <1>2, SMT DEF MoreBytes, LowBits, Octet
<1>6. ReadMore(b) = [kind |-> "more", low |-> LowBits(b), more |-> MoreBytes(b), size |-> 1]
  BY <1>5 DEF ReadMore, BufferSize
<1>7. ReadMore(b) \in Read /\ ReadMore(b) # NoRead
  BY <1>5, <1>6 DEF Read, NoRead, BufferSize
<1>8. ReadMore(b).size = ReadMore(b).more => MoreBytes(b) = 1
  BY <1>6
<1>9. QED
  BY <1>4, <1>6, <1>7, <1>8 DEF b, n

\* A read that has come is the only one.
LEMMA Taken ==
  ASSUME IInv, Running("read")
  PROVE  pending = NoRead /\ \A i \in 1..Len(Tail(ready)) : ~IsRead(Tail(ready)[i])
<1>1. ready \in Seq(Handler) /\ ready # <<>>
  BY DEF IInv, TypeOK, Running
<1>2. /\ 1 \in 1..Len(ready) /\ IsRead(ready[1])
      /\ \A i \in 1..Len(Tail(ready)) : i + 1 \in 1..Len(ready) /\ Tail(ready)[i] = ready[i + 1]
                                       /\ i + 1 # 1
  BY <1>1, TailFacts DEF Running, IsRead
<1>3. QED
  BY <1>2 DEF IInv, Reads

-----------------------------------------------------------------------------
(* What a step leaves alone. *)

LEMMA Frame ==
  ASSUME Next
  PROVE  /\ ~aborted
         /\ faults \subseteq faults'
         /\ ~RouterAnswers => answers' = answers
         /\ ~Transmit => requests' = requests
         /\ ~EndSentence => handled' = handled
         /\ ~EndSentence /\ ~Sent => callbacks' = callbacks
         /\ ~EndSentence /\ ~ReadWord => sentence' = sentence
<1>1. CASE RunHandler
  BY <1>1, Handling
     DEF RunHandler, EndSentence, ShortLength, LongLength, ReservedLength, RestOfLength,
         ReadWord, FailAssertion, ReadError, ReadAfterClose, Sent
<1>2. CASE Environment
  BY <1>2 DEF Environment, Transmit, RouterAnswers, RouterSends, RouterReserved,
              ReadCompletes, ReadFails, CloseApi, stream
<1>3. QED
  BY <1>1, <1>2 DEF Next

\* What a step does to the queue, the router's sentences and its requests.
LEMMA Queue ==
  ASSUME Next
  PROVE  \/ RunHandler
         \/ Transmit
         \/ ready' = ready /\ requests' = requests
         \/ /\ requests' = requests
            /\ \E h : IsRead(h) /\ ready' = Append(ready, h)
<1>1. CASE RouterAnswers \/ RouterReserved
  BY <1>1 DEF RouterAnswers, RouterSends, RouterReserved
<1>2. IsRead(FailedRead)
  BY DEF IsRead, FailedRead
<1>3. CASE ReadCompletes
  <2>1. ASSUME NEW item, Complete(item)
        PROVE  \E h : IsRead(h) /\ ready' = Append(ready, h)
    BY <2>1 DEF Complete, IsRead
  <2>2. QED
    BY <1>3, <2>1 DEF ReadCompletes
<1>4. CASE ReadFails
  BY <1>2, <1>4 DEF ReadFails
<1>5. CASE CloseApi
  BY <1>2, <1>5 DEF CloseApi
<1>6. QED
  BY <1>1, <1>3, <1>4, <1>5 DEF Next, Environment

\* Only the router adds to its sentences, one of its own at the end.
LEMMA Sending ==
  ASSUME TypeOK, Next
  PROVE  /\ answers' \in Seq([words : Sentence, req : 0..MaxRequests])
         /\ Len(answers') \in Nat /\ Len(answers) <= Len(answers')
         /\ \A i \in 1..Len(answers) : i \in 1..Len(answers') /\ answers'[i] = answers[i]
         /\ \A i \in 1..Len(answers') : i \in 1..Len(answers) \/
              \/ answers'[i].req = 0 /\ answers'[i].words \in OddSentences \cup {BareSentence}
              \/ /\ answers'[i].req \in 1..requests
                 /\ answers'[i].words \in AnswersTo(answers'[i].req)
<1> DEFINE A == [words : Sentence, req : 0..MaxRequests]
<1>1. answers \in Seq(A) /\ Len(answers) \in Nat
  BY Elements DEF TypeOK
<1>2. CASE ~RouterAnswers
  BY <1>1, <1>2, Frame
<1>3. CASE RouterAnswers
  <2>1. PICK words, r :
          /\ RouterSends(words, r)
          /\ \/ r \in 1..requests /\ words \in AnswersTo(r)
             \/ r = 0 /\ words \in OddSentences \cup {BareSentence}
    BY <1>3 DEF RouterAnswers
  <2> DEFINE a == [words |-> words, req |-> r]
  <2>2. requests \in 0..MaxRequests /\ MaxRequests \in Nat
    BY ApiReaderAssumption DEF TypeOK
  <2>3. r \in 0..MaxRequests /\ (r # 0 => r \in Requests)
    BY <2>1, <2>2 DEF Requests
  <2>4. words \in Sentence
    BY <2>1, <2>2, <2>3, Sentences
  <2>5. a \in A /\ a.words = words /\ a.req = r
    BY <2>3, <2>4
  <2>6. answers' = Append(answers, a)
    BY <2>1 DEF RouterSends
  <2> HIDE DEF a, A
  <2>7. /\ answers' \in Seq(A) /\ Len(answers') = Len(answers) + 1
        /\ answers'[Len(answers) + 1] = a
        /\ \A i \in 1..Len(answers) : i \in 1..Len(answers') /\ answers'[i] = answers[i]
        /\ \A i \in 1..Len(answers') : i \in 1..Len(answers) \/ i = Len(answers) + 1
    BY <1>1, <2>5, <2>6, AppendFacts
  <2>8. \A i \in 1..Len(answers') : i \in 1..Len(answers) \/ answers'[i] = a
    BY <2>7
  <2>9. QED
    BY <1>1, <2>1, <2>5, <2>7, <2>8 DEF A
<1>4. QED
  BY <1>2, <1>3

-----------------------------------------------------------------------------
(* Types. *)

LEMMA AByte ==
  ASSUME TypeOK, ReadLength
  PROVE  FByte \in 0..255
<1>1. Head(ready) \in Handler
  BY TailFacts DEF TypeOK, ReadLength, ReadOk, Running
<1>2. Head(ready).kind = "read" /\ Head(ready).item.kind = "byte"
  BY DEF ReadLength, ReadOk, Running
<1>3. Head(ready).item \in Item
  BY <1>1, <1>2 DEF Handler
<1>4. Head(ready).item.byte \in Octet
  BY <1>2, <1>3 DEF Item
<1>5. QED
  BY <1>4 DEF FByte, Octet

\* What a completed read of what the reader wants asks for next.
LEMMA NextReads ==
  ASSUME IInv, RunHandler
  PROVE  /\ ShortLength => /\ GotFirst(Head(ready)) /\ SentAfter(1)
                           /\ Len(LengthHere) = 1
                           /\ pending' = ReadNext(WordAt(Here(1)).size)
         /\ LongLength => /\ GotFirst(Head(ready)) /\ SentAfter(1)
                          /\ LengthHere[1] >= 128
                          /\ pending' = ReadMore(LengthHere[1])
         /\ RestOfLength /\ ~aborted' =>
              /\ GotSecond(Head(ready)) /\ SentAfter(1)
              /\ Len(LengthHere) = 2
              /\ state' = "reading_word"
              /\ pending' = ReadNext(WordAt(Here(1)).size)
<1>1. TypeOK
  BY DEF IInv
<1>2. ASSUME ShortLength
      PROVE  /\ GotFirst(Head(ready)) /\ SentAfter(1)
             /\ Len(LengthHere) = 1
             /\ pending' = ReadNext(WordAt(Here(1)).size)
  <2>1. ReadLength /\ 0 < FByte /\ FByte < 128 /\ pending' = ReadNext(FByte)
    BY <1>2 DEF ShortLength
  <2>2. FByte <= 240
    BY <1>1, <2>1, AByte
  <2>3. GotFirst(Head(ready)) /\ FByte = LengthHere[1] /\ SentAfter(1)
    BY <2>1, <2>2, Found
  <2>4. InWord /\ LengthHere[1] < 128
    BY <2>1, <2>3 DEF GotFirst
  <2>5. QED
    BY <1>1, <2>1, <2>3, <2>4, ShortIs
<1>3. ASSUME LongLength
      PROVE  /\ GotFirst(Head(ready)) /\ SentAfter(1)
             /\ LengthHere[1] >= 128
             /\ pending' = ReadMore(LengthHere[1])
  <2>1. ReadLength /\ 128 <= FByte /\ FByte <= 240 /\ pending' = ReadMore(FByte)
    BY <1>3 DEF LongLength
  <2>2. 0 < FByte /\ FByte >= 128
    BY <1>1, <2>1, AByte
  <2>3. GotFirst(Head(ready)) /\ FByte = LengthHere[1] /\ SentAfter(1)
    BY <2>1, <2>2, Found
  <2>4. QED
    BY <2>1, <2>2, <2>3
<1>4. ASSUME RestOfLength, ~aborted'
      PROVE  /\ GotSecond(Head(ready)) /\ SentAfter(1)
             /\ Len(LengthHere) = 2
             /\ state' = "reading_word"
             /\ pending' = ReadNext(WordAt(Here(1)).size)
  <2> DEFINE h == Head(ready)
  <2>1. /\ ReadOk("more") /\ h.read.size = h.read.more /\ state' = "reading_word"
        /\ pending' = ReadNext(WordLen(h.read.low, <<h.item.byte>>))
    BY <1>4 DEF RestOfLength
  <2>2. GotSecond(h) /\ SentAfter(1)
    BY <2>1, Found
  <2> HIDE DEF h
  <2>3. /\ InWord /\ LengthHere[1] >= 128 /\ h.read = ReadMore(LengthHere[1])
        /\ h.item.byte = LengthHere[2]
    BY <2>2 DEF GotSecond, ByteItem
  <2>4. Len(LengthHere) = 2 /\ WordLen(h.read.low, <<h.item.byte>>) = WordAt(Here(1)).size
    BY <1>1, <2>1, <2>3, LongIs
  <2>5. QED
    BY <2>1, <2>2, <2>4 DEF h
<1>5. QED
  BY <1>2, <1>3, <1>4

\* A read for the bytes of a length or for a word is one that the types know.
LEMMA ReadTypes ==
  ASSUME TypeOK, InWord
  PROVE  ReadNext(WordAt(Here(1)).size) \in Read /\ ReadNext(WordAt(Here(1)).size) # NoRead
<1>1. WordAt(Here(1)).size \in {0, 1, TypeSize, TagSize} \cup ParamSizes
  BY TheWord
<1>2. QED
  BY <1>1 DEF ReadNext, Read, NoRead

LEMMA ReadHandlerTypes ==
  ASSUME IInv, RunHandler
  PROVE  /\ state' \in State /\ pending' \in Read /\ sentence' \in Sentence
         /\ callbacks' \in [Tags -> 0..MaxRequests]
         /\ socket' \in BOOLEAN
         /\ handled' \in Seq([words : Sentence, to : 0..MaxRequests, outcome : Outcome])
         /\ aborted' \in BOOLEAN
<1>1. /\ TypeOK /\ state \in State /\ pending \in Read /\ sentence \in Sentence
      /\ callbacks \in [Tags -> 0..MaxRequests] /\ socket \in BOOLEAN
      /\ handled \in Seq([words : Sentence, to : 0..MaxRequests, outcome : Outcome])
      /\ aborted \in BOOLEAN /\ requests \in 0..MaxRequests
  BY DEF IInv, TypeOK
<1>2. CASE EndSentence
  <2>1. /\ Call \/ Refuse \/ Ignore
        /\ sentence' = <<>> /\ aborted' = aborted
        /\ state' \in {"reading_length", "idle"} /\ pending' \in {ReadNext(1), NoRead}
    BY <1>2 DEF EndSentence, NextSentence, ReadNextWord
  <2>2. <<>> \in Sentence
    BY DEF Sentence
  <2>3. QED
    BY <1>1, <2>1, <2>2, Responding, Starts DEF State
<1>3. CASE ShortLength
  <2>1. InWord /\ pending' = ReadNext(WordAt(Here(1)).size)
    BY <1>3, NextReads DEF GotFirst
  <2>2. QED
    BY <1>1, <1>3, <2>1, ReadTypes DEF ShortLength, State
<1>4. CASE LongLength
  <2>1. InWord /\ LengthHere[1] >= 128 /\ pending' = ReadMore(LengthHere[1])
    BY <1>4, NextReads DEF GotFirst
  <2>2. QED
    BY <1>1, <1>4, <2>1, LongIs DEF LongLength
<1>5. CASE ReservedLength \/ ReadError
  BY <1>1, <1>5, Starts DEF ReservedLength, ReadError, OnError, State
<1>6. CASE RestOfLength
  <2>1. CASE aborted'
    <3>1. UNCHANGED <<state, pending>>
      BY <1>6, <2>1 DEF RestOfLength, RunHandler
    <3>2. QED
      BY <1>1, <1>6, <2>1, <3>1 DEF RestOfLength
  <2>2. CASE ~aborted'
    <3>1. InWord /\ state' = "reading_word" /\ pending' = ReadNext(WordAt(Here(1)).size)
      BY <1>6, <2>2, NextReads DEF GotSecond
    <3>2. aborted' = aborted
      BY <1>6, <2>2 DEF RestOfLength
    <3>3. QED
      BY <1>1, <1>6, <3>1, <3>2, ReadTypes DEF RestOfLength, State
  <2>3. QED
    BY <2>1, <2>2
<1>7. CASE ReadWord
  <2>1. GotWord(Head(ready))
    BY <1>7, Found DEF ReadWord
  <2>2. Head(ready).item.word \in Word
    BY <1>1, <2>1, TheWord DEF GotWord, WordItem
  <2>3. sentence' \in Sentence
    BY <1>1, <1>7, <2>2, AppendFacts DEF ReadWord, Sentence
  <2>4. QED
    BY <1>1, <1>7, <2>3, Starts DEF ReadWord, ReadNextWord, State
<1>8. CASE ReadAfterClose
  BY <1>1, <1>8 DEF ReadAfterClose
<1>9. CASE Sent
  <2>1. callbacks' \in [Tags -> 0..MaxRequests]
    <3>1. Head(ready) \in Handler
      BY <1>1, <1>9, TailFacts DEF TypeOK, Sent, Running
    <3>2. Head(ready).req \in Requests
      BY <1>9, <3>1 DEF Sent, Running, Handler
    <3>3. Head(ready).req \in 0..MaxRequests
      BY <3>2, ApiReaderAssumption DEF Requests
    <3>4. QED
      BY <1>1, <1>9, <3>3 DEF Sent, Register
  <2>2. QED
    BY <1>1, <1>9, <2>1 DEF Sent
<1>10. CASE FailAssertion
  BY <1>1, <1>10 DEF FailAssertion
<1>11. QED
  BY <1>2, <1>3, <1>4, <1>5, <1>6, <1>7, <1>8, <1>9, <1>10 DEF RunHandler

LEMMA EnvironmentTypes ==
  ASSUME IInv, Environment
  PROVE  /\ ready' \in Seq(Handler) /\ state' \in State /\ socket' \in BOOLEAN
         /\ pending' \in Read /\ requests' \in 0..MaxRequests
         /\ reserved' \in Nat /\ next' \in Place
         /\ faults' \subseteq {"cut", "reserved", "closed"}
         /\ UNCHANGED <<sentence, callbacks, handled, aborted>>
<1>1. /\ TypeOK /\ ready \in Seq(Handler) /\ state \in State /\ pending \in Read
      /\ socket \in BOOLEAN /\ requests \in 0..MaxRequests /\ MaxRequests \in Nat
      /\ reserved \in Nat /\ next \in Place /\ Len(answers) \in Nat
      /\ faults \subseteq {"cut", "reserved", "closed"}
  BY Elements, ApiReaderAssumption DEF IInv, TypeOK
<1>2. ASSUME pending # NoRead
      PROVE  /\ FailedRead \in Handler
             /\ \A item \in Item :
                  [kind |-> "read", read |-> pending, ok |-> TRUE, item |-> item] \in Handler
  BY <1>1, <1>2, Starts DEF FailedRead, Handler
<1>3. CASE Transmit
  <2>1. requests + 1 \in Requests /\ requests + 1 \in 0..MaxRequests
    BY <1>1, <1>3 DEF Transmit, Requests
  <2>2. [kind |-> "sent", req |-> requests + 1] \in Handler
    BY <2>1 DEF Handler
  <2>3. QED
    BY <1>1, <1>3, <2>1, <2>2, AppendFacts DEF Transmit, stream
<1>4. CASE RouterAnswers
  BY <1>1, <1>4 DEF RouterAnswers, RouterSends
<1>5. CASE RouterReserved
  BY <1>1, <1>5 DEF RouterReserved
<1>6. CASE ReadCompletes
  <2>1. PICK item : /\ Complete(item)
                    /\ item \in Item /\ next' \in Place /\ reserved' \in Nat
    <3>1. CASE AtReserved
      BY <1>1, <1>6, <3>1, Starts DEF ReadCompletes
    <3>2. CASE ~AtReserved
      <4>1. /\ next.sentence <= Len(answers) /\ pending # NoRead
            /\ Complete(ItemAt(next)) /\ next' = After(next) /\ reserved' = reserved
        BY <1>6, <3>2 DEF ReadCompletes
      <4>2. Live
        BY <1>6, <4>1 DEF IInv, Reads, Live, Environment
      <4>3. ItemAt(next) \in Item /\ After(next) \in Place
        BY <4>1, <4>2, Items DEF IInv, Aligned
      <4>4. QED
        BY <1>1, <4>1, <4>3
    <3>3. QED
      BY <3>1, <3>2
  <2>2. Garbled \in Item
    BY ApiReaderAssumption DEF Garbled, WordItem, Param, Item, Word
  <2>3. pending # NoRead
    BY <1>6 DEF ReadCompletes
  <2>4. PICK got \in Item : ready' = Append(ready, [kind |-> "read", read |-> pending,
                                                     ok |-> TRUE, item |-> got])
    BY <2>1, <2>2 DEF Complete
  <2>5. ready' \in Seq(Handler) /\ pending' = NoRead
    BY <1>1, <1>2, <2>1, <2>3, <2>4, AppendFacts DEF Complete
  <2>6. QED
    BY <1>1, <1>6, <2>1, <2>5, Starts DEF ReadCompletes
<1>7. CASE ReadFails
  <2>1. ready' \in Seq(Handler)
    BY <1>1, <1>2, <1>7, AppendFacts DEF ReadFails
  <2>2. QED
    BY <1>1, <1>7, <2>1, Starts DEF ReadFails, stream
<1>8. CASE CloseApi
  <2>1. ready' \in Seq(Handler)
    BY <1>1, <1>2, <1>8, AppendFacts DEF CloseApi
  <2>2. QED
    BY <1>1, <1>8, <2>1, Starts DEF CloseApi, OnError, State, stream
<1>9. QED
  BY <1>3, <1>4, <1>5, <1>6, <1>7, <1>8 DEF Environment

LEMMA TypesStep ==
  ASSUME IInv, Next
  PROVE  TypeOK'
<1>1. TypeOK /\ answers' \in Seq([words : Sentence, req : 0..MaxRequests])
  BY Sending DEF IInv
<1>2. CASE RunHandler
  <2>1. ready' \in Seq(Handler)
    <3>1. ready \in Seq(Handler)
      BY <1>1 DEF TypeOK
    <3>2. ready # <<>> /\ ready' = Tail(ready)
      BY <1>2, Handling
    <3>3. QED
      BY <3>1, <3>2, TailFacts
  <2>2. /\ requests' \in 0..MaxRequests /\ reserved' \in Nat /\ next' \in Place
        /\ faults' \subseteq {"cut", "reserved", "closed"}
    BY <1>1, <1>2, Handling DEF TypeOK
  <2>3. QED
    BY <1>1, <1>2, <2>1, <2>2, ReadHandlerTypes DEF TypeOK
<1>3. CASE Environment
  <2>1. /\ sentence' \in Sentence /\ callbacks' \in [Tags -> 0..MaxRequests]
        /\ handled' \in Seq([words : Sentence, to : 0..MaxRequests, outcome : Outcome])
        /\ aborted' \in BOOLEAN
    BY <1>1, <1>3, EnvironmentTypes DEF TypeOK
  <2>2. QED
    BY <1>1, <1>3, <2>1, EnvironmentTypes DEF TypeOK
<1>4. QED
  BY <1>2, <1>3 DEF Next

-----------------------------------------------------------------------------
(* The queue. *)

\* A handler that runs leaves the others, one place nearer.
LEMMA Shifted ==
  ASSUME TypeOK, RunHandler
  PROVE  /\ Len(ready) \in Nat /\ 1 \in 1..Len(ready) /\ Head(ready) = ready[1]
         /\ \A i \in 1..Len(ready') : /\ i \in Nat /\ i + 1 \in 1..Len(ready)
                                      /\ i + 1 # 1 /\ ready'[i] = ready[i + 1]
         /\ \A i \in 1..Len(ready) : i = 1 \/ (i - 1 \in 1..Len(ready') /\ ready'[i - 1] = ready[i])
<1>1. ready \in Seq(Handler) /\ ready # <<>> /\ ready' = Tail(ready)
  BY Handling DEF TypeOK
<1>2. QED
  BY <1>1, TailFacts

\* Another handler is put at the end.
LEMMA Put ==
  ASSUME NEW h, TypeOK, ready' = Append(ready, h)
  PROVE  /\ Len(ready) \in Nat /\ Len(ready') = Len(ready) + 1 /\ ready'[Len(ready) + 1] = h
         /\ \A i \in 1..Len(ready) : i \in 1..Len(ready') /\ ready'[i] = ready[i]
         /\ \A i \in 1..Len(ready') : i \in 1..Len(ready) \/ i = Len(ready) + 1
<1>1. ready \in Seq(Handler \cup {h}) /\ h \in Handler \cup {h}
  BY DEF TypeOK
<1>2. QED
  BY <1>1, AppendFacts

\* The sends complete in their order, and no send is of a later request.
LEMMA SendsStep ==
  ASSUME IInv, Next
  PROVE  Sends'
<1>1. TypeOK /\ Sends /\ requests \in Nat
  BY ApiReaderAssumption DEF IInv, TypeOK
<1>2. CASE RunHandler
  <2>1. requests' = requests
    BY <1>2, Handling
  <2>2. \A i \in 1..Len(ready') : i \in Nat /\ i + 1 \in 1..Len(ready) /\ ready'[i] = ready[i + 1]
    BY <1>1, <1>2, Shifted
  <2>3. ASSUME NEW i \in 1..Len(ready'), ~IsRead(ready'[i])
        PROVE  /\ ready'[i].req <= requests
               /\ \A k \in 1..Len(ready') :
                    i < k /\ ~IsRead(ready'[k]) => ready'[i].req < ready'[k].req
    <3>1. i + 1 \in 1..Len(ready) /\ ~IsRead(ready[i + 1]) /\ ready'[i] = ready[i + 1]
      BY <2>2, <2>3
    <3>2. ASSUME NEW k \in 1..Len(ready'), i < k, ~IsRead(ready'[k])
          PROVE  ready'[i].req < ready'[k].req
      <4>1. k + 1 \in 1..Len(ready) /\ ~IsRead(ready[k + 1]) /\ ready'[k] = ready[k + 1]
        BY <2>2, <3>2
      <4>2. i + 1 < k + 1
        BY <2>2, <3>2
      <4>3. QED
        BY <1>1, <3>1, <4>1, <4>2 DEF Sends
    <3>3. QED
      BY <1>1, <3>1, <3>2 DEF Sends
  <2>4. QED
    BY <2>1, <2>3 DEF Sends
<1>3. CASE Transmit
  <2> DEFINE h == [kind |-> "sent", req |-> requests + 1]
  <2>1. ready' = Append(ready, h) /\ requests' = requests + 1 /\ h.req = requests + 1
    BY <1>3 DEF Transmit
  <2> HIDE DEF h
  <2>2. /\ Len(ready) \in Nat /\ ready'[Len(ready) + 1] = h
        /\ \A i \in 1..Len(ready) : ready'[i] = ready[i]
        /\ \A i \in 1..Len(ready') : i \in 1..Len(ready) \/ i = Len(ready) + 1
    BY <1>1, <2>1, Put
  <2>3. \A i \in 1..Len(ready) : ~IsRead(ready[i]) => ready[i].req \in Nat
    <3>1. \A i \in 1..Len(ready) : ready[i] \in Handler
      BY <1>1, Elements
    <3>2. QED
      BY <3>1, ApiReaderAssumption DEF Handler, IsRead, Requests
  <2>4. QED
    BY <1>1, <2>1, <2>2, <2>3 DEF Sends
<1>4. CASE ready' = ready /\ requests' = requests
  BY <1>1, <1>4 DEF Sends
<1>5. ASSUME NEW h, IsRead(h), ready' = Append(ready, h), requests' = requests
      PROVE  Sends'
  <2>1. /\ Len(ready) \in Nat /\ ready'[Len(ready) + 1] = h
        /\ \A i \in 1..Len(ready) : ready'[i] = ready[i]
        /\ \A i \in 1..Len(ready') : i \in 1..Len(ready) \/ i = Len(ready) + 1
    BY <1>1, <1>5, Put
  <2>2. QED
    BY <1>1, <1>5, <2>1 DEF Sends
<1>6. QED
  BY <1>2, <1>3, <1>4, <1>5, Queue

\* A request whose send has completed is older than every one whose send has not.
LEMMA BeforeStep ==
  ASSUME IInv, Next, NEW r \in Nat, Before(r)
  PROVE  Before(r)'
<1>1. TypeOK /\ requests \in Nat
  BY ApiReaderAssumption DEF IInv, TypeOK
<1>2. CASE RunHandler
  <2>1. requests' = requests
    BY <1>2, Handling
  <2>2. \A i \in 1..Len(ready') : i + 1 \in 1..Len(ready) /\ ready'[i] = ready[i + 1]
    BY <1>1, <1>2, Shifted
  <2>3. QED
    BY <2>1, <2>2 DEF Before
<1>3. CASE Transmit
  <2> DEFINE h == [kind |-> "sent", req |-> requests + 1]
  <2>1. ready' = Append(ready, h) /\ requests' = requests + 1 /\ h.req = requests + 1
    BY <1>3 DEF Transmit
  <2> HIDE DEF h
  <2>2. \A i \in 1..Len(ready') : ready'[i] = h \/ (i \in 1..Len(ready) /\ ready'[i] = ready[i])
    BY <1>1, <2>1, Put
  <2>3. QED
    BY <1>1, <2>1, <2>2 DEF Before
<1>4. CASE ready' = ready /\ requests' = requests
  BY <1>4 DEF Before
<1>5. ASSUME NEW h, IsRead(h), ready' = Append(ready, h), requests' = requests
      PROVE  Before(r)'
  <2>1. \A i \in 1..Len(ready') : ready'[i] = h \/ (i \in 1..Len(ready) /\ ready'[i] = ready[i])
    BY <1>1, <1>5, Put
  <2>2. QED
    BY <1>5, <2>1 DEF Before
<1>6. QED
  BY <1>2, <1>3, <1>4, <1>5, Queue

\* After a sentence the reader wants the next, or the connection is closed.
LEMMA AfterSentence ==
  ASSUME EndSentence, RunHandler
  PROVE  /\ sentence' = <<>> /\ aborted' = aborted
         /\ \/ IsOpen' /\ socket' /\ state' = "reading_length" /\ pending' = ReadNext(1)
            \/ ~IsOpen' /\ ~socket' /\ pending' = NoRead
  BY DEF EndSentence, NextSentence, ReadNextWord, IsOpen

\* One read, and none after closing.
LEMMA ReadsStep ==
  ASSUME IInv, Next
  PROVE  Reads'
<1>1. TypeOK /\ Reads /\ socket \in BOOLEAN /\ NoRead # ReadNext(1)
  BY Starts DEF IInv, TypeOK
<1>2. CASE RunHandler /\ Running("read")
  <2>1. /\ pending = NoRead /\ ready' = Tail(ready)
        /\ \A i \in 1..Len(ready') : ~IsRead(ready'[i])
    BY <1>2, Taken, Handling
  <2>2. SUFFICES /\ IsOpen' /\ ~aborted' =>
                      state' \in {"reading_length", "reading_word"} /\ pending' # NoRead
                 /\ ~IsOpen' => pending' = NoRead
    BY <2>1 DEF Reads, Live
  <2>3. CASE EndSentence
    BY <1>1, <1>2, <2>3, AfterSentence
  <2>4. CASE ShortLength
    <3>1. pending' # NoRead
      BY <1>1, <1>2, <2>4, NextReads, ReadTypes DEF GotFirst
    <3>2. QED
      BY <2>4, <3>1 DEF ShortLength, IsOpen, ReadLength, ReadOk
  <2>5. CASE LongLength
    <3>1. pending' # NoRead
      BY <1>1, <1>2, <2>5, NextReads, LongIs DEF GotFirst
    <3>2. QED
      BY <2>5, <3>1 DEF LongLength, IsOpen, ReadLength, ReadOk
  <2>6. CASE ReservedLength \/ ReadError
    BY <2>6 DEF ReservedLength, ReadError, OnError, IsOpen
  <2>7. CASE RestOfLength
    <3>1. CASE aborted'
      <4>1. pending' = pending
        BY <1>2, <2>7, <3>1 DEF RestOfLength, RunHandler
      <4>2. QED
        BY <2>1, <3>1, <4>1
    <3>2. CASE ~aborted'
      <4>1. state' = "reading_word" /\ pending' # NoRead
        BY <1>1, <1>2, <2>7, <3>2, NextReads, ReadTypes DEF GotSecond
      <4>2. QED
        BY <2>7, <4>1 DEF RestOfLength, IsOpen, ReadOk
    <3>3. QED
      BY <3>1, <3>2
  <2>8. CASE ReadWord
    <3>1. socket' /\ state' = "reading_length" /\ pending' = ReadNext(1)
      BY <2>8 DEF ReadWord, ReadNextWord, ReadOk, IsOpen
    <3>2. QED
      BY <1>1, <3>1 DEF IsOpen
  <2>9. CASE ReadAfterClose
    BY <2>1, <2>9 DEF ReadAfterClose, IsOpen
  <2>10. ~Sent
    BY <1>2 DEF Sent, Running
  <2>11. CASE FailAssertion
    BY <1>1, <2>1, <2>11 DEF FailAssertion, IsOpen
  <2>12. QED
    BY <1>2, <2>3, <2>4, <2>5, <2>6, <2>7, <2>8, <2>9, <2>10, <2>11 DEF RunHandler
<1>3. CASE RunHandler /\ ~Running("read")
  <2>1. UNCHANGED <<state, socket, pending, aborted>> /\ ~IsRead(Head(ready))
    BY <1>3 DEF RunHandler, EndSentence, ShortLength, LongLength, ReservedLength, RestOfLength,
                ReadWord, FailAssertion, ReadError, ReadAfterClose, Sent, ReadLength, ReadOk, Running, IsRead
  <2>2. /\ 1 \in 1..Len(ready) /\ Head(ready) = ready[1]
        /\ \A i \in 1..Len(ready') : i \in Nat /\ i + 1 \in 1..Len(ready) /\ ready'[i] = ready[i + 1]
        /\ \A i \in 1..Len(ready) : i = 1 \/ (i - 1 \in 1..Len(ready') /\ ready'[i - 1] = ready[i])
    BY <1>1, <1>3, Shifted
  <2>3. (\E i \in 1..Len(ready) : IsRead(ready[i])) => \E i \in 1..Len(ready') : IsRead(ready'[i])
    BY <2>1, <2>2
  <2>4. \A i, j \in 1..Len(ready') : IsRead(ready'[i]) /\ IsRead(ready'[j]) => i = j
    <3>1. \A i, j \in 1..Len(ready') : IsRead(ready'[i]) /\ IsRead(ready'[j]) => i + 1 = j + 1
      BY <1>1, <2>2 DEF Reads
    <3>2. QED
      BY <2>2, <3>1
  <2>5. pending # NoRead => \A i \in 1..Len(ready') : ~IsRead(ready'[i])
    BY <1>1, <2>2 DEF Reads
  <2>6. QED
    BY <1>1, <2>1, <2>3, <2>4, <2>5 DEF Reads, Live, IsOpen
<1>4. ASSUME NEW h, Environment, ready' = Append(ready, h),
             \/ UNCHANGED <<state, socket, pending>> /\ ~IsRead(h)
             \/ /\ pending # NoRead /\ pending' = NoRead /\ IsRead(h)
                /\ UNCHANGED <<state, socket>> \/ ~IsOpen'
      PROVE  Reads'
  <2>1. /\ Len(ready) \in Nat /\ Len(ready) + 1 \in 1..Len(ready') /\ ready'[Len(ready) + 1] = h
        /\ \A i \in 1..Len(ready) : i \in 1..Len(ready') /\ ready'[i] = ready[i]
        /\ \A i \in 1..Len(ready') : i \in 1..Len(ready) \/ i = Len(ready) + 1
    BY <1>1, <1>4, Put
  <2>2. aborted' = aborted /\ (UNCHANGED <<state, socket>> => IsOpen' = IsOpen)
    BY <1>4, EnvironmentTypes DEF IsOpen
  <2>3. CASE UNCHANGED <<state, socket, pending>> /\ ~IsRead(h)
    BY <1>1, <2>1, <2>2, <2>3 DEF Reads, Live
  <2>4. CASE pending # NoRead /\ pending' = NoRead /\ IsRead(h)
    BY <1>1, <1>4, <2>1, <2>2, <2>4 DEF Reads, Live
  <2>5. QED
    BY <1>4, <2>3, <2>4
<1>5. CASE Environment
  <2>1. CASE Transmit
    BY <1>4, <1>5, <2>1 DEF Transmit, IsRead
  <2>2. CASE RouterAnswers \/ RouterReserved
    <3>1. UNCHANGED <<ready, state, socket, pending, aborted>>
      BY <2>2 DEF RouterAnswers, RouterSends, RouterReserved
    <3>2. QED
      BY <1>1, <3>1 DEF Reads, Live, IsOpen
  <2>3. CASE ReadCompletes
    <3>1. PICK item : Complete(item)
      BY <2>3 DEF ReadCompletes
    <3>2. PICK h : IsRead(h) /\ ready' = Append(ready, h)
      BY <3>1 DEF Complete, IsRead
    <3>3. pending # NoRead /\ pending' = NoRead /\ UNCHANGED <<state, socket>>
      BY <2>3, <3>1 DEF ReadCompletes, Complete
    <3>4. QED
      BY <1>4, <1>5, <3>2, <3>3
  <2>4. IsRead(FailedRead)
    BY DEF IsRead, FailedRead
  <2>5. CASE ReadFails
    BY <1>4, <1>5, <2>4, <2>5 DEF ReadFails
  <2>6. CASE CloseApi
    <3>1. ~IsOpen' /\ pending' = NoRead
      BY <2>6 DEF CloseApi, OnError, IsOpen
    <3>2. CASE pending = NoRead
      <4>1. ready' = ready
        BY <2>6, <3>2 DEF CloseApi
      <4>2. QED
        BY <1>1, <3>1, <4>1 DEF Reads, Live
    <3>3. CASE pending # NoRead
      <4>1. ready' = Append(ready, FailedRead)
        BY <2>6, <3>3 DEF CloseApi
      <4>2. QED
        BY <1>4, <1>5, <2>4, <3>1, <3>3, <4>1
    <3>4. QED
      BY <3>2, <3>3
  <2>7. QED
    BY <1>5, <2>1, <2>2, <2>3, <2>5, <2>6 DEF Environment
<1>6. QED
  BY <1>2, <1>3, <1>5 DEF Next

-----------------------------------------------------------------------------
(* The end of a sentence. *)

\* A closed connection stays closed.
LEMMA StaysClosed ==
  ASSUME Next
  PROVE  (Live' => Live) /\ (IsOpen' => IsOpen)
<1>1. ~aborted
  BY Frame
<1>2. CASE RunHandler
  <2>1. CASE \/ EndSentence \/ ShortLength \/ LongLength \/ RestOfLength \/ ReadWord
             \/ FailAssertion \/ ReadError
    <3>1. IsOpen
      BY <2>1 DEF EndSentence, ShortLength, LongLength, RestOfLength, ReadWord, FailAssertion, ReadError,
                  ReadLength, ReadOk
    <3>2. QED
      BY <1>1, <3>1 DEF Live
  <2>2. CASE ReservedLength
    BY <2>2 DEF ReservedLength, OnError, IsOpen, Live
  <2>3. CASE ReadAfterClose \/ Sent
    BY <2>3 DEF ReadAfterClose, Sent, IsOpen, Live
  <2>4. QED
    BY <1>2, <2>1, <2>2, <2>3 DEF RunHandler
<1>3. CASE Environment
  <2>1. CASE CloseApi
    BY <2>1 DEF CloseApi, OnError, IsOpen, Live
  <2>2. CASE ~CloseApi
    <3>1. UNCHANGED <<state, socket, aborted>>
      BY <1>3, <2>2 DEF Environment, Transmit, RouterAnswers, RouterSends, RouterReserved,
                        ReadCompletes, ReadFails
    <3>2. QED
      BY <3>1 DEF IsOpen, Live
  <2>3. QED
    BY <2>1, <2>2
<1>4. QED
  BY <1>2, <1>3 DEF Next

\* An answer names the tag of its request, the other sentences name none.
LEMMA AnswerIs ==
  ASSUME NEW r \in Requests, NEW words \in AnswersTo(r)
  PROVE  /\ TagsOf(words) = {Tag(r)} /\ Tag(r) \in Tags
         /\ IsValid(words) /\ ~IsEmpty(words) /\ words[1].kind = "!done"
<1>1. PICK size \in ParamSizes : words = <<Typed("!done"), TagWord(Tag(r)), Param(size)>>
  BY DEF AnswersTo
<1>2. /\ words # <<>> /\ Len(words) = 3 /\ DOMAIN words = 1..3
      /\ words[1] = Typed("!done") /\ words[2] = TagWord(Tag(r)) /\ words[3] = Param(size)
  BY <1>1
<1>3. /\ words[1].kind = "!done" /\ words[2].kind = ".tag" /\ words[2].tag = Tag(r)
      /\ words[3].kind = "param"
  BY <1>2 DEF Typed, TagWord, Param
<1>4. {j \in DOMAIN words : words[j].kind = ".tag"} = {2}
  BY <1>2, <1>3
<1>5. TagsOf(words) = {Tag(r)}
  BY <1>3, <1>4 DEF TagsOf
<1>6. QED
  BY <1>2, <1>3, <1>5 DEF IsValid, IsEmpty, Type, Tags

LEMMA OtherIs ==
  ASSUME NEW words \in OddSentences \cup {BareSentence}, ~TaggedTwice(words)
  PROVE  /\ TagsOf(words) = {}
         /\ words = BareSentence => IsValid(words) /\ IsEmpty(words)
<1>1. CASE words = <<>>
  <2>1. DOMAIN words = {}
    BY <1>1
  <2>2. words # BareSentence
    BY <1>1 DEF BareSentence
  <2>3. QED
    BY <2>1, <2>2 DEF TagsOf
<1>2. CASE words = <<Param(1)>>
  <2>1. DOMAIN words = 1..1 /\ words[1].kind = "param"
    BY <1>2 DEF Param
  <2>2. words # BareSentence
    BY <2>1 DEF BareSentence, Typed
  <2>3. QED
    BY <2>1, <2>2 DEF TagsOf
<1>3. ASSUME NEW type \in {"!fatal", "!other", "!done"}, words = <<Typed(type), Param(1)>>
      PROVE  TagsOf(words) = {} /\ words # BareSentence
  <2>1. /\ DOMAIN words = 1..2 /\ Len(words) = 2 /\ words[1].kind # ".tag"
        /\ words[2].kind = "param"
    BY <1>3 DEF Param, Typed
  <2>2. words # BareSentence
    BY <2>1 DEF BareSentence
  <2>3. QED
    BY <2>1, <2>2 DEF TagsOf
<1>4. CASE words = BareSentence
  <2>1. words # <<>> /\ Len(words) = 1 /\ DOMAIN words = 1..1 /\ words[1].kind = "!done"
    BY <1>4 DEF BareSentence, Typed
  <2>2. QED
    BY <2>1 DEF TagsOf, IsValid, IsEmpty, Type
<1>5. ASSUME NEW t \in Tags, words = <<Typed("!done"), TagWord(t), TagWord(t)>>
      PROVE  FALSE
  <2>1. /\ DOMAIN words = 1..3 /\ words # <<>> /\ words[1].kind = "!done"
        /\ words[2].kind = ".tag" /\ words[3].kind = ".tag"
    BY <1>5 DEF Typed, TagWord
  <2>2. QED
    BY <2>1 DEF TaggedTwice, IsValid, Type
<1>6. CASE words = <<Typed("!done"), Param(0)>>
  <2>1. /\ DOMAIN words = 1..2 /\ Len(words) = 2 /\ words[1].kind # ".tag"
        /\ words[2].kind = "param"
    BY <1>6 DEF Param, Typed
  <2>2. words # BareSentence
    BY <2>1 DEF BareSentence
  <2>3. QED
    BY <2>1, <2>2 DEF TagsOf
<1>7. QED
  BY <1>1, <1>2, <1>3, <1>4, <1>5, <1>6 DEF OddSentences

\* The sentence that ends is the router's, and if it answers a request, that
\* request's send has completed.
LEMMA Ending ==
  ASSUME IInv, RunHandler, EndSentence
  PROVE  LET a == answers[Len(handled) + 1]
         IN  /\ Live /\ Running("read") /\ next = StartOf(Len(handled) + 2)
             /\ Len(handled) < Len(answers) /\ a.words = sentence
             /\ ~TaggedTwice(sentence)
             /\ \/ a.req = 0 /\ sentence \in OddSentences \cup {BareSentence}
                \/ /\ a.req \in 1..requests /\ a.req \in Requests
                   /\ sentence \in AnswersTo(a.req)
                   /\ Before(a.req)
<1> DEFINE a == answers[Len(handled) + 1]
<1>1. TypeOK /\ requests \in 0..MaxRequests
  BY DEF IInv, TypeOK
<1>2. Live /\ Running("read") /\ IsRead(Head(ready))
  BY DEF EndSentence, RunHandler, ReadLength, ReadOk, Running, Live, IsRead
<1>3. GotEnd(Head(ready)) /\ SentAfter(1)
  BY Found DEF EndSentence
<1>4. /\ next = StartOf(Len(handled) + 2) /\ Len(handled) < Len(answers)
      /\ sentence = a.words
  BY <1>3 DEF GotEnd
<1>5. Len(handled) + 1 \in 1..Len(answers)
  BY <1>1, <1>4, Elements
<1>6. \/ a.req = 0 /\ a.words \in OddSentences \cup {BareSentence}
      \/ a.req \in 1..requests /\ a.words \in AnswersTo(a.req)
  BY <1>5 DEF IInv, Answered
<1>7. ASSUME a.req \in 1..requests
      PROVE  a.req \in Requests /\ Before(a.req)
  <2>1. a.req \in Requests /\ a.req <= requests
    BY <1>1, <1>7, ApiReaderAssumption DEF Requests
  <2>2. 1 \in 1..Len(ready) /\ IsRead(ready[1]) /\ Len(ready) \in Nat
    BY <1>1, <1>2, Shifted
  <2>3. \A k \in 1..Len(ready) : ~IsRead(ready[k]) => 1 < k
    BY <2>2
  <2>4. QED
    BY <1>3, <2>1, <2>3 DEF SentAfter, Before
<1>8. ~TaggedTwice(sentence)
  BY DEF EndSentence
<1>9. QED
  BY <1>2, <1>4, <1>6, <1>7, <1>8

LEMMA Recorded ==
  ASSUME TypeOK, NEW to, NEW outcome, Record(to, outcome)
  PROVE  /\ Len(handled) \in Nat /\ Len(handled') = Len(handled) + 1
         /\ Len(handled) + 1 \in 1..Len(handled')
         /\ handled'[Len(handled) + 1].words = sentence
         /\ handled'[Len(handled) + 1].to = to
         /\ handled'[Len(handled) + 1].outcome = outcome
         /\ \A i \in 1..Len(handled) : /\ i \in 1..Len(handled') /\ i < Len(handled) + 1
                                       /\ handled'[i] = handled[i]
         /\ \A i \in 1..Len(handled') : i \in 1..Len(handled) \/ i = Len(handled) + 1
<1> DEFINE h == [words |-> sentence, to |-> to, outcome |-> outcome]
           H == [words : Sentence, to : 0..MaxRequests, outcome : Outcome]
<1>1. h.words = sentence /\ h.to = to /\ h.outcome = outcome
  OBVIOUS
<1>2. handled \in Seq(H) /\ handled' = Append(handled, h)
  BY DEF TypeOK, Record
<1> HIDE DEF h, H
<1>3. handled \in Seq(H \cup {h}) /\ h \in H \cup {h}
  BY <1>2
<1>4. QED
  BY <1>1, <1>2, <1>3, AppendFacts

\* What a sentence does: it reaches the callback of its answer's tag, or none.
Reaches(to, outcome) ==
  LET req == answers[Len(handled) + 1].req
  IN  /\ req \in Requests /\ sentence \in AnswersTo(req)
      /\ to # 0 /\ to = callbacks[Tag(req)]
      /\ callbacks' = AfterCall(Tag(req), outcome)
      /\ outcome \in {"kept", "dropped", "closing"}
      /\ socket' = (outcome # "closing")

ReachesNone(outcome) ==
  /\ UNCHANGED callbacks
  /\ \/ outcome = "refused" /\ Refused(sentence)
     \/ outcome = "ignored" /\ socket'

LEMMA Response ==
  ASSUME IInv, RunHandler, EndSentence
  PROVE  \E to, outcome :
           /\ Record(to, outcome)
           /\ Reaches(to, outcome) \/ (to = 0 /\ ReachesNone(outcome))
<1>1. CASE Call
  <2> DEFINE req == answers[Len(handled) + 1].req
  <2>1. PICK t \in TagsOf(sentence), outcome \in {"kept", "dropped", "closing"} :
          /\ Record(callbacks[t], outcome) /\ callbacks' = AfterCall(t, outcome)
          /\ socket' = (outcome # "closing")
    BY <1>1 DEF Call
  <2>2. \/ sentence \in OddSentences \cup {BareSentence}
        \/ req \in Requests /\ sentence \in AnswersTo(req)
    BY Ending
  <2>3. req \in Requests /\ sentence \in AnswersTo(req)
    BY <2>1, <2>2, Ending, OtherIs
  <2>4. TagsOf(sentence) = {Tag(req)}
    BY <2>3, AnswerIs
  <2>5. callbacks[Tag(req)] # 0
    BY <1>1, <2>4 DEF Call, Refused, HasCallback
  <2>6. QED
    BY <2>1, <2>3, <2>4, <2>5 DEF Reaches
<1>2. CASE Refuse
  BY <1>2 DEF Refuse, ReachesNone
<1>3. CASE Ignore
  BY <1>3 DEF Ignore, ReachesNone, EndSentence, ReadLength, ReadOk, IsOpen
<1>4. QED
  BY <1>1, <1>2, <1>3 DEF EndSentence

-----------------------------------------------------------------------------
(* The sentences. *)

LEMMA WholeStep ==
  ASSUME IInv, Next
  PROVE  Whole' /\ Answered'
<1>1. TypeOK /\ Whole /\ Answered /\ Len(answers) \in Nat /\ Len(handled) \in Nat
      /\ requests \in Nat
  BY Elements, ApiReaderAssumption DEF IInv, TypeOK
<1>2. /\ Len(answers') \in Nat /\ Len(answers) <= Len(answers')
      /\ \A i \in 1..Len(answers) : answers'[i] = answers[i]
  BY <1>1, Sending
<1>3. Answered'
  <2>1. requests' \in Nat /\ requests <= requests'
    BY <1>1, Frame DEF Transmit
  <2>2. ASSUME NEW i \in 1..Len(answers')
        PROVE  \/ /\ answers'[i].req = 0
                  /\ answers'[i].words \in OddSentences \cup {BareSentence}
               \/ /\ answers'[i].req \in 1..requests
                  /\ answers'[i].words \in AnswersTo(answers'[i].req)
    <3>1. CASE i \in 1..Len(answers)
      BY <1>1, <1>2, <3>1 DEF Answered
    <3>2. CASE i \notin 1..Len(answers)
      BY <1>1, <3>2, Sending
    <3>3. QED
      BY <3>1, <3>2
  <2>3. \A r \in 1..requests : r \in 1..requests'
    BY <1>1, <2>1
  <2>4. QED
    BY <2>2, <2>3 DEF Answered
<1>4. Whole'
  <2>1. CASE handled' = handled
    BY <1>1, <1>2, <2>1 DEF Whole
  <2>2. CASE handled' # handled
    <3>1. EndSentence /\ RunHandler
      BY <2>2, Frame DEF Next, Environment, Transmit, RouterAnswers, RouterSends,
                         RouterReserved, ReadCompletes, ReadFails, CloseApi
    <3>2. /\ Len(handled) < Len(answers) /\ answers[Len(handled) + 1].words = sentence
          /\ answers' = answers
      BY <3>1, Ending, Handling
    <3>3. PICK to, outcome : Record(to, outcome)
      BY <3>1, Response
    <3>4. /\ Len(handled') = Len(handled) + 1
          /\ handled'[Len(handled) + 1].words = sentence
          /\ \A i \in 1..Len(handled) : handled'[i] = handled[i]
          /\ \A i \in 1..Len(handled') : i \in 1..Len(handled) \/ i = Len(handled) + 1
      BY <1>1, <3>3, Recorded
    <3>5. QED
      BY <1>1, <3>2, <3>4 DEF Whole
  <2>3. QED
    BY <2>1, <2>2
<1>5. QED
  BY <1>3, <1>4

LEMMA PartialStep ==
  ASSUME IInv, Next
  PROVE  Partial'
<1>1. TypeOK /\ Len(handled) \in Nat /\ Len(answers) \in Nat
      /\ sentence \in Seq(Word) /\ Len(sentence) \in Nat
  BY Elements DEF IInv
<1>2. /\ Len(answers') \in Nat /\ Len(answers) <= Len(answers')
      /\ \A i \in 1..Len(answers) : answers'[i] = answers[i]
  BY <1>1, Sending
<1>3. CASE EndSentence
  <2>1. sentence' = <<>>
    BY <1>3 DEF EndSentence, NextSentence
  <2>2. QED
    BY <2>1 DEF Partial
<1>4. CASE ReadWord /\ RunHandler
  <2> DEFINE words == answers[Len(handled) + 1].words
  <2>1. GotWord(Head(ready))
    BY <1>4, Found DEF ReadWord
  <2>2. InWord /\ Head(ready).item.word = words[Len(sentence) + 1]
    BY <2>1 DEF GotWord, WordItem, WordAt, Here
  <2>3. Len(handled) < Len(answers) /\ Len(sentence) < Len(words) /\ Len(words) \in Nat
    <3>1. Len(handled) < Len(answers) /\ Len(sentence) < Len(words)
      BY <2>2 DEF InWord
    <3>2. Len(handled) + 1 \in 1..Len(answers)
      BY <1>1, <3>1
    <3>3. QED
      BY <1>1, <3>1, <3>2, Elements
  <2>4. handled' = handled /\ answers' = answers
    BY <1>4, Handling DEF ReadWord
  <2>5. Live
    BY <1>4 DEF ReadWord, ReadOk, RunHandler, Live
  <2>6. /\ sentence' = Append(sentence, Head(ready).item.word)
        /\ Head(ready).item.word \in Word
    <3>1. words \in Seq(Word) /\ Len(sentence) + 1 \in 1..Len(words)
      <4>1. Len(handled) + 1 \in 1..Len(answers)
        BY <1>1, <2>3
      <4>2. QED
        BY <1>1, <2>3, <4>1, Elements
    <3>2. QED
      BY <1>4, <2>2, <3>1 DEF ReadWord
  <2>7. /\ Len(sentence') = Len(sentence) + 1
        /\ sentence'[Len(sentence) + 1] = words[Len(sentence) + 1]
        /\ \A i \in 1..Len(sentence) : sentence'[i] = sentence[i]
        /\ \A i \in 1..Len(sentence') : i \in 1..Len(sentence) \/ i = Len(sentence) + 1
    BY <1>1, <2>2, <2>6, AppendFacts
  <2>8. \A i \in 1..Len(sentence) : sentence[i] = words[i]
    <3>1. CASE sentence = <<>>
      BY <3>1
    <3>2. CASE sentence # <<>>
      BY <2>5, <3>2 DEF IInv, Partial
    <3>3. QED
      BY <3>1, <3>2
  <2>9. Len(sentence') <= Len(words)
    BY <1>1, <2>3, <2>7
  <2>10. \A i \in 1..Len(sentence') : sentence'[i] = words[i]
    BY <2>7, <2>8
  <2>11. QED
    BY <2>3, <2>4, <2>9, <2>10 DEF Partial
<1>5. CASE ~EndSentence /\ ~(ReadWord /\ RunHandler)
  <2>1. sentence' = sentence /\ handled' = handled
    <3>1. CASE RunHandler
      BY <1>5, <3>1, Frame
    <3>2. CASE Environment
      BY <3>2, EnvironmentTypes
    <3>3. QED
      BY <3>1, <3>2 DEF Next
  <2>2. Live' => Live
    BY StaysClosed
  <2>3. ASSUME Len(handled) < Len(answers)
        PROVE  /\ Len(handled) < Len(answers')
               /\ answers'[Len(handled) + 1] = answers[Len(handled) + 1]
    <3>1. Len(handled) + 1 \in 1..Len(answers)
      BY <1>1, <2>3
    <3>2. QED
      BY <1>1, <1>2, <2>3, <3>1
  <2>4. Partial
    BY DEF IInv
  <2>5. SUFFICES ASSUME Live, sentence # <<>>
                 PROVE  /\ Len(handled) < Len(answers')
                        /\ Len(sentence) <= Len(answers'[Len(handled) + 1].words)
                        /\ \A i \in 1..Len(sentence) :
                             sentence[i] = answers'[Len(handled) + 1].words[i]
    BY <2>1, <2>2 DEF Partial
  <2>6. QED
    BY <2>3, <2>4, <2>5 DEF Partial
<1>6. QED
  BY <1>3, <1>4, <1>5

-----------------------------------------------------------------------------
(* The callbacks. *)

LEMMA ReasonsStep ==
  ASSUME IInv, Next
  PROVE  Reasons'
<1>1. TypeOK /\ Reasons /\ faults \subseteq faults'
  BY Frame DEF IInv
<1>2. CASE RunHandler
  <2>1. reserved' = reserved /\ faults' = faults
    BY <1>2, Handling
  <2>2. \A i \in 1..Len(ready') : i + 1 \in 1..Len(ready) /\ ready'[i] = ready[i + 1]
    BY <1>1, <1>2, Shifted
  <2>3. QED
    BY <1>1, <2>1, <2>2 DEF Reasons
<1>3. ASSUME NEW h, ready' = Append(ready, h), IsRead(h) /\ ~h.ok => faults' # {}
      PROVE  \A i \in 1..Len(ready') : IsRead(ready'[i]) /\ ~ready'[i].ok => faults' # {}
  <2>1. \A i \in 1..Len(ready') : ready'[i] = h \/ (i \in 1..Len(ready) /\ ready'[i] = ready[i])
    BY <1>1, <1>3, Put
  <2>2. QED
    BY <1>1, <1>3, <2>1 DEF Reasons
<1>4. ASSUME ready' = ready
      PROVE  \A i \in 1..Len(ready') : IsRead(ready'[i]) /\ ~ready'[i].ok => faults' # {}
  BY <1>1, <1>4 DEF Reasons
<1>5. ASSUME reserved' = 0 \/ reserved' = reserved
      PROVE  reserved' # 0 => faults' # {}
  BY <1>1, <1>5 DEF Reasons
<1>6. CASE Environment
  <2>1. CASE Transmit
    BY <1>3, <1>5, <2>1 DEF Transmit, IsRead, Reasons, stream
  <2>2. CASE RouterAnswers
    BY <1>4, <1>5, <2>2 DEF RouterAnswers, RouterSends, Reasons
  <2>3. CASE RouterReserved
    BY <1>4, <2>3 DEF RouterReserved, Reasons
  <2>4. CASE ReadCompletes
    <3>1. reserved' \in {0, reserved} /\ \E item : Complete(item)
      BY <2>4 DEF ReadCompletes
    <3>2. PICK h : ready' = Append(ready, h) /\ h.ok = TRUE
      BY <3>1 DEF Complete
    <3>3. QED
      BY <1>3, <1>5, <3>1, <3>2 DEF Reasons
  <2>5. CASE ReadFails
    BY <1>3, <1>5, <2>5 DEF ReadFails, Reasons, stream
  <2>6. CASE CloseApi
    BY <1>3, <1>4, <1>5, <2>6 DEF CloseApi, Reasons, stream
  <2>7. QED
    BY <1>6, <2>1, <2>2, <2>3, <2>4, <2>5, <2>6 DEF Environment
<1>7. QED
  BY <1>2, <1>6 DEF Next

\* The completed send at the head of the queue is of a request that no callback
\* has been kept of.
LEMMA Completing ==
  ASSUME IInv, RunHandler, Sent, NEW r, r = Head(ready).req
  PROVE  /\ r \in Requests /\ r \in 1..requests /\ Tag(r) \in Tags
         /\ Before(r)'
         /\ \A q \in Nat : Before(q) => q < r
<1>1. /\ TypeOK /\ Sends /\ requests \in Nat /\ ~IsRead(Head(ready))
      /\ requests' = requests
  BY Handling, ApiReaderAssumption DEF IInv, TypeOK, Sent, Running, IsRead
<1>2. /\ 1 \in 1..Len(ready) /\ Head(ready) = ready[1]
      /\ \A i \in 1..Len(ready') : /\ i \in Nat /\ i + 1 \in 1..Len(ready) /\ i + 1 # 1
                                   /\ ready'[i] = ready[i + 1]
  BY <1>1, Shifted
<1>3. r \in Requests
  <2>1. ready[1] \in Handler
    BY <1>1, <1>2, Elements
  <2>2. QED
    BY <1>1, <1>2, <2>1 DEF Handler, IsRead
<1>4. r \in 1..requests /\ Tag(r) \in Tags
  BY <1>1, <1>2, <1>3, ApiReaderAssumption DEF Sends, Requests, Tags
<1>5. Before(r)'
  <2>1. \A i \in 1..Len(ready') : ~IsRead(ready'[i]) => r < ready'[i].req
    <3>1. \A i \in 1..Len(ready') : 1 < i + 1
      BY <1>2
    <3>2. QED
      BY <1>1, <1>2, <3>1 DEF Sends
  <2>2. QED
    BY <1>1, <1>4, <2>1 DEF Before
<1>6. \A q \in Nat : Before(q) => q < r
  BY <1>1, <1>2 DEF Before
<1>7. QED
  BY <1>3, <1>4, <1>5, <1>6

\* What happens to the callbacks, for the steps that follow.
LEMMA Callbacks ==
  ASSUME IInv, Next, NEW t \in Tags
  PROVE  \/ callbacks'[t] = callbacks[t]
         \/ callbacks'[t] = 0
         \/ /\ RunHandler /\ Sent /\ Live
            /\ callbacks'[t] = Head(ready).req /\ t = Tag(Head(ready).req)
            /\ callbacks[t] = 0
<1>1. callbacks \in [Tags -> 0..MaxRequests]
  BY DEF IInv, TypeOK
<1>2. CASE RunHandler /\ EndSentence
  <2>1. callbacks' = callbacks \/ \E u : callbacks' = [callbacks EXCEPT ![u] = 0]
    BY <1>2, Response DEF Reaches, ReachesNone, AfterCall
  <2>2. QED
    BY <1>1, <2>1
<1>3. CASE RunHandler /\ Sent
  <2>1. CASE ~IsOpen
    BY <1>3, <2>1 DEF Sent
  <2>2. CASE IsOpen
    <3>1. Live /\ Register(Head(ready).req)
      BY <1>3, <2>2 DEF Sent, Live, RunHandler
    <3>2. QED
      BY <1>1, <1>3, <3>1 DEF Register
  <2>3. QED
    BY <2>1, <2>2
<1>4. CASE RunHandler /\ ~EndSentence /\ ~Sent
  BY <1>4, Frame
<1>5. CASE Environment
  BY <1>5, EnvironmentTypes
<1>6. QED
  BY <1>2, <1>3, <1>4, <1>5 DEF Next

LEMMA KeptStep ==
  ASSUME IInv, Next
  PROVE  Kept'
<1>1. TypeOK /\ Kept /\ callbacks \in [Tags -> 0..MaxRequests] /\ MaxRequests \in Nat
  BY ApiReaderAssumption DEF IInv, TypeOK
<1>2. SUFFICES ASSUME NEW t \in Tags, NEW r, r = callbacks'[t], r # 0
               PROVE  Tag(r) = t /\ Before(r)'
  <2>1. \A t \in Tags : callbacks'[t] # 0 => Tag(callbacks'[t]) = t
    BY <1>2
  <2>2. ASSUME NEW t \in Tags, callbacks'[t] # 0
        PROVE  /\ callbacks'[t] <= requests'
               /\ \A i \in 1..Len(ready') : ~IsRead(ready'[i]) => callbacks'[t] < ready'[i].req
    BY <1>2, <2>2 DEF Before
  <2>3. QED
    BY <2>1, <2>2 DEF Kept, Before
<1>3. CASE callbacks'[t] = callbacks[t]
  <2>1. r \in Nat /\ Tag(r) = t /\ Before(r)
    BY <1>1, <1>2, <1>3 DEF Kept
  <2>2. QED
    BY <2>1, BeforeStep
<1>4. CASE /\ RunHandler /\ Sent
           /\ callbacks'[t] = Head(ready).req /\ t = Tag(Head(ready).req)
  BY <1>2, <1>4, Completing
<1>5. QED
  BY <1>2, <1>3, <1>4, Callbacks

\* The callback that a sentence reaches has been kept, and no other is its.
LEMMA Reached ==
  ASSUME IInv, NEW to, NEW outcome, Reaches(to, outcome)
  PROVE  /\ to \in Nat \ {0} /\ Before(to)
         /\ Tag(to) = Tag(answers[Len(handled) + 1].req)
         /\ outcome # "kept" => \A t \in Tags : callbacks'[t] # to
<1> DEFINE u == Tag(answers[Len(handled) + 1].req)
<1>1. /\ u \in Tags /\ to # 0 /\ to = callbacks[u]
      /\ callbacks' = AfterCall(u, outcome)
  BY AnswerIs DEF Reaches
<1>2. Kept /\ callbacks \in [Tags -> 0..MaxRequests] /\ MaxRequests \in Nat
  BY ApiReaderAssumption DEF IInv, TypeOK
<1> HIDE DEF u
<1>3. to \in Nat /\ Before(to) /\ Tag(to) = u
  BY <1>1, <1>2 DEF Kept
<1>4. ASSUME outcome # "kept", NEW t \in Tags
      PROVE  callbacks'[t] # to
  <2>1. callbacks' = [callbacks EXCEPT ![u] = 0]
    BY <1>1, <1>4 DEF AfterCall
  <2>2. CASE t = u
    BY <1>1, <1>2, <2>1, <2>2
  <2>3. CASE t # u
    BY <1>1, <1>2, <1>3, <2>1, <2>3 DEF Kept
  <2>4. QED
    BY <2>2, <2>3
<1>5. QED
  BY <1>1, <1>3, <1>4 DEF u

LEMMA EndedStep ==
  ASSUME IInv, Next
  PROVE  Ended'
<1>1. /\ TypeOK /\ Ended /\ callbacks \in [Tags -> 0..MaxRequests] /\ MaxRequests \in Nat
      /\ \A i \in 1..Len(handled) : handled[i].to \in Nat
  BY Elements, ApiReaderAssumption DEF IInv, TypeOK
<1>2. \A q \in Nat : Before(q) => Before(q)'
  BY BeforeStep
<1>3. ASSUME NEW q \in Nat, q # 0, Before(q), \A t \in Tags : callbacks[t] # q
      PROVE  \A t \in Tags : callbacks'[t] # q
  <2>1. SUFFICES ASSUME NEW t \in Tags, callbacks'[t] = q
                 PROVE  FALSE
    OBVIOUS
  <2>2. RunHandler /\ Sent /\ q = Head(ready).req
    BY <1>3, <2>1, Callbacks
  <2>3. q < q
    BY <1>3, <2>2, Completing
  <2>4. QED
    BY <1>3, <2>3
<1>4. \A i \in 1..Len(handled) : handled[i].to # 0 =>
        /\ Before(handled[i].to)
        /\ handled[i].outcome # "kept" => \A t \in Tags : callbacks'[t] # handled[i].to
  BY <1>1, <1>3 DEF Ended
<1>5. SUFFICES ASSUME NEW i \in 1..Len(handled'), NEW q, q = handled'[i].to, q # 0
               PROVE  /\ Before(q)'
                      /\ handled'[i].outcome # "kept" => \A t \in Tags : callbacks'[t] # q
  <2>1. ASSUME NEW i \in 1..Len(handled'), handled'[i].to # 0
        PROVE  /\ handled'[i].to <= requests'
               /\ \A k \in 1..Len(ready') :
                    ~IsRead(ready'[k]) => handled'[i].to < ready'[k].req
               /\ handled'[i].outcome # "kept" =>
                    \A t \in Tags : callbacks'[t] # handled'[i].to
    BY <1>5, <2>1 DEF Before
  <2>2. QED
    BY <2>1 DEF Ended, Before
<1>6. CASE i \in 1..Len(handled) /\ handled'[i] = handled[i]
  <2>1. q \in Nat /\ Before(q)
    BY <1>1, <1>4, <1>5, <1>6
  <2>2. QED
    BY <1>2, <1>4, <1>5, <1>6, <2>1
<1>7. CASE ~(i \in 1..Len(handled) /\ handled'[i] = handled[i])
  <2>1. RunHandler /\ EndSentence
    BY <1>5, <1>7, Frame, EnvironmentTypes DEF Next
  <2>2. PICK to, outcome :
          /\ Record(to, outcome)
          /\ Reaches(to, outcome) \/ (to = 0 /\ ReachesNone(outcome))
    BY <2>1, Response
  <2>3. i = Len(handled) + 1 /\ handled'[i].to = to /\ handled'[i].outcome = outcome
    BY <1>1, <1>7, <2>2, Recorded
  <2>4. q = to /\ Reaches(to, outcome)
    BY <1>5, <2>2, <2>3
  <2>5. q \in Nat /\ Before(q) /\ (outcome # "kept" => \A t \in Tags : callbacks'[t] # q)
    BY <2>4, Reached
  <2>6. QED
    BY <1>2, <2>3, <2>5
<1>8. QED
  BY <1>6, <1>7

\* What has been handled stays.
LEMMA StaysHandled ==
  ASSUME IInv, Next
  PROVE  /\ \A i \in 1..Len(handled) : i \in 1..Len(handled') /\ handled'[i] = handled[i]
         /\ \A t : DroppedTag(t) => DroppedTag(t)'
<1>1. TypeOK
  BY DEF IInv
<1>2. \A i \in 1..Len(handled) : i \in 1..Len(handled') /\ handled'[i] = handled[i]
  <2>1. CASE handled' = handled
    BY <2>1
  <2>2. CASE handled' # handled
    <3>1. RunHandler /\ EndSentence
      BY <2>2, Frame, EnvironmentTypes DEF Next
    <3>2. PICK to, outcome : Record(to, outcome)
      BY <3>1, Response
    <3>3. QED
      BY <1>1, <3>2, Recorded
  <2>3. QED
    BY <2>1, <2>2
<1>3. QED
  BY <1>2 DEF DroppedTag

LEMMA QueuedStep ==
  ASSUME IInv, Next, NEW r, Queued(r)
  PROVE  Queued(r)' \/ (RunHandler /\ Sent /\ r = Head(ready).req)
<1>1. TypeOK
  BY DEF IInv
<1>2. PICK i \in 1..Len(ready) : ~IsRead(ready[i]) /\ ready[i].req = r
  BY DEF Queued
<1>3. CASE RunHandler
  <2>1. CASE i = 1
    <3>1. ~IsRead(Head(ready)) /\ Head(ready).req = r
      BY <1>1, <1>2, <1>3, <2>1, Shifted
    <3>2. ~Running("read")
      BY <3>1 DEF Running, IsRead
    <3>3. Sent
      BY <1>3, <3>2 DEF RunHandler, EndSentence, ShortLength, LongLength, ReservedLength,
                        RestOfLength, ReadWord, FailAssertion, ReadError, ReadAfterClose, ReadLength, ReadOk
    <3>4. QED
      BY <1>3, <3>1, <3>3
  <2>2. CASE i # 1
    <3>1. i - 1 \in 1..Len(ready') /\ ready'[i - 1] = ready[i]
      BY <1>1, <1>3, <2>2, Shifted
    <3>2. QED
      BY <1>2, <3>1 DEF Queued
  <2>3. QED
    BY <2>1, <2>2
<1>4. ASSUME NEW h, ready' = Append(ready, h)
      PROVE  Queued(r)'
  <2>1. i \in 1..Len(ready') /\ ready'[i] = ready[i]
    BY <1>1, <1>4, Put
  <2>2. QED
    BY <1>2, <2>1 DEF Queued
<1>5. CASE ready' = ready
  BY <1>2, <1>5 DEF Queued
<1>6. QED
  BY <1>3, <1>4, <1>5, Queue DEF Transmit

\* A callback goes from its tag only when it returns false or closes the session.
LEMMA Going ==
  ASSUME IInv, Next, NEW t \in Tags, callbacks[t] # 0, callbacks'[t] # callbacks[t], Live'
  PROVE  DroppedTag(t)'
<1>1. TypeOK /\ callbacks \in [Tags -> 0..MaxRequests]
  BY DEF IInv, TypeOK
<1>2. callbacks'[t] = 0
  BY Callbacks
<1>3. RunHandler /\ EndSentence
  <2>1. ~(RunHandler /\ Sent)
    <3>1. SUFFICES ASSUME Sent
                   PROVE  callbacks'[t] = callbacks[t]
      OBVIOUS
    <3>2. QED
      BY <1>1, <3>1 DEF Sent, Register
  <2>2. QED
    BY <2>1, Frame, EnvironmentTypes DEF Next
<1>4. PICK to, outcome :
        /\ Record(to, outcome)
        /\ Reaches(to, outcome) \/ (to = 0 /\ ReachesNone(outcome))
  BY <1>3, Response
<1> DEFINE u == Tag(answers[Len(handled) + 1].req)
<1>5. Reaches(to, outcome)
  BY <1>4 DEF ReachesNone
<1>6. callbacks' = AfterCall(u, outcome) /\ TagsOf(sentence) = {u}
  BY <1>5, AnswerIs DEF Reaches
<1>7. outcome = "dropped"
  BY <1>5, <1>6 DEF Reaches, AfterCall, Live, IsOpen
<1>8. t = u
  BY <1>1, <1>6 DEF AfterCall
<1>9. /\ Len(handled) + 1 \in 1..Len(handled')
      /\ handled'[Len(handled) + 1].outcome = "dropped"
      /\ handled'[Len(handled) + 1].words = sentence
  BY <1>1, <1>4, <1>7, Recorded
<1>10. TagsOf(handled'[Len(handled) + 1].words) = {t}
  BY <1>6, <1>8, <1>9
<1>11. QED
  BY <1>9, <1>10 DEF DroppedTag, TagsOf

LEMMA RegisteredStep ==
  ASSUME IInv, Next
  PROVE  Registered'
<1>1. /\ TypeOK /\ callbacks \in [Tags -> 0..MaxRequests] /\ MaxRequests \in Nat
      /\ requests \in Nat /\ requests' \in Nat /\ requests' <= MaxRequests
  BY TypesStep, ApiReaderAssumption DEF IInv, TypeOK
<1>2. SUFFICES ASSUME Live', NEW r \in 1..requests'
               PROVE  Queued(r)' \/ DroppedTag(Tag(r))' \/ callbacks'[Tag(r)] \in 1..r
  BY DEF Registered, Tag
<1>3. r \in Nat \ {0} /\ r \in Requests /\ Tag(r) \in Tags
  BY <1>1 DEF Requests, Tags
<1>4. Live
  BY <1>2, StaysClosed
<1>5. CASE r \in 1..requests
  <2>1. Queued(r) \/ DroppedTag(Tag(r)) \/ callbacks[Tag(r)] \in 1..r
    BY <1>4, <1>5 DEF IInv, Registered
  <2>2. CASE DroppedTag(Tag(r))
    BY <2>2, StaysHandled DEF Tag
  <2>3. CASE callbacks[Tag(r)] \in 1..r
    BY <1>2, <1>3, <2>3, Going DEF Tag
  <2>4. CASE Queued(r) /\ RunHandler /\ Sent /\ r = Head(ready).req
    <3>1. callbacks' = [callbacks EXCEPT ![Tag(r)] = IF @ = 0 THEN r ELSE @]
      BY <1>4, <2>4 DEF Sent, Register, Live
    <3>2. callbacks'[Tag(r)] = IF callbacks[Tag(r)] = 0 THEN r ELSE callbacks[Tag(r)]
      BY <1>1, <1>3, <3>1
    <3>3. ASSUME callbacks[Tag(r)] # 0
          PROVE  callbacks[Tag(r)] \in 1..r
      <4>1. callbacks[Tag(r)] \in Nat /\ Before(callbacks[Tag(r)])
        BY <1>1, <1>3, <3>3 DEF IInv, Kept
      <4>2. callbacks[Tag(r)] < r
        BY <2>4, <4>1, Completing
      <4>3. QED
        BY <1>3, <3>3, <4>1, <4>2
    <3>4. QED
      BY <1>3, <3>2, <3>3
  <2>5. CASE Queued(r) /\ ~(RunHandler /\ Sent /\ r = Head(ready).req)
    BY <2>5, QueuedStep
  <2>6. QED
    BY <2>1, <2>2, <2>3, <2>4, <2>5
<1>6. CASE r \notin 1..requests
  <2>1. Transmit
    BY <1>6, Frame
  <2>2. r = requests + 1
    BY <1>1, <1>2, <1>6, <2>1 DEF Transmit
  <2> DEFINE h == [kind |-> "sent", req |-> requests + 1]
  <2>3. ready' = Append(ready, h) /\ h.req = r /\ ~IsRead(h)
    BY <2>1, <2>2 DEF Transmit, IsRead
  <2> HIDE DEF h
  <2>4. Len(ready) + 1 \in 1..Len(ready') /\ ready'[Len(ready) + 1] = h
    BY <1>1, <2>3, Put
  <2>5. QED
    BY <2>3, <2>4 DEF Queued
<1>7. QED
  BY <1>5, <1>6

-----------------------------------------------------------------------------
(* Whom an answer reaches. *)

LEMMA SameRest ==
  ASSUME NEW n \in Nat \ {0}, NEW a \in Nat, NEW b \in Nat, a % n = b % n, a < b
  PROVE  b - a >= n
<1>1. a = n * (a \div n) + (a % n) /\ b = n * (b \div n) + (b % n)
  BY SMT
<1>2. a \div n \in Int /\ b \div n \in Int
  BY SMT
<1>3. n * (a \div n) < n * (b \div n)
  BY <1>1, <1>2, SMT
<1>4. (a \div n) + 1 <= b \div n
  BY <1>2, <1>3, SMT
<1>5. n * (b \div n) >= n * ((a \div n) + 1)
  BY <1>2, <1>4, SMT
<1>6. QED
  BY <1>1, <1>2, <1>5, SMT

\* Two requests of one tag are TagModulus apart, or more.
LEMMA SameTag ==
  ASSUME NEW q \in Nat \ {0}, NEW r \in Nat \ {0}, q < r, Tag(q) = Tag(r)
  PROVE  r - q >= TagModulus
<1>1. /\ q - 1 \in Nat /\ r - 1 \in Nat /\ q - 1 < r - 1 /\ TagModulus \in Nat \ {0}
      /\ (q - 1) % TagModulus = (r - 1) % TagModulus
  BY ApiReaderAssumption DEF Tag
<1>2. (r - 1) - (q - 1) >= TagModulus
  BY <1>1, SameRest
<1>3. QED
  BY <1>1, <1>2

\* An answer whose request's callback is not there, or is younger, finds that a
\* callback of its tag has returned false.
LEMMA Late ==
  ASSUME IInv, RunHandler, EndSentence,
         NEW r, r = answers[Len(handled) + 1].req, r \in Requests,
         callbacks[Tag(r)] \notin 1..r
  PROVE  \E j \in 1..Len(handled) :
           handled[j].outcome = "dropped" /\ TagsOf(handled[j].words) = TagsOf(sentence)
<1>1. /\ Live /\ r \in 1..requests /\ Before(r) /\ sentence \in AnswersTo(r)
      /\ requests \in Nat
  <2>1. requests \in Nat /\ r # 0
    BY ApiReaderAssumption DEF IInv, TypeOK, Requests
  <2>2. QED
    BY <2>1, Ending
<1>2. ~Queued(r)
  BY <1>1, ApiReaderAssumption DEF Queued, Before, Requests
<1>3. DroppedTag(Tag(r))
  BY <1>1, <1>2 DEF IInv, Registered
<1>4. TagsOf(sentence) = {Tag(r)}
  BY <1>1, AnswerIs
<1>5. QED
  BY <1>3, <1>4 DEF DroppedTag

LEMMA DroppedForGoodStep ==
  ASSUME IInv, Next
  PROVE  DroppedForGood'
<1>1. TypeOK /\ DroppedForGood /\ Ended /\ Len(handled) \in Nat
  BY Elements DEF IInv
<1>2. CASE ~(RunHandler /\ EndSentence)
  <2>1. handled' = handled
    BY <1>2, Frame, EnvironmentTypes DEF Next
  <2>2. QED
    BY <1>1, <2>1 DEF DroppedForGood
<1>3. CASE RunHandler /\ EndSentence
  <2>1. PICK to, outcome :
          /\ Record(to, outcome)
          /\ Reaches(to, outcome) \/ (to = 0 /\ ReachesNone(outcome))
    BY <1>3, Response
  <2>2. /\ handled'[Len(handled) + 1].to = to
        /\ \A i \in 1..Len(handled) : handled'[i] = handled[i]
        /\ \A i \in 1..Len(handled') : i \in 1..Len(handled) \/ i = Len(handled) + 1
    BY <1>1, <2>1, Recorded
  <2>3. ASSUME NEW i \in 1..Len(handled), to # 0, handled[i].to = to
        PROVE  handled[i].outcome = "kept"
    <3>1. Reaches(to, outcome)
      BY <2>1, <2>3
    <3>2. \E t \in Tags : callbacks[t] = to
      BY <3>1, AnswerIs DEF Reaches
    <3>3. QED
      BY <1>1, <2>3, <3>2 DEF Ended
  <2>4. ASSUME NEW i \in 1..Len(handled'), NEW j \in 1..Len(handled'), i < j,
               handled'[i].to # 0, handled'[i].to = handled'[j].to
        PROVE  handled'[i].outcome = "kept"
    <3>1. i \in 1..Len(handled)
      BY <1>1, <2>2, <2>4
    <3>2. CASE j \in 1..Len(handled)
      BY <1>1, <2>2, <2>4, <3>1, <3>2 DEF DroppedForGood
    <3>3. CASE j = Len(handled) + 1
      BY <2>2, <2>3, <2>4, <3>1, <3>3
    <3>4. QED
      BY <2>2, <3>2, <3>3
  <2>5. QED
    BY <2>4 DEF DroppedForGood
<1>4. QED
  BY <1>2, <1>3

\* A drop before a sentence stays one.
LEMMA DroppedBeforeStep ==
  ASSUME IInv, Next, NEW i \in 1..Len(handled), DroppedBefore(i)
  PROVE  DroppedBefore(i)'
<1>1. Len(handled) \in Nat /\ \A j \in 1..Len(handled) : handled'[j] = handled[j]
  BY Elements, StaysHandled DEF IInv
<1>2. PICK j \in 1..(i - 1) : /\ handled[j].outcome = "dropped"
                              /\ TagsOf(handled[j].words) = TagsOf(handled[i].words)
  BY DEF DroppedBefore
<1>3. j \in 1..Len(handled)
  BY <1>1
<1>4. handled'[j] = handled[j] /\ handled'[i] = handled[i]
  BY <1>1, <1>3
<1>5. /\ handled'[j].outcome = "dropped"
      /\ TagsOf(handled'[j].words) = TagsOf(handled'[i].words)
  BY <1>2, <1>4
<1>6. QED
  BY <1>5 DEF DroppedBefore, TagsOf

\* A drop of the sentence's tag in what has been handled is one before it.
LEMMA DroppedBeforeNow ==
  ASSUME IInv, RunHandler, EndSentence, NEW n, n = Len(handled) + 1,
         \E j \in 1..Len(handled) :
           handled[j].outcome = "dropped" /\ TagsOf(handled[j].words) = TagsOf(sentence)
  PROVE  DroppedBefore(n)'
<1>1. TypeOK /\ Len(handled) \in Nat /\ \A j \in 1..Len(handled) : handled'[j] = handled[j]
  BY Elements, StaysHandled DEF IInv, Next
<1>2. PICK to, outcome : Record(to, outcome)
  BY Response
<1>3. handled'[n].words = sentence
  BY <1>1, <1>2, Recorded
<1>4. PICK j \in 1..Len(handled) : /\ handled[j].outcome = "dropped"
                                   /\ TagsOf(handled[j].words) = TagsOf(sentence)
  OBVIOUS
<1>5. j \in 1..(n - 1) /\ handled'[j] = handled[j]
  BY <1>1
<1>6. /\ handled'[j].outcome = "dropped"
      /\ TagsOf(handled'[j].words) = TagsOf(handled'[n].words)
  BY <1>3, <1>4, <1>5
<1>7. QED
  BY <1>5, <1>6, Zenon DEF DroppedBefore, TagsOf

LEMMA RightCallbackStep ==
  ASSUME IInv, Next
  PROVE  RightCallback'
<1>1. /\ TypeOK /\ RightCallback /\ Whole /\ Len(handled) \in Nat /\ Len(answers) \in Nat
      /\ \A i \in 1..Len(handled) : handled'[i] = handled[i]
      /\ \A i \in 1..Len(answers) : answers'[i] = answers[i]
  BY Elements, StaysHandled, Sending DEF IInv
<1>2. SUFFICES ASSUME NEW i \in 1..Len(handled'), handled'[i].to \notin {0, answers'[i].req}
               PROVE  \/ answers'[i].req - handled'[i].to >= TagModulus
                      \/ /\ handled'[i].to - answers'[i].req >= TagModulus
                         /\ DroppedBefore(i)'
  BY DEF RightCallback, DroppedBefore, TagsOf
<1>3. CASE i \in 1..Len(handled)
  <2>1. handled'[i] = handled[i] /\ answers'[i] = answers[i]
    BY <1>1, <1>3 DEF Whole
  <2>2. QED
    BY <1>1, <1>2, <1>3, <2>1, DroppedBeforeStep DEF RightCallback
<1>4. CASE i \notin 1..Len(handled)
  <2>1. RunHandler /\ EndSentence
    BY <1>2, <1>4, Frame, EnvironmentTypes DEF Next
  <2>2. PICK to, outcome :
          /\ Record(to, outcome)
          /\ Reaches(to, outcome) \/ (to = 0 /\ ReachesNone(outcome))
    BY <2>1, Response
  <2>3. i = Len(handled) + 1 /\ handled'[i].to = to
    BY <1>1, <1>4, <2>2, Recorded
  <2>4. answers' = answers
    BY <2>1, Handling
  <2>5. PICK r : r = answers[i].req
    OBVIOUS
  <2>6. /\ Reaches(to, outcome) /\ to # r
        /\ r \in Requests /\ to = callbacks[Tag(r)]
    BY <1>2, <2>2, <2>3, <2>4, <2>5 DEF Reaches
  <2>7. r \in Nat \ {0} /\ to \in Nat \ {0} /\ Tag(to) = Tag(r) /\ TagModulus \in Nat
    BY <2>3, <2>5, <2>6, Reached, ApiReaderAssumption DEF Requests
  <2>8. CASE to < r
    BY <2>3, <2>4, <2>5, <2>7, <2>8, SameTag
  <2>9. CASE r < to
    <3>1. to - r >= TagModulus
      BY <2>7, <2>9, SameTag
    <3>2. to \notin 1..r
      BY <2>7, <2>9
    <3>3. \E j \in 1..Len(handled) : /\ handled[j].outcome = "dropped"
                                     /\ TagsOf(handled[j].words) = TagsOf(sentence)
      BY <2>1, <2>3, <2>5, <2>6, <3>2, Late
    <3>4. DroppedBefore(i)'
      BY <2>1, <2>3, <3>3, DroppedBeforeNow
    <3>5. QED
      BY <2>3, <2>4, <2>5, <3>1, <3>4
  <2>10. QED
    BY <2>6, <2>7, <2>8, <2>9
<1>5. QED
  BY <1>3, <1>4

LEMMA ClosesStep ==
  ASSUME IInv, Next
  PROVE  ClosesForAReason'
<1> DEFINE Why(n) == \/ handled[n].outcome = "closing"
                     \/ handled[n].outcome = "refused" /\ answers[n].words \in OddSentences
                     \/ handled[n].outcome = "refused" /\ DroppedBefore(n)
<1>1. /\ TypeOK /\ ClosesForAReason /\ Whole /\ Len(handled) \in Nat /\ Len(answers) \in Nat
      /\ faults \subseteq faults'
      /\ \A i \in 1..Len(handled) : i \in 1..Len(handled') /\ handled'[i] = handled[i]
      /\ \A i \in 1..Len(answers) : answers'[i] = answers[i]
  BY Elements, StaysHandled, Sending, Frame DEF IInv
<1>2. SUFFICES ASSUME ~IsOpen'
               PROVE  faults' # {} \/ \E i \in 1..Len(handled') : Why(i)'
  BY DEF ClosesForAReason, DroppedBefore, TagsOf
<1>3. CASE ~IsOpen
  <2>1. CASE faults # {}
    BY <1>1, <2>1
  <2>2. CASE faults = {}
    <3>1. PICK i \in 1..Len(handled) : Why(i)
      BY <1>1, <1>3, <2>2 DEF ClosesForAReason
    <3>2. /\ i \in 1..Len(handled') /\ handled'[i] = handled[i] /\ answers'[i] = answers[i]
          /\ DroppedBefore(i) => DroppedBefore(i)'
      BY <1>1, DroppedBeforeStep DEF Whole
    <3>3. QED
      BY <3>1, <3>2
  <2>3. QED
    BY <2>1, <2>2
<1>4. CASE IsOpen /\ RunHandler /\ EndSentence
  <2>1. PICK to, outcome :
          /\ Record(to, outcome)
          /\ Reaches(to, outcome) \/ (to = 0 /\ ReachesNone(outcome))
    BY <1>4, Response
  <2>2. PICK n : n = Len(handled) + 1
    OBVIOUS
  <2>3. n \in 1..Len(handled') /\ handled'[n].outcome = outcome
    BY <1>1, <2>1, <2>2, Recorded
  <2>4. ~socket' /\ answers' = answers
    BY <1>2, <1>4, AfterSentence, Handling
  <2>5. CASE Reaches(to, outcome)
    <3>1. outcome = "closing"
      BY <2>4, <2>5 DEF Reaches
    <3>2. QED
      BY <2>3, <3>1
  <2>6. CASE ReachesNone(outcome)
    <3>1. outcome = "refused" /\ Refused(sentence)
      BY <2>4, <2>6 DEF ReachesNone
    <3>2. answers[n].words = sentence
      BY <1>4, <2>2, Ending
    <3>3. CASE sentence \in OddSentences
      BY <2>3, <2>4, <3>1, <3>2, <3>3
    <3>4. CASE sentence \notin OddSentences
      <4>1. PICK r : r = answers[n].req
        OBVIOUS
      <4>2. r \in Requests /\ sentence \in AnswersTo(r)
        BY <1>4, <2>2, <3>1, <3>4, <4>1, Ending, OtherIs DEF Refused
      <4>3. callbacks[Tag(r)] = 0
        BY <3>1, <4>2, AnswerIs DEF Refused, HasCallback
      <4>4. \E j \in 1..Len(handled) : /\ handled[j].outcome = "dropped"
                                       /\ TagsOf(handled[j].words) = TagsOf(sentence)
        BY <1>4, <2>2, <4>1, <4>2, <4>3, Late
      <4>5. DroppedBefore(n)'
        BY <1>4, <2>2, <4>4, DroppedBeforeNow
      <4>6. QED
        BY <2>3, <3>1, <4>5
    <3>5. QED
      BY <3>3, <3>4
  <2>7. QED
    BY <2>1, <2>5, <2>6
<1>5. CASE IsOpen /\ RunHandler /\ ~EndSentence
  <2>1. faults' = faults
    BY <1>5, Handling
  <2>2. CASE ReservedLength
    <3>1. faults # {}
      BY <1>5, <2>2, Found DEF ReservedLength
    <3>2. QED
      BY <2>1, <3>1
  <2>3. CASE ReadError
    <3>1. 1 \in 1..Len(ready) /\ IsRead(ready[1]) /\ ~ready[1].ok
      BY <1>1, <1>5, <2>3, Shifted DEF ReadError, Running, IsRead
    <3>2. QED
      BY <2>1, <3>1 DEF IInv, Reasons
  <2>4. CASE ~ReservedLength /\ ~ReadError
    <3>1. IsOpen'
      <4>0. CASE FailAssertion
        BY <1>5, <4>0 DEF FailAssertion, IsOpen
      <4>1. CASE ShortLength \/ LongLength \/ ReadAfterClose \/ Sent \/ ReadWord
        BY <1>5, <4>1 DEF ShortLength, LongLength, ReadAfterClose, Sent, ReadWord,
                          ReadNextWord, IsOpen
      <4>2. CASE RestOfLength
        BY <1>5, <4>2 DEF RestOfLength, IsOpen
      <4>3. QED
        BY <1>5, <2>4, <4>1, <4>2, <4>0 DEF RunHandler
    <3>2. QED
      BY <1>2, <3>1
  <2>5. QED
    BY <2>2, <2>3, <2>4
<1>6. CASE IsOpen /\ Environment
  <2>1. CASE CloseApi
    BY <2>1 DEF CloseApi
  <2>2. CASE ~CloseApi
    <3>1. UNCHANGED <<state, socket>>
      BY <1>6, <2>2 DEF Environment, Transmit, RouterAnswers, RouterSends, RouterReserved,
                        ReadCompletes, ReadFails
    <3>2. QED
      BY <1>2, <1>6, <3>1 DEF IsOpen
  <2>3. QED
    BY <2>1, <2>2
<1>7. QED
  BY <1>3, <1>4, <1>5, <1>6 DEF Next

-----------------------------------------------------------------------------
(* The assertions. *)

\* A length whose rest does not fit the buffer is of a long word.
LEMMA LongWord ==
  ASSUME TypeOK, InWord, LengthHere[1] >= 128,
         ReadMore(LengthHere[1]).size # ReadMore(LengthHere[1]).more
  PROVE  WordAt(Here(1)).size >= LongSize
<1> DEFINE n == WordAt(Here(1)).size
           b == LengthHere[1]
<1>1. n \in 0..(MaxLength - 1) /\ LengthHere = LengthOf(n)
  BY TheWord
<1>2. b \in Nat /\ b < 240 /\ b >= 128
  BY TheWord
<1> HIDE DEF n
<1>3. b >= 192 => n >= LongSize
  BY <1>1, Lengths, Zenon
<1> HIDE DEF b
<1>4. ReadMore(b).size # ReadMore(b).more
  BY DEF b
<1>5. b < 192 => MoreBytes(b) = 1
  BY <1>2, SMT DEF MoreBytes
<1>6. MoreBytes(b) # 1
  BY <1>4 DEF ReadMore, BufferSize
<1>7. QED
  BY <1>2, <1>3, <1>5, <1>6 DEF n

\* A word that has been read is of the sentence that is next.
LEMMA OfNext ==
  ASSUME TypeOK, InWord
  PROVE  /\ Len(handled) < Len(answers)
         /\ \E i \in DOMAIN answers[Len(handled) + 1].words :
              answers[Len(handled) + 1].words[i] = WordAt(Here(1))
<1> DEFINE words == answers[Len(handled) + 1].words
<1>1. Len(handled) < Len(answers) /\ Len(sentence) < Len(words)
  BY DEF InWord
<1>2. Len(handled) + 1 \in 1..Len(answers) /\ Len(sentence) \in Nat
  BY <1>1, Elements
<1>3. words \in Seq(Word)
  BY <1>2, Elements
<1>4. WordAt(Here(1)) = words[Len(sentence) + 1]
  BY DEF WordAt, Here
<1> HIDE DEF words
<1>5. Len(sentence) + 1 \in DOMAIN words
  BY <1>1, <1>2, <1>3
<1>6. QED
  BY <1>1, <1>4, <1>5 DEF words

LEMMA AssertsStep ==
  ASSUME IInv, Next
  PROVE  AssertsForAReason'
<1>1. SUFFICES ASSUME aborted' PROVE AssertsForAReason'
  BY DEF AssertsForAReason
<1>2. TypeOK /\ ~aborted
  BY Frame DEF IInv
<1>3. RunHandler /\ (FailAssertion \/ RestOfLength)
  <2>1. RunHandler
    BY <1>1, <1>2 DEF Next, Environment, Transmit, RouterAnswers, RouterSends,
                      RouterReserved, ReadCompletes, ReadFails, CloseApi
  <2>2. QED
    BY <1>1, <1>2, <2>1 DEF RunHandler, EndSentence, ShortLength, LongLength, ReservedLength,
                            ReadWord, ReadError, ReadAfterClose, Sent
<1>4. handled' = handled /\ answers' = answers
  BY <1>3, Handling DEF FailAssertion, RestOfLength
<1> DEFINE words == answers[Len(handled) + 1].words
           Why == \/ TaggedTwice(words)
                  \/ \E i \in DOMAIN words : words[i].size = 0 \/ words[i].size >= LongSize
<1>5. Len(handled) < Len(answers) /\ Why
  <2>1. CASE FailAssertion /\ ReadLength /\ FByte = 0 /\ TaggedTwice(sentence)
    <3>1. GotEnd(Head(ready))
      BY <1>3, <2>1, Found
    <3>2. QED
      BY <2>1, <3>1 DEF GotEnd
  <2>2. CASE ReadOk("read") /\ Head(ready).item.size = 0
    <3>1. Live /\ ready \in Seq(Handler) /\ ready # <<>>
      BY <1>2, <2>2 DEF TypeOK, ReadOk, Running, Live
    <3>2. /\ 1 \in 1..Len(ready) /\ IsRead(ready[1]) /\ ready[1].ok
          /\ ready[1].item.size = 0
      BY <2>2, <3>1, TailFacts DEF ReadOk, Running, IsRead
    <3>3. GotWord(ready[1])
      BY <3>1, <3>2, Brought DEF GotReserved, GotEnd, GotFirst, GotSecond, ByteItem
    <3>4. InWord /\ WordAt(Here(1)).size = 0
      BY <3>2, <3>3 DEF GotWord, WordItem
    <3>5. QED
      BY <1>2, <3>4, OfNext
  <2>3. CASE RestOfLength
    <3>1. GotSecond(Head(ready))
      BY <1>3, <2>3, Found DEF RestOfLength
    <3>2. InWord /\ LengthHere[1] >= 128 /\ Head(ready).read = ReadMore(LengthHere[1])
      BY <3>1 DEF GotSecond
    <3>3. Head(ready).read.size # Head(ready).read.more
      BY <1>1, <1>2, <2>3 DEF RestOfLength
    <3>4. WordAt(Here(1)).size >= LongSize
      BY <1>2, <3>2, <3>3, LongWord
    <3>5. QED
      BY <1>2, <3>2, <3>4, OfNext
  <2>4. QED
    BY <1>3, <2>1, <2>2, <2>3 DEF FailAssertion
<1>6. QED
  BY <1>4, <1>5 DEF AssertsForAReason, TaggedTwice, IsValid

-----------------------------------------------------------------------------
(* The place that is read. *)

\* The router's sentences that follow change nothing of what is being read.
LEMMA SamePlaces ==
  ASSUME IInv, Next, UNCHANGED <<handled, sentence>>
  PROVE  /\ \A b : Here(b)' = Here(b)
         /\ Len(handled) < Len(answers) =>
              /\ Len(handled') < Len(answers')
              /\ answers'[Len(handled) + 1] = answers[Len(handled) + 1]
              /\ \A b : ItemAt(Here(b))' = ItemAt(Here(b)) /\ After(Here(b))' = After(Here(b))
              /\ (Len(sentence) < Len(answers[Len(handled) + 1].words) => InWord')
              /\ LengthHere' = LengthHere /\ WordAt(Here(1))' = WordAt(Here(1))
<1>1. /\ TypeOK /\ Len(answers) \in Nat /\ Len(handled) \in Nat
      /\ Len(answers') \in Nat /\ Len(answers) <= Len(answers')
      /\ \A i \in 1..Len(answers) : answers'[i] = answers[i]
  BY Elements, Sending DEF IInv
<1>2. \A b : Here(b)' = Here(b)
  BY DEF Here
<1>3. ASSUME Len(handled) < Len(answers)
      PROVE  /\ Len(handled') < Len(answers')
             /\ answers'[Len(handled) + 1] = answers[Len(handled) + 1]
  <2>1. Len(handled) + 1 \in 1..Len(answers)
    BY <1>1, <1>3
  <2>2. QED
    BY <1>1, <1>3, <2>1
<1>4. ASSUME Len(handled) < Len(answers), NEW p, p.sentence = Len(handled) + 1
      PROVE  /\ WordAt(p)' = WordAt(p) /\ LengthAt(p)' = LengthAt(p)
             /\ ItemAt(p)' = ItemAt(p) /\ After(p)' = After(p)
  <2>1. answers'[p.sentence] = answers[p.sentence]
    BY <1>3, <1>4
  <2>2. WordAt(p)' = WordAt(p)
    BY <2>1 DEF WordAt
  <2>3. LengthAt(p)' = LengthAt(p)
    BY <2>2 DEF LengthAt
  <2>4. AtEnd(p)' = AtEnd(p) /\ AtContents(p)' = AtContents(p)
    BY <2>1, <2>3 DEF AtEnd, AtContents
  <2>5. QED
    BY <2>2, <2>3, <2>4 DEF ItemAt, After
<1>5. ASSUME Len(handled) < Len(answers)
      PROVE  \A b : /\ ItemAt(Here(b))' = ItemAt(Here(b)) /\ After(Here(b))' = After(Here(b))
                    /\ WordAt(Here(b))' = WordAt(Here(b)) /\ LengthAt(Here(b))' = LengthAt(Here(b))
  <2>1. TAKE b
  <2>2. PICK p : p = Here(b)
    OBVIOUS
  <2>3. p.sentence = Len(handled) + 1 /\ Here(b)' = p
    BY <1>2, <2>2 DEF Here
  <2>4. /\ WordAt(p)' = WordAt(p) /\ LengthAt(p)' = LengthAt(p)
        /\ ItemAt(p)' = ItemAt(p) /\ After(p)' = After(p)
    BY <1>4, <1>5, <2>3
  <2>5. QED
    BY <2>2, <2>3, <2>4 DEF WordAt, LengthAt, ItemAt, After, AtEnd, AtContents
<1>6. QED
  BY <1>2, <1>3, <1>5 DEF InWord, LengthHere

LEMMA StillReadsAt ==
  ASSUME IInv, Next, UNCHANGED <<state, handled, sentence>>,
         NEW r, NEW p, ReadsAt(r, p)
  PROVE  ReadsAt(r, p)'
<1>1. \A b : Here(b)' = Here(b)
  BY SamePlaces
<1>2. InWord =>
        InWord' /\ LengthHere' = LengthHere /\ WordAt(Here(1))' = WordAt(Here(1))
  BY SamePlaces DEF InWord
<1>3. CASE state = "reading_length" /\ r = ReadNext(1) /\ p = Here(1)
  BY <1>1, <1>3 DEF ReadsAt
<1>4. CASE /\ state = "reading_length" /\ InWord /\ LengthHere[1] >= 128
           /\ r = ReadMore(LengthHere[1]) /\ p = Here(2)
  BY <1>1, <1>2, <1>4 DEF ReadsAt
<1>5. CASE /\ state = "reading_word" /\ InWord /\ r = ReadNext(WordAt(Here(1)).size)
           /\ p = Here(Len(LengthHere) + 1)
  BY <1>1, <1>2, <1>5 DEF ReadsAt
<1>6. QED
  BY <1>3, <1>4, <1>5 DEF ReadsAt

\* A completed read stays so, while the queue before and after it moves.
LEMMA StillGot ==
  ASSUME IInv, Next, UNCHANGED <<state, handled, sentence, next>>, Live,
         NEW i \in 1..Len(ready), IsRead(ready[i]), ready[i].ok,
         NEW k \in 1..Len(ready'), ready'[k] = ready[i],
         \A m \in 1..Len(ready') : k < m /\ ~IsRead(ready'[m]) =>
           \/ \E n \in 1..Len(ready) : i < n /\ ready'[m] = ready[n]
           \/ ready'[m].req = requests + 1
  PROVE  \/ GotReserved(ready[k])'
         \/ (\E b \in 1..5 : Got(ready[k], Here(b)))' /\ SentAfter(k)'
<1>1. TypeOK /\ faults \subseteq faults' /\ requests \in Nat
  BY Frame, ApiReaderAssumption DEF IInv, TypeOK
<1>2. CASE GotReserved(ready[i])
  BY <1>1, <1>2 DEF GotReserved
<1>3. CASE ~GotReserved(ready[i])
  <2>1. PICK b \in 1..5 : Got(ready[i], Here(b))
    BY <1>3 DEF IInv, Aligned
  <2>2. SentAfter(i)
    BY <1>3 DEF IInv, Aligned
  <2>3. PICK p : p = Here(b)
    OBVIOUS
  <2>4. PICK h : h = ready[i]
    OBVIOUS
  <2>5. /\ Len(handled) < Len(answers) /\ Len(handled) \in Nat /\ Len(answers) \in Nat
        /\ Len(handled) + 1 \in 1..Len(answers)
    BY <1>1, <2>1, Elements DEF Got, Here
  <2>6. Here(b)' = p /\ ItemAt(p)' = ItemAt(p) /\ After(p)' = After(p)
    BY <2>3, <2>5, SamePlaces DEF ItemAt, After, AtEnd, AtContents, LengthAt, WordAt
  <2>7. ReadsAt(h.read, p)'
    BY <2>1, <2>3, <2>4, StillReadsAt DEF Got
  <2>8. p.sentence <= Len(answers')
    BY <2>3, <2>5, Sending, <1>1 DEF Here
  <2>9. Got(h, p)'
    BY <2>1, <2>3, <2>4, <2>6, <2>7, <2>8 DEF Got
  <2>10. (\E b_1 \in 1..5 : Got(ready[k], Here(b_1)))'
    BY <2>4, <2>6, <2>9 DEF Got, ReadsAt
  <2>11. SentAfter(k)'
    <3>1. answers'[Len(handled') + 1] = answers[Len(handled) + 1]
      BY <2>5, SamePlaces
    <3>2. answers[Len(handled) + 1].req < requests + 1
      <4>1. answers[Len(handled) + 1].req = 0 \/ answers[Len(handled) + 1].req \in 1..requests
        BY <2>5 DEF IInv, Answered
      <4>2. QED
        BY <1>1, <4>1
    <3>3. ASSUME NEW m \in 1..Len(ready'), k < m, ~IsRead(ready'[m])
          PROVE  answers[Len(handled) + 1].req < ready'[m].req
      <4>1. CASE ready'[m].req = requests + 1
        BY <3>2, <4>1
      <4>2. CASE \E n \in 1..Len(ready) : i < n /\ ready'[m] = ready[n]
        BY <2>2, <3>3, <4>2 DEF SentAfter
      <4>3. QED
        BY <3>3, <4>1, <4>2
    <3>4. QED
      BY <3>1, <3>3 DEF SentAfter
  <2>12. QED
    BY <2>10, <2>11
<1>4. QED
  BY <1>2, <1>3

\* The read that a handler starts is of the place that comes next.
LEMMA StartsAligned ==
  ASSUME IInv, RunHandler, Running("read"), Live',
         NEW r, r = pending', NEW p, p = next'
  PROVE  ReadsAt(r, p)'
<1>1. TypeOK /\ Len(handled) \in Nat /\ Len(sentence) \in Nat /\ Next
      /\ sentence \in Seq(Word) /\ p = next
  BY Elements, Handling DEF IInv, Next
<1>2. Live
  BY <1>1, StaysClosed
<1>3. CASE EndSentence
  <2>1. next = StartOf(Len(handled) + 2)
    BY <1>3, Ending
  <2>2. state' = "reading_length" /\ r = ReadNext(1) /\ sentence' = <<>>
    BY <1>3, AfterSentence DEF Live
  <2>3. Len(handled') = Len(handled) + 1
    BY <1>1, <1>3, Response, Recorded
  <2>4. Here(1)' = p
    BY <1>1, <2>1, <2>2, <2>3 DEF Here, StartOf
  <2>5. QED
    BY <2>2, <2>4 DEF ReadsAt
<1>4. CASE ShortLength
  <2>1. GotFirst(Head(ready)) /\ Len(LengthHere) = 1 /\ r = ReadNext(WordAt(Here(1)).size)
    BY <1>4, NextReads
  <2>2. InWord /\ next = Here(2)
    BY <2>1 DEF GotFirst
  <2>3. UNCHANGED <<handled, sentence>> /\ state' = "reading_word"
    BY <1>4 DEF ShortLength
  <2>4. /\ InWord' /\ LengthHere' = LengthHere /\ WordAt(Here(1))' = WordAt(Here(1))
        /\ Here(2)' = Here(2)
    BY <1>1, <2>2, <2>3, SamePlaces DEF InWord
  <2>5. PICK n : n = Len(LengthHere')
    OBVIOUS
  <2>6. n = 1
    BY <2>1, <2>4, <2>5, Zenon
  <2>7. n + 1 = 2
    BY <2>6
  <2>8. Here(Len(LengthHere) + 1)' = p
    BY <1>1, <2>2, <2>4, <2>5, <2>7, Zenon DEF Here
  <2>9. QED
    BY <2>1, <2>3, <2>4, <2>8 DEF ReadsAt
<1>5. CASE LongLength
  <2>1. GotFirst(Head(ready)) /\ LengthHere[1] >= 128 /\ r = ReadMore(LengthHere[1])
    BY <1>5, NextReads
  <2>2. InWord /\ next = Here(2) /\ state = "reading_length"
    BY <2>1 DEF GotFirst
  <2>3. UNCHANGED <<handled, sentence, state>>
    BY <1>5 DEF LongLength
  <2>4. InWord' /\ LengthHere' = LengthHere /\ Here(2)' = Here(2)
    BY <1>1, <2>2, <2>3, SamePlaces DEF InWord
  <2>5. QED
    BY <1>1, <2>1, <2>2, <2>3, <2>4 DEF ReadsAt
<1>6. CASE RestOfLength
  <2>1. /\ GotSecond(Head(ready)) /\ Len(LengthHere) = 2
        /\ state' = "reading_word" /\ r = ReadNext(WordAt(Here(1)).size)
    BY <1>6, NextReads DEF Live
  <2>2. InWord /\ next = Here(3)
    BY <2>1 DEF GotSecond
  <2>3. UNCHANGED <<handled, sentence>>
    BY <1>6 DEF RestOfLength
  <2>4. /\ InWord' /\ LengthHere' = LengthHere /\ WordAt(Here(1))' = WordAt(Here(1))
        /\ Here(3)' = Here(3)
    BY <1>1, <2>2, <2>3, SamePlaces DEF InWord
  <2>5. PICK n : n = Len(LengthHere')
    OBVIOUS
  <2>6. n = 2
    BY <2>1, <2>4, <2>5, Zenon
  <2>7. n + 1 = 3
    BY <2>6
  <2>8. Here(Len(LengthHere) + 1)' = p
    BY <1>1, <2>2, <2>4, <2>5, <2>7, Zenon DEF Here
  <2>9. QED
    BY <2>1, <2>3, <2>4, <2>8 DEF ReadsAt
<1>7. CASE ReadWord
  <2>1. next = [sentence |-> Len(handled) + 1, word |-> Len(sentence) + 2, byte |-> 1]
    BY <1>7, Found DEF ReadWord, GotWord
  <2>2. handled' = handled /\ state' = "reading_length" /\ r = ReadNext(1)
    BY <1>7 DEF ReadWord, ReadNextWord
  <2>3. Len(sentence') = Len(sentence) + 1
    BY <1>1, <1>7 DEF ReadWord
  <2>4. Here(1)' = p
    BY <1>1, <2>1, <2>2, <2>3 DEF Here
  <2>5. QED
    BY <2>2, <2>4 DEF ReadsAt
<1>8. ~ReservedLength /\ ~ReadError /\ ~ReadAfterClose /\ ~Sent
  BY <1>2 DEF ReservedLength, ReadError, OnError, ReadAfterClose, Sent, Running, Live, IsOpen
<1>9. ~FailAssertion
  BY DEF FailAssertion, Live
<1>10. QED
  BY <1>3, <1>4, <1>5, <1>6, <1>7, <1>8, <1>9 DEF RunHandler

\* A read that completes gets what stands at the place that it is of.
LEMMA Gets ==
  ASSUME IInv, Environment, ReadCompletes, Live, NEW k, k = Len(ready) + 1
  PROVE  /\ IsRead(ready'[k]) /\ UNCHANGED <<state, handled, sentence, answers>>
         /\ \/ GotReserved(ready[k])'
            \/ (\E b \in 1..5 : Got(ready[k], Here(b)))'
<1>1. TypeOK /\ Len(ready) \in Nat /\ Len(handled) \in Nat /\ Len(answers) \in Nat /\ Next
  BY Elements DEF IInv, Next
<1>2. /\ pending # NoRead /\ UNCHANGED <<state, handled, sentence, answers, faults>>
  BY DEF ReadCompletes
<1>3. ReadsAt(pending, next)
  BY <1>2 DEF IInv, Aligned
<1>4. CASE AtReserved
  <2>1. /\ Complete(ByteItem(248)) /\ faults # {} /\ next.byte = 1
    BY <1>4 DEF ReadCompletes, AtReserved, IInv, Reasons, StartOf
  <2>2. state = "reading_length" /\ pending = ReadNext(1)
    <3>1. \A b : Here(b).byte = b
      BY DEF Here
    <3>2. InWord => Len(LengthHere) + 1 # 1
      BY <1>1, TheWord
    <3>3. QED
      BY <1>3, <2>1, <3>1, <3>2 DEF ReadsAt
  <2>3. ByteItem(248).size = pending.size
    BY <2>2 DEF ByteItem, ReadNext
  <2> DEFINE h == [kind |-> "read", read |-> pending, ok |-> TRUE, item |-> ByteItem(248)]
  <2>4. ready' = Append(ready, h)
    BY <2>1, <2>3 DEF Complete
  <2>5. h.kind = "read" /\ h.read = pending /\ h.item = ByteItem(248)
    OBVIOUS
  <2> HIDE DEF h
  <2>6. ready'[k] = h
    BY <1>1, <2>4, Put
  <2>7. QED
    BY <1>2, <2>1, <2>2, <2>5, <2>6 DEF GotReserved, IsRead
<1>5. CASE ~AtReserved
  <2>1. /\ next.sentence <= Len(answers) /\ Complete(ItemAt(next)) /\ next' = After(next)
    BY <1>5 DEF ReadCompletes
  <2>2. ItemAt(next).size = pending.size
    BY <1>3, <2>1, Items
  <2> DEFINE h == [kind |-> "read", read |-> pending, ok |-> TRUE, item |-> ItemAt(next)]
  <2>3. ready' = Append(ready, h)
    BY <2>1, <2>2 DEF Complete
  <2>4. h.kind = "read" /\ h.read = pending /\ h.item = ItemAt(next)
    OBVIOUS
  <2> HIDE DEF h
  <2>5. ready'[k] = h
    BY <1>1, <2>3, Put
  <2>6. PICK b \in 1..5 : next = Here(b)
    <3>1. InWord => Len(LengthHere) + 1 \in 1..5
      <4>1. InWord => Len(LengthHere) \in 1..4
        BY <1>1, TheWord
      <4>2. \A n \in 1..4 : n + 1 \in 1..5
        OBVIOUS
      <4>3. QED
        BY <4>1, <4>2, Zenon
    <3>2. 1 \in 1..5 /\ 2 \in 1..5
      OBVIOUS
    <3>3. QED
      BY <1>3, <3>1, <3>2 DEF ReadsAt
  <2>7. PICK p, r, g : p = next /\ r = pending /\ g = h
    OBVIOUS
  <2>8. ReadsAt(r, p)'
    BY <1>1, <1>2, <1>3, <2>7, StillReadsAt
  <2>9. Here(b)' = p /\ ItemAt(p)' = ItemAt(p) /\ After(p)' = After(p)
    <3>1. answers' = answers
      BY <1>2
    <3>2. Here(b)' = p
      BY <1>2, <2>6, <2>7 DEF Here
    <3>3. QED
      BY <3>1, <3>2 DEF ItemAt, After, AtEnd, AtContents, LengthAt, WordAt
  <2>10. Got(g, p)'
    BY <1>2, <2>1, <2>4, <2>7, <2>8, <2>9 DEF Got
  <2>11. (\E b_1 \in 1..5 : Got(ready[k], Here(b_1)))'
    BY <2>5, <2>7, <2>9, <2>10 DEF Got, ReadsAt
  <2>12. QED
    BY <1>2, <2>4, <2>5, <2>11 DEF IsRead
<1>6. QED
  BY <1>4, <1>5

LEMMA NextAligned ==
  ASSUME IInv, Next, Live', NEW r, r = pending', r # NoRead, NEW p, p = next'
  PROVE  ReadsAt(r, p)'
<1>1. Live
  BY StaysClosed
<1>2. CASE UNCHANGED <<state, handled, sentence, pending, next>>
  <2>1. ReadsAt(r, p)
    BY <1>1, <1>2 DEF IInv, Aligned
  <2>2. QED
    BY <1>2, <2>1, StillReadsAt
<1>3. CASE RunHandler
  <2>1. CASE Running("read")
    BY <1>3, <2>1, StartsAligned
  <2>2. CASE ~Running("read")
    <3>1. Sent
      BY <1>3, <2>2 DEF RunHandler, EndSentence, ShortLength, LongLength, ReservedLength,
                        RestOfLength, ReadWord, FailAssertion, ReadError, ReadAfterClose, ReadLength, ReadOk
    <3>2. QED
      BY <1>2, <3>1 DEF Sent, stream
  <2>3. QED
    BY <2>1, <2>2
<1>4. CASE Environment
  <2>1. CASE ReadCompletes \/ ReadFails \/ CloseApi
    <3>1. pending' = NoRead
      BY <2>1 DEF ReadCompletes, Complete, ReadFails, CloseApi, OnError
    <3>2. QED
      BY <3>1
  <2>2. CASE Transmit \/ RouterAnswers \/ RouterReserved
    BY <1>2, <2>2 DEF Transmit, RouterAnswers, RouterSends, RouterReserved, stream
  <2>3. QED
    BY <1>4, <2>1, <2>2 DEF Environment
<1>5. QED
  BY <1>3, <1>4 DEF Next

LEMMA GotAligned ==
  ASSUME IInv, Next, Live', NEW k \in 1..Len(ready'), IsRead(ready'[k]), ready'[k].ok
  PROVE  \/ GotReserved(ready[k])'
         \/ (\E b \in 1..5 : Got(ready[k], Here(b)))' /\ SentAfter(k)'
<1>1. TypeOK /\ Len(ready) \in Nat /\ Live
  BY Elements, StaysClosed DEF IInv
<1>2. CASE RunHandler
  <2>1. ~Running("read")
    BY <1>2, Taken, Handling
  <2>2. Sent
    BY <1>2, <2>1 DEF RunHandler, EndSentence, ShortLength, LongLength, ReservedLength,
                      RestOfLength, ReadWord, FailAssertion, ReadError, ReadAfterClose, ReadLength, ReadOk
  <2>3. UNCHANGED <<state, handled, sentence, next>>
    BY <2>2 DEF Sent, stream
  <2>4. \A m \in 1..Len(ready') : m \in Nat /\ m + 1 \in 1..Len(ready) /\ ready'[m] = ready[m + 1]
    BY <1>1, <1>2, Shifted
  <2>5. PICK i \in 1..Len(ready) : i = k + 1
    BY <2>4
  <2>6. \A m \in 1..Len(ready') : k < m => \E n \in 1..Len(ready) : i < n /\ ready'[m] = ready[n]
    <3>1. \A m \in 1..Len(ready') : k < m => k + 1 < m + 1
      BY <2>4
    <3>2. QED
      BY <2>4, <2>5, <3>1
  <2>7. ready'[k] = ready[i]
    BY <2>4, <2>5
  <2>8. QED
    BY <1>1, <2>3, <2>6, <2>7, StillGot
<1>3. CASE Transmit
  <2> DEFINE h == [kind |-> "sent", req |-> requests + 1]
  <2>1. ready' = Append(ready, h) /\ h.req = requests + 1 /\ ~IsRead(h)
    BY <1>3 DEF Transmit, IsRead
  <2> HIDE DEF h
  <2>2. /\ ready'[Len(ready) + 1] = h
        /\ \A i \in 1..Len(ready) : ready'[i] = ready[i]
        /\ \A i \in 1..Len(ready') : i \in 1..Len(ready) \/ i = Len(ready) + 1
    BY <1>1, <2>1, Put
  <2>3. k \in 1..Len(ready) /\ ready'[k] = ready[k]
    BY <2>1, <2>2
  <2>4. \A m \in 1..Len(ready') : k < m =>
          \/ \E n \in 1..Len(ready) : k < n /\ ready'[m] = ready[n]
          \/ ready'[m].req = requests + 1
    BY <2>1, <2>2
  <2>5. UNCHANGED <<state, handled, sentence, next>>
    BY <1>3 DEF Transmit, stream
  <2>6. QED
    BY <1>1, <2>3, <2>4, <2>5, StillGot
<1>4. CASE RouterAnswers \/ RouterReserved
  <2>1. ready' = ready /\ UNCHANGED <<state, handled, sentence, next>>
    BY <1>4 DEF RouterAnswers, RouterSends, RouterReserved
  <2>2. \A m \in 1..Len(ready') : k < m => \E n \in 1..Len(ready) : k < n /\ ready'[m] = ready[n]
    BY <2>1
  <2>3. QED
    BY <1>1, <2>1, <2>2, StillGot
<1>5. ASSUME NEW h, pending # NoRead, ready' = Append(ready, h)
      PROVE  k = Len(ready) + 1 /\ ready'[k] = h
  <2>1. /\ ready'[Len(ready) + 1] = h
        /\ \A i \in 1..Len(ready) : ready'[i] = ready[i]
        /\ \A i \in 1..Len(ready') : i \in 1..Len(ready) \/ i = Len(ready) + 1
    BY <1>1, <1>5, Put
  <2>2. QED
    BY <1>5, <2>1 DEF IInv, Reads
<1>6. CASE ReadCompletes /\ Environment
  <2>1. PICK h : pending # NoRead /\ ready' = Append(ready, h)
    BY <1>6 DEF ReadCompletes, Complete
  <2>2. k = Len(ready) + 1
    BY <1>5, <2>1
  <2>3. GotReserved(ready[k])' \/ (\E b \in 1..5 : Got(ready[k], Here(b)))'
    BY <1>1, <1>6, <2>2, Gets
  <2>4. \A m \in 1..Len(ready') : ~(k < m)
    <3>1. \A m \in 1..Len(ready') : m \in 1..Len(ready) \/ m = Len(ready) + 1
      BY <1>1, <2>1, Put
    <3>2. QED
      BY <1>1, <2>2, <3>1
  <2>5. SentAfter(k)'
    BY <2>4 DEF SentAfter
  <2>6. QED
    BY <2>3, <2>5
<1>7. ~ReadFails
  <2>1. SUFFICES ASSUME ReadFails
                 PROVE  FALSE
    OBVIOUS
  <2>2. ready'[k] = FailedRead
    BY <1>5, <2>1 DEF ReadFails
  <2>3. QED
    BY <2>2 DEF FailedRead
<1>8. ~CloseApi
  BY DEF CloseApi, OnError, Live, IsOpen
<1>9. QED
  BY <1>2, <1>3, <1>4, <1>6, <1>7, <1>8 DEF Next, Environment

LEMMA AlignedStep ==
  ASSUME IInv, Next
  PROVE  Aligned'
<1>1. ASSUME Live', pending' # NoRead
      PROVE  ReadsAt(pending, next)'
  <2>1. PICK r, p : r = pending' /\ p = next'
    OBVIOUS
  <2>2. ReadsAt(r, p)'
    BY <1>1, <2>1, NextAligned
  <2>3. QED
    BY <2>1, <2>2 DEF ReadsAt
<1>2. ASSUME Live', NEW k \in 1..Len(ready'), IsRead(ready'[k]), ready'[k].ok
      PROVE  \/ GotReserved(ready[k])'
             \/ (\E b \in 1..5 : Got(ready[k], Here(b)))' /\ SentAfter(k)'
  BY <1>2, GotAligned
<1>3. QED
  BY <1>1, <1>2 DEF Aligned, IsRead

-----------------------------------------------------------------------------
(* The invariant. *)

LEMMA InitIInv == Init => IInv
<1>1. SUFFICES ASSUME Init
               PROVE  IInv
  OBVIOUS
<1>2. /\ ready = <<>> /\ answers = <<>> /\ handled = <<>> /\ sentence = <<>>
      /\ state = "reading_length" /\ socket = TRUE /\ aborted = FALSE
      /\ pending = ReadNext(1) /\ next = StartOf(1) /\ reserved = 0 /\ requests = 0
      /\ callbacks = [t \in Tags |-> 0] /\ faults = {}
  BY <1>1 DEF Init
<1>3. Len(handled) = 0 /\ Len(sentence) = 0
  BY <1>2
<1>4. /\ \A i \in 1..Len(ready) : FALSE
      /\ \A i \in 1..Len(answers) : FALSE
      /\ \A i \in 1..Len(handled) : FALSE
      /\ \A r \in 1..requests : FALSE
      /\ IsOpen
  BY <1>2 DEF IsOpen
<1>5. TypeOK
  <2>1. /\ ready \in Seq(Handler) /\ sentence \in Sentence
        /\ answers \in Seq([words : Sentence, req : 0..MaxRequests])
        /\ handled \in Seq([words : Sentence, to : 0..MaxRequests, outcome : Outcome])
    BY <1>2 DEF Sentence
  <2>2. requests \in 0..MaxRequests /\ callbacks \in [Tags -> 0..MaxRequests]
    BY <1>2, ApiReaderAssumption
  <2>3. pending \in Read /\ next \in Place /\ reserved \in Nat
    BY <1>2, Starts
  <2>4. state \in State /\ socket \in BOOLEAN /\ aborted \in BOOLEAN
        /\ faults \subseteq {"cut", "reserved", "closed"}
    BY <1>2 DEF State
  <2>5. QED
    BY <2>1, <2>2, <2>3, <2>4 DEF TypeOK
<1>6. Reads
  BY <1>2, <1>4, Starts DEF Reads
<1>7. Aligned
  <2>1. Here(1) = StartOf(1)
    BY <1>3 DEF Here, StartOf
  <2>2. QED
    BY <1>2, <1>4, <2>1 DEF Aligned, ReadsAt
<1>8. Partial /\ Whole /\ Answered
  BY <1>2, <1>4 DEF Partial, Whole, Answered
<1>9. Sends /\ Ended /\ Registered /\ Reasons
  BY <1>2, <1>4 DEF Sends, Ended, Registered, Reasons
<1>10. Kept
  BY <1>2 DEF Kept
<1>11. DroppedForGood /\ RightCallback /\ ClosesForAReason /\ AssertsForAReason
  BY <1>2, <1>4 DEF DroppedForGood, RightCallback, ClosesForAReason, AssertsForAReason
<1>12. QED
  BY <1>5, <1>6, <1>7, <1>8, <1>9, <1>10, <1>11 DEF IInv

LEMMA StutterIInv ==
  ASSUME IInv, UNCHANGED vars
  PROVE  IInv'
<1>1. /\ UNCHANGED <<ready, state, socket, pending, sentence, callbacks, requests>>
      /\ UNCHANGED <<answers, reserved, next, handled, faults, aborted>>
  BY DEF vars, stream
<1>2. TypeOK' /\ Reads' /\ Live' = Live /\ IsOpen' = IsOpen
  BY <1>1 DEF IInv, TypeOK, Reads, Live, IsOpen
<1>3. Aligned'
  <2>1. \A p : WordAt(p)' = WordAt(p) /\ AtEnd(p)' = AtEnd(p)
    BY <1>1 DEF WordAt, AtEnd
  <2>2. \A p : LengthAt(p)' = LengthAt(p) /\ AtContents(p)' = AtContents(p)
    BY <2>1 DEF LengthAt, AtContents
  <2>3. \A p : ItemAt(p)' = ItemAt(p) /\ After(p)' = After(p)
    BY <2>1, <2>2 DEF ItemAt, After
  <2>4. \A r, p : ReadsAt(r, p)' <=> ReadsAt(r, p)
    BY <1>1 DEF ReadsAt, Here, InWord, LengthHere, LengthAt, WordAt
  <2>5. \A h, p : Got(h, p)' <=> Got(h, p)
    BY <1>1, <2>3, <2>4 DEF Got
  <2>6. \A b : Here(b)' = Here(b)
    BY <1>1 DEF Here
  <2>7. ASSUME NEW h
        PROVE  (\E b \in 1..5 : Got(h, Here(b)))' <=> \E b \in 1..5 : Got(h, Here(b))
    BY <2>5, <2>6
  <2>8. QED
    BY <1>1, <1>2, <2>4, <2>7 DEF IInv, Aligned, GotReserved, SentAfter
<1>4. Partial' /\ Whole' /\ Answered' /\ Sends' /\ Reasons'
  BY <1>1, <1>2 DEF IInv, Partial, Whole, Answered, Sends, Reasons
<1>5. Kept' /\ Ended'
  BY <1>1 DEF IInv, Kept, Ended, Before
<1>6. Registered'
  BY <1>1, <1>2 DEF IInv, Registered, Queued, DroppedTag
<1>7. DroppedForGood' /\ RightCallback'
  BY <1>1 DEF IInv, DroppedForGood, RightCallback, DroppedBefore
<1>8. ClosesForAReason'
  BY <1>1, <1>2 DEF IInv, ClosesForAReason, DroppedBefore
<1>9. AssertsForAReason'
  BY <1>1 DEF IInv, AssertsForAReason, TaggedTwice, IsValid
<1>10. QED
  BY <1>2, <1>3, <1>4, <1>5, <1>6, <1>7, <1>8, <1>9 DEF IInv

LEMMA StepIInv == IInv /\ [Next]_vars => IInv'
<1>1. CASE IInv /\ Next
  BY <1>1, TypesStep, ReadsStep, AlignedStep, PartialStep, WholeStep, SendsStep, KeptStep,
     EndedStep, RegisteredStep, ReasonsStep, DroppedForGoodStep, RightCallbackStep, ClosesStep,
     AssertsStep
     DEF IInv
<1>2. CASE IInv /\ UNCHANGED vars
  BY <1>2, StutterIInv
<1>3. QED
  BY <1>1, <1>2

\* The invariant holds in every state: the reader of api_read_state_machine is
\* always where it should be in what the router has sent.
THEOREM IInvariance == Spec => []IInv
<1>1. Init => IInv
  BY InitIInv
<1>2. IInv /\ [Next]_vars => IInv'
  BY StepIInv
<1>3. QED
  BY <1>1, <1>2, PTL DEF Spec

-----------------------------------------------------------------------------
(* The theorems. *)

\* Every variable of the API keeps its type.
THEOREM TypeCorrectness == Spec => []TypeOK
<1>1. IInv => TypeOK
  BY DEF IInv
<1>2. QED
  BY <1>1, IInvariance, PTL

\* api_read_state_machine: an open connection has exactly one read under way or
\* completed, whatever sends, closings and errors come between.
THEOREM OneRead == Spec => []OneReadWhileOpen
<1>1. IInv => OneReadWhileOpen
  <2>1. SUFFICES ASSUME IInv
                 PROVE  OneReadWhileOpen
    OBVIOUS
  <2> DEFINE R == {i \in 1..Len(ready) : ready[i].kind = "read"}
  <2>2. Reads /\ (~IsOpen => pending = NoRead)
    BY <2>1 DEF IInv, Reads
  <2>3. ASSUME IsOpen, ~aborted
        PROVE  state # "idle" /\ Cardinality(R) + (IF pending # NoRead THEN 1 ELSE 0) = 1
    <3>1. state # "idle"
      BY <2>2, <2>3 DEF Reads, Live
    <3>2. CASE pending # NoRead
      <4>1. R = {}
        BY <2>2, <3>2 DEF Reads, IsRead
      <4>2. Cardinality(R) = 0
        BY <4>1, FS_EmptySet
      <4>3. QED
        BY <3>1, <3>2, <4>2
    <3>3. CASE pending = NoRead
      <4>1. PICK i \in 1..Len(ready) : IsRead(ready[i])
        BY <2>2, <2>3, <3>3 DEF Reads, Live
      <4>2. R = {i}
        BY <2>2, <4>1 DEF Reads, IsRead
      <4>3. Cardinality(R) = 1
        BY <4>2, FS_Singleton
      <4>4. QED
        BY <3>1, <3>3, <4>3
    <3>4. QED
      BY <3>2, <3>3
  <2>4. QED
    BY <2>2, <2>3 DEF OneReadWhileOpen, ReadsQueued
<1>2. QED
  BY <1>1, IInvariance, PTL

\* api::handle_response: a callback that has returned false is never called
\* again.
THEOREM CallbacksAreDropped == Spec => []DroppedForGood
<1>1. IInv => DroppedForGood
  BY DEF IInv
<1>2. QED
  BY <1>1, IInvariance, PTL

\* api::send, api::handle_response: an answer reaches its own request's callback
\* until the tags wrap, and then only a stale one for a reason.
THEOREM AnswersReachTheirCallbacks == Spec => []RightCallback
<1>1. IInv => RightCallback
  BY DEF IInv
<1>2. QED
  BY <1>1, IInvariance, PTL

\* The reader never closes a connection over bytes that it has misread.
THEOREM NoSpuriousClose == Spec => []ClosesForAReason
<1>1. IInv => ClosesForAReason
  BY DEF IInv
<1>2. QED
  BY <1>1, IInvariance, PTL

\* The assertions of on_reading_length, handle_read and response_sentence: nothing
\* that is left of the sentences before can fail them.
THEOREM WhatAsserts == Spec => []AssertsForAReason
<1>1. IInv => AssertsForAReason
  BY DEF IInv
<1>2. QED
  BY <1>1, IInvariance, PTL

-----------------------------------------------------------------------------
(* The reader implements SentenceApi. *)

LEMMA WordsFacts ==
  ASSUME NEW S, NEW s \in Seq(S)
  PROVE  /\ Len(WordsOf(s)) = Len(s) /\ Len(s) \in Nat
         /\ DOMAIN WordsOf(s) = 1..Len(s)
         /\ WordsOf(s) \in Seq({s[i].words : i \in 1..Len(s)})
         /\ \A i \in 1..Len(s) : WordsOf(s)[i] = s[i].words
<1>1. Len(s) \in Nat
  OBVIOUS
<1>2. QED
  BY <1>1 DEF WordsOf

\* A record more is a sentence more.
LEMMA WordsAppend ==
  ASSUME NEW S, NEW s \in Seq(S), NEW h \in S
  PROVE  WordsOf(Append(s, h)) = Append(WordsOf(s), h.words)
<1> DEFINE a == Append(s, h)
           w == WordsOf(s)
           W == {s[i].words : i \in 1..Len(s)}
           A == Append(w, h.words)
<1>1. /\ Len(s) \in Nat /\ Len(a) = Len(s) + 1 /\ a[Len(s) + 1] = h
      /\ \A i \in 1..Len(s) : a[i] = s[i]
      /\ \A i \in 1..Len(a) : i \in 1..Len(s) \/ i = Len(s) + 1
  BY AppendFacts
<1>2. /\ Len(w) = Len(s) /\ \A i \in 1..Len(s) : w[i] = s[i].words
  BY WordsFacts
<1>3. w \in Seq(W)
  BY WordsFacts
<1> HIDE DEF a, w, W
<1>4. w \in Seq(W \cup {h.words}) /\ h.words \in W \cup {h.words}
  BY <1>3
<1>5. /\ A \in Seq(W \cup {h.words})
      /\ Len(A) = Len(s) + 1 /\ A[Len(s) + 1] = h.words
      /\ \A i \in 1..Len(s) : A[i] = w[i]
  BY <1>2, <1>4, AppendFacts
<1>6. A = [i \in 1..(Len(s) + 1) |-> A[i]]
  BY <1>5
<1>7. \A i \in 1..(Len(s) + 1) : A[i] = a[i].words
  BY <1>1, <1>2, <1>5
<1>8. WordsOf(a) = [i \in 1..(Len(s) + 1) |-> a[i].words]
  BY <1>1 DEF WordsOf
<1>9. QED
  BY <1>6, <1>7, <1>8 DEF a, w

LEMMA ApiInit == Init => Api!Init
<1>1. SUFFICES ASSUME Init
               PROVE  Api!Init
  OBVIOUS
<1>2. /\ answers = <<>> /\ handled = <<>> /\ callbacks = [t \in Tags |-> 0] /\ IsOpen
  BY <1>1 DEF Init, IsOpen
<1>3. WordsOf(<<>>) = <<>>
  BY DEF WordsOf
<1>4. QED
  BY <1>2, <1>3 DEF Api!Init

ApiVars == <<IsOpen, WordsOf(answers), WordsOf(handled), callbacks>>

\* The end of a sentence is its handling, in one step.
LEMMA ApiHandles ==
  ASSUME IInv, RunHandler, EndSentence
  PROVE  Api!Handle
<1> DEFINE n == Len(handled) + 1
<1>1. /\ TypeOK /\ Next /\ IsOpen /\ Len(handled) < Len(answers) /\ answers[n].words = sentence
      /\ answers' = answers /\ Len(handled) \in Nat /\ Len(answers) \in Nat
  BY Ending, Elements, Handling DEF IInv, Next, Live
<1>2. n \in 1..Len(answers)
  BY <1>1
<1>3. WordsOf(answers)[Len(WordsOf(handled)) + 1] = sentence
      /\ Len(WordsOf(handled)) < Len(WordsOf(answers))
  <2> DEFINE A == [words : Sentence, req : 0..MaxRequests]
             H == [words : Sentence, to : 0..MaxRequests, outcome : Outcome]
  <2>1. answers \in Seq(A) /\ handled \in Seq(H)
    BY <1>1 DEF TypeOK
  <2> HIDE DEF A, H
  <2>2. /\ Len(WordsOf(answers)) = Len(answers) /\ Len(WordsOf(handled)) = Len(handled)
        /\ WordsOf(answers)[n] = answers[n].words
    BY <1>2, <2>1, WordsFacts
  <2>3. QED
    BY <1>1, <2>2
<1>4. PICK to, outcome :
        /\ Record(to, outcome)
        /\ Reaches(to, outcome) \/ (to = 0 /\ ReachesNone(outcome))
  BY Response
<1>5. WordsOf(handled)' = Append(WordsOf(handled), sentence)
  <2> DEFINE h == [words |-> sentence, to |-> to, outcome |-> outcome]
             H == [words : Sentence, to : 0..MaxRequests, outcome : Outcome]
  <2>1. handled \in Seq(H) /\ handled' = Append(handled, h) /\ h.words = sentence
    BY <1>1, <1>4 DEF TypeOK, Record
  <2> HIDE DEF h, H
  <2>2. handled \in Seq(H \cup {h}) /\ h \in H \cup {h}
    BY <2>1
  <2>3. WordsOf(Append(handled, h)) = Append(WordsOf(handled), sentence)
    BY <2>1, <2>2, WordsAppend
  <2>4. QED
    BY <2>1, <2>3
<1>6. \/ UNCHANGED callbacks
      \/ \E t \in TagsOf(sentence) :
           callbacks[t] # 0 /\ callbacks' = [callbacks EXCEPT ![t] = 0]
  <2>1. CASE ReachesNone(outcome)
    BY <2>1 DEF ReachesNone
  <2>2. CASE Reaches(to, outcome)
    <3> DEFINE u == Tag(answers[n].req)
    <3>1. /\ TagsOf(sentence) = {u} /\ callbacks[u] # 0
          /\ callbacks' = AfterCall(u, outcome)
      BY <2>2, AnswerIs DEF Reaches
    <3> HIDE DEF u
    <3>2. QED
      BY <3>1 DEF AfterCall
  <2>3. QED
    BY <1>4, <2>1, <2>2
<1>7. IsOpen' \in BOOLEAN
  BY DEF IsOpen
<1>8. QED
  BY <1>1, <1>3, <1>5, <1>6, <1>7 DEF Api!Handle

\* Another step is one of the API's, or shows nothing of it.
LEMMA ApiStep ==
  ASSUME IInv, Next
  PROVE  Api!Next \/ UNCHANGED ApiVars
<1>1. TypeOK /\ callbacks \in [Tags -> 0..MaxRequests]
  BY DEF IInv, TypeOK
<1>2. ASSUME UNCHANGED <<state, socket, answers, handled, callbacks>>
      PROVE  UNCHANGED ApiVars
  BY <1>2 DEF ApiVars, IsOpen
<1>3. ASSUME IsOpen, ~IsOpen', UNCHANGED <<answers, handled, callbacks>>
      PROVE  Api!Next
  BY <1>3 DEF Api!Next, Api!Close
<1>4. CASE RunHandler
  <2>1. CASE EndSentence
    BY <1>4, <2>1, ApiHandles DEF Api!Next
  <2>2. CASE ShortLength \/ LongLength \/ RestOfLength \/ ReadWord
    <3>1. IsOpen /\ IsOpen' /\ UNCHANGED <<answers, handled, callbacks>>
      <4>1. CASE ShortLength \/ LongLength
        BY <4>1 DEF ShortLength, LongLength, ReadLength, ReadOk, IsOpen, stream
      <4>2. CASE RestOfLength
        BY <4>2 DEF RestOfLength, ReadOk, IsOpen, stream
      <4>3. CASE ReadWord
        BY <4>3 DEF ReadWord, ReadNextWord, ReadOk, IsOpen, stream
      <4>4. QED
        BY <2>2, <4>1, <4>2, <4>3
    <3>2. IsOpen' = IsOpen
      BY <3>1 DEF IsOpen
    <3>3. QED
      BY <3>1, <3>2 DEF ApiVars
  <2>3. CASE ReservedLength \/ ReadError
    BY <1>3, <2>3 DEF ReservedLength, ReadError, ReadLength, ReadOk, OnError, IsOpen, stream
  <2>4. CASE ReadAfterClose
    BY <1>2, <2>4 DEF ReadAfterClose, stream
  <2>5. CASE Sent
    <3> DEFINE u == Tag(Head(ready).req)
    <3>1. UNCHANGED <<state, socket, answers, handled>> /\ u \in Tags
      BY <1>4, <2>5, Completing DEF Sent, stream
    <3>2. CASE callbacks' = callbacks
      BY <1>2, <3>1, <3>2
    <3>3. CASE callbacks' # callbacks
      <4>1. IsOpen /\ Register(Head(ready).req)
        BY <2>5, <3>3 DEF Sent
      <4>2. callbacks' = [callbacks EXCEPT ![u] = IF @ = 0 THEN Head(ready).req ELSE @]
        BY <4>1 DEF Register
      <4> HIDE DEF u
      <4>3. callbacks[u] = 0
        BY <1>1, <3>1, <3>3, <4>2
      <4>4. callbacks' = [callbacks EXCEPT ![u] = callbacks'[u]]
        BY <1>1, <3>1, <4>2
      <4>5. IsOpen' = IsOpen
        BY <3>1 DEF IsOpen
      <4>6. QED
        BY <3>1, <4>1, <4>3, <4>4, <4>5 DEF Api!Next, Api!Register
    <3>4. QED
      BY <3>2, <3>3
  <2>6. CASE FailAssertion
    BY <1>2, <2>6 DEF FailAssertion, stream
  <2>7. QED
    BY <1>4, <2>1, <2>2, <2>3, <2>4, <2>5, <2>6 DEF RunHandler
<1>5. CASE Environment
  <2>1. CASE Transmit \/ RouterReserved \/ ReadCompletes \/ ReadFails
    BY <1>2, <2>1 DEF Transmit, RouterReserved, ReadCompletes, ReadFails, stream
  <2>2. CASE CloseApi
    BY <1>3, <2>2 DEF CloseApi, OnError, IsOpen, stream
  <2>3. CASE RouterAnswers
    <3>1. PICK words, r : RouterSends(words, r)
      BY <2>3 DEF RouterAnswers
    <3> DEFINE A == [words : Sentence, req : 0..MaxRequests]
               a == [words |-> words, req |-> r]
               w == WordsOf(answers)
    <3>2. /\ UNCHANGED <<state, socket, handled, callbacks>> /\ answers' = Append(answers, a)
          /\ answers \in Seq(A)
      BY <1>1, <3>1 DEF RouterSends, TypeOK
    <3> HIDE DEF a, A
    <3>3. answers \in Seq(A \cup {a}) /\ a \in A \cup {a}
      BY <3>2
    <3>4. WordsOf(answers)' = Append(w, a.words)
      BY <3>2, <3>3, WordsAppend
    <3>5. PICK W : w \in Seq(W)
      BY <3>2, WordsFacts
    <3>6. w \in Seq(W \cup {a.words}) /\ a.words \in W \cup {a.words}
      BY <3>5
    <3> HIDE DEF w
    <3>7. /\ Len(Append(w, a.words)) = Len(w) + 1
          /\ SubSeq(Append(w, a.words), 1, Len(w)) = w
      BY <3>6
    <3>8. IsOpen' = IsOpen /\ WordsOf(handled)' = WordsOf(handled) /\ callbacks' = callbacks
      BY <3>2 DEF IsOpen
    <3>9. QED
      BY <3>4, <3>7, <3>8 DEF Api!Next, Api!RouterSends, w
  <2>4. QED
    BY <1>5, <2>1, <2>2, <2>3 DEF Environment
<1>6. QED
  BY <1>4, <1>5 DEF Next

\* api_read_state_machine and api: reading byte by byte, with sends and closing
\* between the reads, is handling one whole sentence after another.
THEOREM Implements == Spec => ImplementsSentenceApi
<1>1. Init => Api!Init
  BY ApiInit
<1>2. IInv /\ [Next]_vars => [Api!Next]_ApiVars
  <2>1. CASE IInv /\ Next
    BY <2>1, ApiStep
  <2>2. CASE UNCHANGED vars
    BY <2>2 DEF vars, stream, ApiVars, IsOpen
  <2>3. QED
    BY <2>1, <2>2
<1>3. QED
  BY <1>1, <1>2, IInvariance, PTL DEF Spec, ImplementsSentenceApi, Api!Spec, ApiVars

=============================================================================
