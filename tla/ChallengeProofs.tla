--------------------------- MODULE ChallengeProofs ---------------------------
(***************************************************************************)
(* What is hashed is what the router wrote, and what is sent is the digest,   *)
(* for every size of digest and every string that a router may send.         *)
(***************************************************************************)
EXTENDS Challenge, Integers, TLAPS

LEMMA UpperByte ==
  ASSUME NEW c \in Byte
  PROVE  Upper(c) \in {c, c - 32}
BY SMT DEF Upper, Byte

\* digit_value accepts a character only for the digit that it writes.
LEMMA DigitValueWrites ==
  ASSUME NEW c \in Byte, IsDigit(c)
  PROVE  DigitValue(c) \in 0..15 /\ Writes(c, DigitValue(c))
BY SMT DEF IsDigit, DigitValue, NoDigit, Upper, Writes, Byte

\* It refuses a character only if it writes no digit.
LEMMA RefusedWritesNothing ==
  ASSUME NEW c \in Byte, ~IsDigit(c), NEW n \in 0..15
  PROVE  ~Writes(c, n)
BY SMT DEF IsDigit, DigitValue, NoDigit, Upper, Writes, Byte

\* It reads what hex_chars writes.
LEMMA HexCharIsRead ==
  ASSUME NEW n \in 0..15
  PROVE  /\ HexChar(n) \in Byte
         /\ DigitValue(HexChar(n)) = n
         /\ HexChar(n) \in (48..57) \cup (97..102)
BY SMT DEF HexChar, DigitValue, Upper, Byte

\* Two digits are the halves of their byte.
LEMMA Halves ==
  ASSUME NEW a \in 0..15, NEW b \in 0..15
  PROVE  a * 16 + b \in Byte /\ (a * 16 + b) \div 16 = a /\ (a * 16 + b) % 16 = b
BY SMT DEF Byte

LEMMA HalvesOf ==
  ASSUME NEW b \in Byte
  PROVE  b \div 16 \in 0..15 /\ b % 16 \in 0..15
BY SMT DEF Byte

-----------------------------------------------------------------------------
\* Byte i of cha_bytes is what the router wrote there.
Decoded(i) ==
  /\ Writes(ret[High(i)], buf[i] \div 16)
  /\ Writes(ret[Low(i)], buf[i] % 16)

\* Byte i of the digest is in the answer.
Encoded(i) ==
  /\ DigitValue(out[High(i)]) = digest[i] \div 16
  /\ DigitValue(out[Low(i)]) = digest[i] % 16
  /\ {out[High(i)], out[Low(i)]} \subseteq (48..57) \cup (97..102)

\* How far each phase has come.
Progress ==
  /\ phase \in {"hashing", "decoding", "encoding", "sent", "thrown"} => SizeOK(ret)
  /\ phase = "invalid" => ~SizeOK(ret)
  /\ phase \in {"reply", "hashing"} => done = 0
  /\ phase = "decoding" => \A i \in 1..done : Decoded(i)
  /\ phase \in {"encoding", "sent"} =>
       /\ \A i \in 1..Size : Decoded(i)
       /\ digest \in [1..Size -> DigestBytes]
       /\ out \in [1..(Size * 2) -> Byte]
       /\ \A i \in 1..done : Encoded(i)
  /\ phase = "sent" => done = Size
  /\ phase = "thrown" => \E k \in 1..Len(ret) : \A n \in 0..15 : ~Writes(ret[k], n)

IInv == TypeOK /\ Progress

\* The digits of byte i are in the string.
LEMMA Places ==
  ASSUME NEW i \in 1..Size
  PROVE  High(i) \in 1..(Size * 2) /\ Low(i) \in 1..(Size * 2)
BY ChallengeAssumption, SMT DEF High, Low

LEMMA Apart ==
  ASSUME NEW i \in Nat, NEW j \in Nat
  PROVE  /\ High(i) # Low(j)
         /\ i # j => High(i) # High(j) /\ Low(i) # Low(j)
BY SMT DEF High, Low

LEMMA InitInv == Init => IInv
<1>1. SUFFICES ASSUME Init PROVE IInv
  OBVIOUS
<1>2. Zeros(Size) \in [1..Size -> Byte]
  BY SMT DEF Zeros, Byte
<1>3. TypeOK
  BY <1>1, <1>2, ChallengeAssumption, SMT DEF Init, TypeOK, Phase
<1>4. Progress
  BY <1>1 DEF Init, Progress
<1>5. QED
  BY <1>3, <1>4 DEF IInv

LEMMA StepInv == IInv /\ [Next]_vars => IInv'
<1>1. SUFFICES ASSUME IInv, [Next]_vars PROVE IInv'
  OBVIOUS
<1>2. /\ Size \in Nat \ {0} /\ ChallengeSize = Size * 2
      /\ ret \in Seq(Byte) /\ done \in 0..Size
      /\ DigestBytes \subseteq Byte
  BY <1>1, ChallengeAssumption DEF IInv, TypeOK
<1>3. CASE Check
  BY <1>1, <1>2, <1>3, SMT DEF IInv, TypeOK, Progress, Check, Phase, Decoded, Encoded
<1>4. CASE CheckAgain
  <2>1. Len(ret) = Size * 2
    BY <1>1, <1>2, <1>4 DEF IInv, Progress, CheckAgain, SizeOK
  <2>2. QED
    BY <1>1, <1>2, <1>4, <2>1, SMT
       DEF IInv, TypeOK, Progress, CheckAgain, Phase, Decoded, Encoded
<1>5. CASE DecodeByte
  <2> DEFINE d == done + 1
             hi == ret[High(d)]
             lo == ret[Low(d)]
             b == DigitValue(hi) * 16 + DigitValue(lo)
  <2>1. d \in 1..Size /\ phase = "decoding" /\ Len(ret) = Size * 2
    BY <1>1, <1>2, <1>5, SMT DEF IInv, Progress, DecodeByte, SizeOK
  <2>2. hi \in Byte /\ lo \in Byte
    BY <1>2, <2>1, Places
  <2>3. IsDigit(hi) /\ IsDigit(lo)
    BY <1>5 DEF DecodeByte, Digits
  <2>4. /\ DigitValue(hi) \in 0..15 /\ Writes(hi, DigitValue(hi))
        /\ DigitValue(lo) \in 0..15 /\ Writes(lo, DigitValue(lo))
    BY <2>2, <2>3, DigitValueWrites
  <2>5. b \in Byte /\ b \div 16 = DigitValue(hi) /\ b % 16 = DigitValue(lo)
    BY <2>4, Halves
  <2>6. buf' = [buf EXCEPT ![d] = b] /\ done' = d
    BY <1>5 DEF DecodeByte
  <2>7. TypeOK'
    BY <1>1, <1>5, <2>1, <2>5, <2>6, SMT DEF IInv, TypeOK, DecodeByte
  <2>8. ASSUME NEW i \in 1..d PROVE Decoded(i)'
    <3>1. CASE i = d
      <4>1. buf'[i] = b
        BY <1>1, <2>1, <2>6, <3>1 DEF IInv, TypeOK
      <4>2. QED
        BY <1>5, <2>4, <2>5, <3>1, <4>1 DEF Decoded, DecodeByte
    <3>2. CASE i # d
      <4>1. i \in 1..done /\ i \in 1..Size
        BY <1>2, <2>1, <3>2, SMT
      <4>2. buf'[i] = buf[i]
        BY <1>1, <2>6, <3>2, <4>1 DEF IInv, TypeOK
      <4>3. Decoded(i)
        BY <1>1, <2>1, <4>1 DEF IInv, Progress
      <4>4. QED
        BY <1>5, <4>2, <4>3 DEF Decoded, DecodeByte
    <3>3. QED
      BY <3>1, <3>2
  <2>9. Progress'
    BY <1>1, <1>5, <2>1, <2>6, <2>8 DEF IInv, Progress, DecodeByte, SizeOK
  <2>10. QED
    BY <2>7, <2>9 DEF IInv
<1>6. CASE DecodeThrows
  <2>1. done + 1 \in 1..Size /\ Len(ret) = Size * 2 /\ SizeOK(ret)
    BY <1>1, <1>2, <1>6, SMT DEF IInv, Progress, DecodeThrows, SizeOK
  <2>2. PICK k \in 1..Len(ret) : ~IsDigit(ret[k])
    <3>1. High(done + 1) \in 1..Len(ret) /\ Low(done + 1) \in 1..Len(ret)
      BY <2>1, Places
    <3>2. QED
      BY <1>6, <3>1 DEF DecodeThrows, Digits
  <2>3. ret[k] \in Byte
    BY <1>2, <2>2
  <2>4. \A n \in 0..15 : ~Writes(ret[k], n)
    BY <2>2, <2>3, RefusedWritesNothing
  <2>5. TypeOK'
    BY <1>1, <1>6 DEF IInv, TypeOK, DecodeThrows, Phase
  <2>6. Progress'
    BY <1>6, <2>1, <2>4 DEF Progress, DecodeThrows, SizeOK, Writes
  <2>7. QED
    BY <2>5, <2>6 DEF IInv
<1>7. CASE Hash
  <2>1. /\ Zeros(Size * 2) \in [1..(Size * 2) -> Byte]
        /\ digest' \in [1..Size -> DigestBytes]
        /\ out' = Zeros(Size * 2) /\ done' = 0 /\ phase' = "encoding"
        /\ ret' = ret /\ buf' = buf
    BY <1>7, <1>2, SMT DEF Hash, Zeros, Byte
  <2>2. \A i \in 1..Size : Decoded(i)
    BY <1>1, <1>7 DEF IInv, Progress, Hash
  <2>3. \A i \in 1..Size : Decoded(i)'
    BY <2>1, <2>2 DEF Decoded
  <2>4. TypeOK'
    BY <1>1, <1>2, <2>1, SMT DEF IInv, TypeOK, Phase
  <2>5. SizeOK(ret)
    BY <1>1, <1>7 DEF IInv, Progress, Hash
  <2>6. Progress'
    BY <2>1, <2>3, <2>5, SMT DEF Progress, SizeOK
  <2>7. QED
    BY <2>4, <2>6 DEF IInv
<1>8. CASE EncodeByte
  <2> DEFINE d == done + 1
             h == HexChar(digest[d] \div 16)
             l == HexChar(digest[d] % 16)
  <2>1. /\ d \in 1..Size /\ phase = "encoding" /\ SizeOK(ret)
        /\ digest \in [1..Size -> DigestBytes]
        /\ out \in [1..(Size * 2) -> Byte]
        /\ \A i \in 1..Size : Decoded(i)
    BY <1>1, <1>2, <1>8, SMT DEF IInv, Progress, EncodeByte
  <2>2. digest[d] \in Byte
    BY <1>2, <2>1
  <2>3. /\ h \in Byte /\ l \in Byte
        /\ DigitValue(h) = digest[d] \div 16 /\ DigitValue(l) = digest[d] % 16
        /\ {h, l} \subseteq (48..57) \cup (97..102)
    BY <2>2, HalvesOf, HexCharIsRead
  <2>4. /\ out' = [out EXCEPT ![High(d)] = h, ![Low(d)] = l]
        /\ done' = d /\ phase' = phase /\ ret' = ret /\ buf' = buf
        /\ digest' = digest
    BY <1>8 DEF EncodeByte
  <2>5. High(d) \in 1..(Size * 2) /\ Low(d) \in 1..(Size * 2) /\ High(d) # Low(d)
    BY <2>1, Places, Apart, SMT
  <2>6. out' \in [1..(Size * 2) -> Byte] /\ out'[High(d)] = h /\ out'[Low(d)] = l
    BY <2>1, <2>3, <2>4, <2>5
  <2>7. ASSUME NEW i \in 1..d PROVE Encoded(i)'
    <3>1. CASE i = d
      BY <2>3, <2>4, <2>6, <3>1 DEF Encoded
    <3>2. CASE i # d
      <4>1. i \in 1..done /\ i \in 1..Size /\ i \in Nat /\ d \in Nat
        BY <1>2, <2>1, <3>2, SMT
      <4>2. /\ High(i) # High(d) /\ High(i) # Low(d)
            /\ Low(i) # High(d) /\ Low(i) # Low(d)
        BY <3>2, <4>1, Apart
      <4>3. out'[High(i)] = out[High(i)] /\ out'[Low(i)] = out[Low(i)]
        BY <2>1, <2>4, <4>1, <4>2, Places
      <4>4. Encoded(i)
        BY <1>1, <2>1, <4>1 DEF IInv, Progress
      <4>5. QED
        BY <2>4, <4>3, <4>4 DEF Encoded
    <3>3. QED
      BY <3>1, <3>2
  <2>8. \A i \in 1..Size : Decoded(i)'
    BY <2>1, <2>4 DEF Decoded
  <2>9. TypeOK'
    BY <1>1, <2>1, <2>4, <2>6, SMT DEF IInv, TypeOK
  <2>10. Progress'
    BY <2>1, <2>4, <2>6, <2>7, <2>8 DEF Progress, SizeOK
  <2>11. QED
    BY <2>9, <2>10 DEF IInv
<1>9. CASE Send
  BY <1>1, <1>2, <1>9 DEF IInv, TypeOK, Progress, Send, Phase, Decoded, Encoded, SizeOK
<1>10. CASE UNCHANGED vars
  BY <1>1, <1>10 DEF IInv, TypeOK, Progress, vars, Decoded, Encoded, SizeOK, Writes
<1>11. QED
  BY <1>1, <1>3, <1>4, <1>5, <1>6, <1>7, <1>8, <1>9, <1>10 DEF Next

THEOREM Invariance == Spec => []IInv
<1>1. QED
  BY InitInv, StepInv, PTL DEF Spec

\* The types of the computation's state.
THEOREM TypeCorrectness == Spec => []TypeOK
<1>1. QED
  BY Invariance, PTL DEF IInv

\* Whatever the router sends, only its digits are hashed, all of them.
THEOREM ChallengeHashed == Spec => []HashesTheChallenge
<1>1. IInv => HashesTheChallenge
  BY ChallengeAssumption DEF IInv, Progress, HashesTheChallenge, SizeOK, Decoded
<1>2. QED
  BY <1>1, Invariance, PTL

\* Whatever the digest, its digits are what is sent.
THEOREM DigestSent == Spec => []SendsTheDigest
<1>1. IInv => SendsTheDigest
  BY DEF IInv, Progress, SendsTheDigest, Encoded
<1>2. QED
  BY <1>1, Invariance, PTL

\* hash_password never throws for the size that login has checked.
THEOREM OnlyDigitsThrow == Spec => []ThrowsForADigit
<1>1. IInv => ThrowsForADigit
  BY ChallengeAssumption DEF IInv, Progress, ThrowsForADigit, SizeOK
<1>2. QED
  BY <1>1, Invariance, PTL

=============================================================================
