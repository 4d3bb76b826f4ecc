------------------------------ MODULE Challenge ------------------------------
(***************************************************************************)
(* The answer to the router's challenge: the checks of its reply to login1,  *)
(* hash_password and the parameter that login2 sends.  Characters are bytes;  *)
(* the digest that MD5 makes is any one, and nothing else of login2 fails.    *)
(* What api does with the exception is Sessions' Broken.                      *)
(***************************************************************************)
EXTENDS Naturals, Sequences

CONSTANTS
  Size,           \* md5_size
  ChallengeSize,  \* login2::challenge_size
  Replies,        \* what the router may send as "ret"
  DigestBytes     \* the bytes that digests are made of

Byte == 0..255

ASSUME ChallengeAssumption ==
  /\ Size \in Nat \ {0}
  /\ ChallengeSize = Size * 2
  /\ Replies \subseteq Seq(Byte)
  /\ DigestBytes \subseteq Byte

VARIABLES
  ret,     \* input: the challenge
  phase,
  done,    \* how many bytes of buf or of out are made
  buf,     \* cha_bytes
  digest,  \* digest_bytes, or <<>>
  out      \* tmp, the digest in hexadecimal

vars == <<ret, phase, done, buf, digest, out>>

Phase == {"reply", "hashing", "decoding", "encoding", "sent", "invalid", "thrown"}

Zeros(n) == [i \in 1..n |-> 0]

TypeOK ==
  /\ ret \in Replies
  /\ phase \in Phase
  /\ done \in 0..Size
  /\ buf \in [1..Size -> Byte]
  /\ digest \in {<<>>} \cup [1..Size -> DigestBytes]
  /\ out \in {<<>>} \cup [1..(Size * 2) -> Byte]

Init ==
  /\ ret \in Replies
  /\ phase = "reply"
  /\ done = 0
  /\ buf = Zeros(Size)
  /\ digest = <<>>
  /\ out = <<>>

-----------------------------------------------------------------------------
(* The value of a digit, 16 for the exception. *)

NoDigit == 16

\* digit &= ~0x20.
Upper(c) == IF (c \div 32) % 2 = 1 THEN c - 32 ELSE c

DigitValue_AnyLetter(c) ==
  IF c \in 48..57 THEN c - 48
  ELSE IF Upper(c) \in 64..90 THEN Upper(c) - 55
  ELSE NoDigit

DigitValue(c) ==
  IF c \in 48..57 THEN c - 48
  ELSE IF Upper(c) \in 65..70 THEN Upper(c) - 55
  ELSE NoDigit

IsDigit(c) == DigitValue(c) # NoDigit

\* hex_chars[n].
HexChar(n) == IF n < 10 THEN 48 + n ELSE 87 + n

\* The places in a string of the two digits of a byte.
High(i) == i * 2 - 1
Low(i)  == i * 2

-----------------------------------------------------------------------------
\* api::login's check of the reply's size.
SizeOK_AtMost(r) == Len(r) <= ChallengeSize

SizeOK(r) == Len(r) = ChallengeSize

Check ==
  /\ phase = "reply"
  /\ phase' = IF SizeOK(ret) THEN "hashing" ELSE "invalid"
  /\ UNCHANGED <<ret, done, buf, digest, out>>

\* hash_password's own.
CheckAgain ==
  /\ phase = "hashing"
  /\ phase' = IF Len(ret) = Size * 2 THEN "decoding" ELSE "thrown"
  /\ UNCHANGED <<ret, done, buf, digest, out>>

\* One turn of decode_hex_string's loop, in which a bad digit throws.  Its own
\* check of the size comes after hash_password's, which admits one size only,
\* and throws for nothing.
Digits(i) == {ret[High(i)], ret[Low(i)]}

DecodeByte ==
  /\ phase = "decoding"
  /\ done < Size
  /\ \A c \in Digits(done + 1) : IsDigit(c)
  /\ buf' = [buf EXCEPT ![done + 1] =
               DigitValue(ret[High(done + 1)]) * 16 + DigitValue(ret[Low(done + 1)])]
  /\ done' = done + 1
  /\ UNCHANGED <<ret, phase, digest, out>>

DecodeThrows ==
  /\ phase = "decoding"
  /\ done < Size
  /\ \E c \in Digits(done + 1) : ~IsDigit(c)
  /\ phase' = "thrown"
  /\ UNCHANGED <<ret, done, buf, digest, out>>

\* MD5, and the string that encode_hex_string resizes.
Hash_NoReset ==
  /\ phase = "decoding"
  /\ done = Size
  /\ phase' = "encoding"
  /\ digest' \in [1..Size -> DigestBytes]
  /\ out' = Zeros(Size * 2)
  /\ UNCHANGED <<ret, done, buf>>

Hash ==
  /\ phase = "decoding"
  /\ done = Size
  /\ phase' = "encoding"
  /\ done' = 0
  /\ digest' \in [1..Size -> DigestBytes]
  /\ out' = Zeros(Size * 2)
  /\ UNCHANGED <<ret, buf>>

\* One turn of encode_hex_string's loop.
EncodeByte ==
  /\ phase = "encoding"
  /\ done < Size
  /\ out' = [out EXCEPT ![High(done + 1)] = HexChar(digest[done + 1] \div 16),
                        ![Low(done + 1)]  = HexChar(digest[done + 1] % 16)]
  /\ done' = done + 1
  /\ UNCHANGED <<ret, phase, buf, digest>>

\* login2's parameter, "00" and the digest.
Send ==
  /\ phase = "encoding"
  /\ done = Size
  /\ phase' = "sent"
  /\ UNCHANGED <<ret, done, buf, digest, out>>

Next ==
  \/ Check \/ CheckAgain \/ DecodeByte \/ DecodeThrows \/ Hash \/ EncodeByte
  \/ Send

Spec == Init /\ [][Next]_vars

-----------------------------------------------------------------------------
(* Properties. *)

\* A character is the digit n if it is written 0..9, a..f or A..F.
Writes(c, n) ==
  \/ n \in 0..9   /\ c = 48 + n
  \/ n \in 10..15 /\ c \in {65 + n - 10, 97 + n - 10}

\* What is hashed is what the router wrote, in either case and nothing left
\* out: byte by byte the two digits of the challenge.
HashesTheChallenge ==
  phase \in {"encoding", "sent"} =>
    /\ Len(ret) = Size * 2
    /\ \A i \in 1..Size :
         /\ Writes(ret[High(i)], buf[i] \div 16)
         /\ Writes(ret[Low(i)], buf[i] % 16)

\* What login2 sends is the digest, and decode_hex_string would read it back.
SendsTheDigest ==
  phase = "sent" =>
    \A i \in 1..Size :
      /\ DigitValue(out[High(i)]) = digest[i] \div 16
      /\ DigitValue(out[Low(i)]) = digest[i] % 16
      /\ {out[High(i)], out[Low(i)]} \subseteq (48..57) \cup (97..102)

\* hash_password throws for a character that is no digit only: login has
\* checked the size, and a challenge of another size is an invalid response.
ThrowsForADigit ==
  /\ phase = "thrown" =>
       /\ SizeOK(ret)
       /\ \E k \in 1..Len(ret) : \A n \in 0..15 : ~Writes(ret[k], n)
  /\ phase = "invalid" => Len(ret) # Size * 2

=============================================================================
