----------------------------- MODULE WordLength -----------------------------
(***************************************************************************)
(* The length that precedes each word of the RouterOS API: one to five       *)
(* bytes, whose first one says how many follow.  Lengths stay below 2^28: the *)
(* form of five bytes has its first byte alone.                              *)
(***************************************************************************)
EXTENDS Naturals, Sequences

MaxLength == 268435456

Weight == <<1, 256, 65536, 16777216>>

\* append_uint: the low bytes of n, the most significant first.
Bytes(n, count) ==
  [i \in 1..count |-> (n \div Weight[count + 1 - i]) % 256]

\* The or with a mark in the bits of the first byte that the length leaves 0.
Marked(mark, bytes) == [bytes EXCEPT ![1] = @ + mark]

\* encode_length.
EncodeLength(n) ==
  IF n < 128 THEN Bytes(n, 1)
  ELSE IF n < 16384 THEN Marked(128, Bytes(n, 2))
  ELSE IF n < 2097152 THEN Marked(192, Bytes(n, 3))
  ELSE IF n < MaxLength THEN Marked(224, Bytes(n, 4))
  ELSE <<240>> \o Bytes(n, 4)

\* What on_reading_length makes of a first byte: how many bytes follow, and
\* the bits of the length it has itself.  Above 240 it is an error.
MoreBytes(b) ==
  IF b < 128 THEN 0
  ELSE IF b < 192 THEN 1
  ELSE IF b < 224 THEN 2
  ELSE IF b < 240 THEN 3
  ELSE 4

LowBits_Raw(b) == b

LowBits(b) ==
  IF b < 128 THEN b
  ELSE IF b < 192 THEN b - 128
  ELSE IF b < 224 THEN b - 192
  ELSE IF b < 240 THEN b - 224
  ELSE b

\* The loop over the bytes that follow, at most three of them.
Digit(bytes, i) ==
  IF i <= Len(bytes) THEN bytes[Len(bytes) + 1 - i] * Weight[i] ELSE 0

WordLen(low, bytes) ==
  low * Weight[Len(bytes) + 1]
    + Digit(bytes, 1) + Digit(bytes, 2) + Digit(bytes, 3)

=============================================================================
