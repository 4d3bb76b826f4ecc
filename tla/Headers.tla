------------------------------- MODULE Headers -------------------------------
(***************************************************************************)
(* The sixteen bytes before each request and each answer: four integers of    *)
(* 32 bits, the most significant byte first.                                  *)
(***************************************************************************)
EXTENDS Naturals, Sequences, TLAPS

Byte == 0..255

Word32 == {n \in Nat : n < 4294967296}

\* append_integer, from the machine's order to the network's.
BigEndian(n) ==
  <<n \div 16777216, (n \div 65536) % 256, (n \div 256) % 256, n % 256>>

\* extract_integer, of the four bytes after the first k.
Integer(b, k) ==
  b[k + 1] * 16777216 + b[k + 2] * 65536 + b[k + 3] * 256 + b[k + 4]

\* response_header::encode.
EncodeHeader(code, flags, tag, size) ==
  LET f == <<BigEndian(code), BigEndian(flags), BigEndian(tag), BigEndian(size)>>
  IN  [i \in 1..16 |-> f[(i - 1) \div 4 + 1][((i - 1) % 4) + 1]]

\* request_header::decode.
DecodeHeader(b) ==
  [command |-> Integer(b, 0), flags |-> Integer(b, 4), tag |-> Integer(b, 8),
   body_size |-> Integer(b, 12)]

\* The bytes of an integer are bytes, and are read as that integer.
LEMMA OneInteger ==
  ASSUME NEW n \in Word32
  PROVE  LET b == BigEndian(n)
         IN  /\ b \in Byte \X Byte \X Byte \X Byte
             /\ Integer(b, 0) = n
<1> DEFINE q1 == n \div 256
           q2 == n \div 65536
           q3 == n \div 16777216
           b == BigEndian(n)
<1>1. /\ n = q1 * 256 + (n % 256) /\ q1 = q2 * 256 + (q1 % 256)
      /\ q2 = q3 * 256 + (q2 % 256)
  <2>1. n \in Nat /\ q1 \in Nat /\ q2 \in Nat /\ q3 \in Nat
    BY SMT DEF Word32
  <2>2. q1 \div 256 = q2 /\ q2 \div 256 = q3
    BY <2>1, SMT
  <2>3. ASSUME NEW m \in Nat PROVE m = (m \div 256) * 256 + (m % 256)
    BY SMT
  <2>4. QED
    BY <2>1, <2>2, <2>3, SMT
<1>2. q3 \in 0..255 /\ q2 % 256 \in 0..255 /\ q1 % 256 \in 0..255 /\ n % 256 \in 0..255
  BY SMT DEF Word32
<1>3. b = <<q3, q2 % 256, q1 % 256, n % 256>>
  BY SMT DEF BigEndian
<1>4. b \in Byte \X Byte \X Byte \X Byte
  BY <1>2, <1>3, SMT DEF Byte
<1>5. Integer(b, 0) = n
  <2>1. b[0 + 1] = q3 /\ b[0 + 2] = q2 % 256 /\ b[0 + 3] = q1 % 256 /\ b[0 + 4] = n % 256
    BY <1>3, SMT
  <2> HIDE DEF b
  <2>2. Integer(b, 0) = q3 * 16777216 + (q2 % 256) * 65536 + (q1 % 256) * 256 + (n % 256)
    BY <2>1, SMT DEF Integer
  <2>3. QED
    BY <1>1, <2>2, SMT DEF Word32
<1>6. QED
  BY <1>4, <1>5, SMT

\* Each field of an answer's header is where a request has its fields, whole:
\* a client that reads with the server's own layout finds the tag it sent.
THEOREM HeaderRoundTrip ==
  ASSUME NEW code \in Word32, NEW flags \in Word32, NEW tag \in Word32,
         NEW size \in Word32
  PROVE  LET b == EncodeHeader(code, flags, tag, size)
         IN  /\ \A i \in 1..16 : b[i] \in Byte
             /\ DecodeHeader(b) = [command |-> code, flags |-> flags, tag |-> tag,
                                   body_size |-> size]
<1> DEFINE f == <<BigEndian(code), BigEndian(flags), BigEndian(tag), BigEndian(size)>>
           b == EncodeHeader(code, flags, tag, size)
<1>1. \A k \in 1..4 : f[k] \in Byte \X Byte \X Byte \X Byte
  BY OneInteger, SMT
<1>2. \A i \in 1..16 : b[i] = f[(i - 1) \div 4 + 1][((i - 1) % 4) + 1]
  BY SMT DEF EncodeHeader
<1>3. \A i \in 1..16 : (i - 1) \div 4 + 1 \in 1..4 /\ ((i - 1) % 4) + 1 \in 1..4
  BY SMT
<1>4. \A i \in 1..16 : b[i] \in Byte
  BY <1>1, <1>2, <1>3, SMT
<1>5. ASSUME NEW k \in 0..3
      PROVE  Integer(b, 4 * k) = Integer(f[k + 1], 0)
  <2>1. \A j \in 1..4 : (4 * k + j - 1) \div 4 + 1 = k + 1 /\ ((4 * k + j - 1) % 4) + 1 = j
    BY SMT
  <2>2. \A j \in 1..4 : 4 * k + j \in 1..16
    BY SMT
  <2>3. \A j \in 1..4 : b[4 * k + j] = f[k + 1][j]
    BY <1>2, <2>1, <2>2, SMT
  <2>4. QED
    BY <2>3, SMT DEF Integer
<1>6. /\ Integer(b, 0) = code /\ Integer(b, 4) = flags
      /\ Integer(b, 8) = tag /\ Integer(b, 12) = size
  <2>1. /\ Integer(b, 4 * 0) = Integer(f[1], 0) /\ Integer(b, 4 * 1) = Integer(f[2], 0)
        /\ Integer(b, 4 * 2) = Integer(f[3], 0) /\ Integer(b, 4 * 3) = Integer(f[4], 0)
    BY <1>5, SMT
  <2>2. QED
    BY <2>1, OneInteger, SMT
<1>7. QED
  BY <1>4, <1>6, SMT DEF DecodeHeader

=============================================================================
