---------------------------- MODULE MessageProofs ----------------------------
(***************************************************************************)
(* Theorems about Codec and Messages: that every string is read as it was  *)
(* written, for all ints of 32 bits and whatever byte is read at the end   *)
(* of a file; that what a new function allocates is a whole packet, or     *)
(* nothing is left of it; and for texts of any length and worlds of any    *)
(* conditions, what of a message is read and how long it is.               *)
(***************************************************************************)
EXTENDS Messages, DataProofs, FiniteSetTheorems

-----------------------------------------------------------------------------
(* The writer of strings, and what is left to write. *)

LEMMA ShiftedRight ==
    ASSUME NEW w \in SUBSET Bits, NEW n \in Nat, NEW x, x = {b \in Bits : b + 7 * n \in w}
    PROVE  /\ ShiftRight7(x) = {b \in Bits : b + 7 * (n + 1) \in w}
           /\ Low7(x) = Chunk(w, n + 1)
           /\ Large(x) <=> \E b \in w : b >= 7 * (n + 1)
<1>1. \A b : b \in x <=> b \in 0 .. 31 /\ b + 7 * n \in w
  BY DEF Bits
<1>2. \A b \in w : b \in 0 .. 31
  BY DEF Bits
<1>3. ASSUME NEW a PROVE a \in ShiftRight7(x) <=> a \in Bits /\ a + 7 * (n + 1) \in w
  <2>1. ASSUME a \in ShiftRight7(x) PROVE a \in Bits /\ a + 7 * (n + 1) \in w
    <3>1. PICK b \in x \ (0 .. 6) : a = b - 7
      BY <2>1 DEF ShiftRight7
    <3>2. b \in 0 .. 31 /\ b \notin 0 .. 6 /\ b + 7 * n \in w
      BY <1>1, <3>1
    <3>3. a \in 0 .. 24 /\ a + 7 * (n + 1) = b + 7 * n
      BY <3>1, <3>2
    <3> QED BY <3>2, <3>3 DEF Bits
  <2>2. ASSUME a \in Bits, a + 7 * (n + 1) \in w PROVE a \in ShiftRight7(x)
    <3>1. a \in Nat /\ a + 7 * (n + 1) <= 31
      BY <1>2, <2>2 DEF Bits
    <3>2. a + 7 \in 0 .. 31 /\ a + 7 \notin 0 .. 6 /\ (a + 7) + 7 * n = a + 7 * (n + 1) /\ a = (a + 7) - 7
      BY <3>1
    <3>3. a + 7 \in x \ (0 .. 6)
      BY <1>1, <2>2, <3>2
    <3> QED BY <3>2, <3>3 DEF ShiftRight7
  <2> QED BY <2>1, <2>2
<1>4. ASSUME NEW a PROVE a \in Low7(x) <=> a \in Chunk(w, n + 1)
  <2>1. (n + 1) - 1 = n /\ \A b \in 0 .. 6 : b \in 0 .. 31
    OBVIOUS
  <2> QED BY <1>1, <2>1 DEF Low7, Chunk
<1>5. Large(x) <=> \E b \in w : b >= 7 * (n + 1)
  <2>1. ASSUME NEW b \in x, b \notin 0 .. 6 PROVE \E c \in w : c >= 7 * (n + 1)
    <3>1. b \in 0 .. 31 /\ b + 7 * n \in w /\ b >= 7
      BY <1>1, <2>1
    <3>2. b + 7 * n >= 7 * (n + 1)
      BY <3>1
    <3> QED BY <3>1, <3>2
  <2>2. ASSUME NEW c \in w, c >= 7 * (n + 1) PROVE \E b \in x : b \notin 0 .. 6
    <3>1. c \in 0 .. 31
      BY <1>2
    <3>2. c - 7 * n \in 0 .. 31 /\ c - 7 * n \notin 0 .. 6 /\ (c - 7 * n) + 7 * n = c
      BY <2>2, <3>1
    <3> QED BY <1>1, <3>2
  <2> QED BY <2>1, <2>2 DEF Large
<1> QED BY <1>3, <1>4, <1>5

\* The reader goes on exactly as long as there are bytes.
LEMMA AgainWhileBytes ==
    ASSUME NEW w, BytesOf(w, bytes), Reads(w, bytes)
    PROVE  Again <=> pos < Len(bytes)
<1>1. Len(bytes) \in 1 .. 5 /\ pos \in 0 .. Len(bytes) /\ shift = 7 * pos
  BY DEF BytesOf, Reads
<1>2. CASE pos = 0
  BY <1>1, <1>2 DEF Again
<1>3. CASE pos # 0
  <2>1. pos \in 1 .. Len(bytes) /\ shift # 0
    BY <1>1, <1>3
  <2>2. byte = Chopped(w, pos, Len(bytes))
    BY <2>1 DEF BytesOf, Reads
  <2>3. 7 \notin Chunk(w, pos)
    BY DEF Chunk
  <2>4. 7 \in byte <=> pos < Len(bytes)
    BY <2>2, <2>3 DEF Chopped
  <2> QED BY <2>1, <2>4 DEF Again
<1> QED BY <1>2, <1>3

LEMMA TakesNext ==
    ASSUME NEW w \in SUBSET Bits, BytesOf(w, bytes), Reads(w, bytes), pos < Len(bytes),
           Take(bytes[pos + 1]), pos' = pos + 1, bytes' = bytes
    PROVE  Reads(w, bytes)' /\ shift' \in 0 .. 35 /\ byte' \subseteq 0 .. 7 /\ count' \subseteq Bits
<1>1. Len(bytes) \in 1 .. 5 /\ pos \in 0 .. 4 /\ shift = 7 * pos /\ count = LowPart(w, pos)
  BY DEF BytesOf, Reads
<1>2. pos + 1 \in 1 .. Len(bytes) /\ (pos + 1) - 1 = pos
  BY <1>1
<1>3. bytes[pos + 1] = Chopped(w, pos + 1, Len(bytes))
  BY <1>2 DEF BytesOf
<1>4. \A b : b \in Low7(bytes[pos + 1]) <=> b \in 0 .. 6 /\ b + 7 * pos \in w
  <2>1. 7 \notin 0 .. 6
    OBVIOUS
  <2> QED BY <1>2, <1>3, <2>1 DEF Low7, Chopped, Chunk
<1>5. ASSUME NEW a PROVE a \in ShiftLeft(Low7(bytes[pos + 1]), shift)
                            <=> a \in w /\ a >= 7 * pos /\ a < 7 * (pos + 1)
  <2>1. ASSUME a \in ShiftLeft(Low7(bytes[pos + 1]), shift)
        PROVE  a \in w /\ a >= 7 * pos /\ a < 7 * (pos + 1)
    <3>1. PICK b \in Low7(bytes[pos + 1]) : a = b + shift
      BY <2>1 DEF ShiftLeft
    <3>2. b \in 0 .. 6 /\ b + 7 * pos \in w
      BY <1>4, <3>1
    <3> QED BY <1>1, <3>1, <3>2
  <2>2. ASSUME a \in w, a >= 7 * pos, a < 7 * (pos + 1)
        PROVE  a \in ShiftLeft(Low7(bytes[pos + 1]), shift)
    <3>1. a \in 0 .. 31
      BY <2>2 DEF Bits
    <3>2. a - 7 * pos \in 0 .. 6 /\ (a - 7 * pos) + 7 * pos = a
      BY <1>1, <2>2, <3>1
    <3>3. a - 7 * pos \in Low7(bytes[pos + 1])
      BY <1>4, <2>2, <3>2
    <3> QED BY <1>1, <3>1, <3>2, <3>3 DEF ShiftLeft, Bits
  <2> QED BY <2>1, <2>2
<1>6. ASSUME NEW a PROVE a \in count' <=> a \in w /\ a < 7 * (pos + 1)
  <2>1. a \in w => a \in 0 .. 31
    BY DEF Bits
  <2>2. a \in count <=> a \in w /\ a < 7 * pos
    BY <1>1 DEF LowPart
  <2>3. a \in count' <=> a \in count \/ a \in ShiftLeft(Low7(bytes[pos + 1]), shift)
    BY DEF Take
  <2>4. ASSUME a \in w PROVE a < 7 * (pos + 1) <=> a < 7 * pos \/ (a >= 7 * pos /\ a < 7 * (pos + 1))
    <3>1. a \in 0 .. 31 /\ pos \in 0 .. 4
      BY <1>1, <2>1, <2>4
    <3> QED BY <3>1
  <2> QED BY <1>5, <2>2, <2>3, <2>4
<1>7. count' = LowPart(w, pos')
  BY <1>6 DEF LowPart
<1>8. shift' = 7 * pos' /\ shift' \in 0 .. 35
  BY <1>1 DEF Take
<1>9. byte' = bytes[pos'] /\ byte' \subseteq 0 .. 7
  BY <1>2 DEF Take, BytesOf
<1>10. count' \subseteq Bits
  BY <1>7 DEF LowPart
<1> QED BY <1>1, <1>2, <1>7, <1>8, <1>9, <1>10 DEF Reads

\* At the last byte the whole value was read.
LEMMA ReadsAll ==
    ASSUME NEW w, BytesOf(w, bytes), Reads(w, bytes), ~ Again
    PROVE  pos = Len(bytes) /\ count = w
<1>1. pos = Len(bytes)
  BY AgainWhileBytes DEF BytesOf, Reads
<1>2. count = LowPart(w, Len(bytes))
  BY <1>1 DEF Reads
<1> QED BY <1>1, <1>2 DEF LowPart, BytesOf

-----------------------------------------------------------------------------
LEMMA InitKeeps == (StringInit \/ StringIdle) => StringIInv
<1> SUFFICES ASSUME StringInit \/ StringIdle PROVE StringIInv
  OBVIOUS
<1> USE DEF StringInit, StringIdle, Start
<1>1. value \in Values \cup {{}} /\ value \in SUBSET Bits
  BY CodecAssumption
<1>2. bytes = << >> /\ Len(bytes) = 0 /\ bytes \in Seq(SUBSET (0 .. 7)) /\ v = value
  <2>1. bytes = << >> /\ v = value
    OBVIOUS
  <2> QED BY <2>1
<1>3. v = {b \in Bits : b + 7 * Len(bytes) \in value}
  <2>1. \A b \in Bits : b + 7 * 0 = b
    BY DEF Bits
  <2> QED BY <1>1, <1>2, <2>1
<1>4. StringTypeOK
  <2>1. v \subseteq Bits
    BY <1>1
  <2>2. inFile \in 0 .. 5 /\ shift \in 0 .. 35 /\ pos \in 0 .. 5
    OBVIOUS
  <2>3. whole \in BOOLEAN /\ memory \in BOOLEAN
    OBVIOUS
  <2>4. count \subseteq Bits /\ byte \subseteq 0 .. 7 /\ {outValue, val} \subseteq (SUBSET Bits) \cup {NoResult}
    OBVIOUS
  <2>5. pc \in {"write", "done"}
    OBVIOUS
  <2> QED BY <1>1, <1>2, <2>1, <2>2, <2>3, <2>4, <2>5 DEF StringTypeOK
<1>5. Writing
  BY <1>1, <1>2, <1>3 DEF Writing
<1> QED BY <1>2, <1>4, <1>5 DEF StringIInv, Written

LEMMA AddByte ==
    ASSUME NEW s \in Seq(SUBSET (0 .. 7)), NEW e \in SUBSET (0 .. 7), NEW t, t = Append(s, e)
    PROVE  /\ t \in Seq(SUBSET (0 .. 7)) /\ Len(t) = Len(s) + 1
           /\ t[Len(s) + 1] = e /\ \A k \in 1 .. Len(s) : t[k] = s[k]
<1> DEFINE S == SUBSET (0 .. 7)
<1>1. s \in Seq(S) /\ e \in S /\ t = Append(s, e)
  OBVIOUS
<1> HIDE DEF S
<1>2. /\ t \in Seq(S) /\ Len(t) = Len(s) + 1
      /\ t[Len(s) + 1] = e /\ \A k \in 1 .. Len(s) : t[k] = s[k]
  BY <1>1
<1> QED BY <1>2 DEF S

LEMMA WriteByteKeeps == ASSUME StringIInv, WriteByte PROVE StringIInv'
<1> DEFINE n == Len(bytes)
           e == Low7(v) \cup {7}
<1> USE DEF WriteByte
<1>1. StringTypeOK /\ Writing /\ bytes \in Seq(SUBSET (0 .. 7)) /\ n \in 0 .. 4
  <2>1. StringTypeOK /\ Writing
    BY DEF StringIInv, Written
  <2>2. bytes \in Seq(SUBSET (0 .. 7)) /\ v \subseteq Bits
    BY <2>1 DEF StringTypeOK
  <2>3. n \in Nat /\ n <= 4
    BY <2>1, <2>2 DEF Writing
  <2>4. n \in 0 .. 4
    <3> HIDE DEF n, WriteByte, WriteLast
    <3> QED BY <2>3
  <2> HIDE DEF n
  <2> QED BY <2>1, <2>2, <2>4
<1>2. /\ ShiftRight7(v) = {b \in Bits : b + 7 * (n + 1) \in value}
      /\ Low7(v) = Chunk(value, n + 1)
      /\ \E b \in value : b >= 7 * (n + 1)
  <2>1. n \in Nat /\ value \in SUBSET Bits /\ v = {b \in Bits : b + 7 * n \in value}
    BY <1>1 DEF Writing
  <2> HIDE DEF n
  <2> QED BY <2>1, ShiftedRight
<1>3. n <= 3
  <2>1. PICK b \in value : b >= 7 * (n + 1)
    BY <1>2
  <2>2. value \in SUBSET Bits
    BY <1>1 DEF Writing
  <2>3. b \in 0 .. 31
    BY <2>2 DEF Bits
  <2> HIDE DEF n, e, WriteByte
  <2> QED BY <1>1, <2>1, <2>3
<1>4. e \in SUBSET (0 .. 7)
  BY DEF Low7
<1>5. /\ bytes' \in Seq(SUBSET (0 .. 7)) /\ Len(bytes') = n + 1
      /\ bytes'[n + 1] = e /\ \A k \in 1 .. n : bytes'[k] = bytes[k]
  <2>1. bytes' = Append(bytes, e)
    OBVIOUS
  <2>2. bytes \in Seq(SUBSET (0 .. 7))
    BY <1>1
  <2> HIDE DEF e
  <2>3. ASSUME NEW t, t = Append(bytes, e)
        PROVE  /\ t \in Seq(SUBSET (0 .. 7)) /\ Len(t) = Len(bytes) + 1
               /\ t[Len(bytes) + 1] = e /\ \A k \in 1 .. Len(bytes) : t[k] = bytes[k]
    BY <1>4, <2>2, <2>3, AddByte
  <2> QED BY <2>1, <2>3
<1>6. \A k \in 1 .. Len(bytes') : bytes'[k] = Chunk(value, k) \cup {7} /\ \E b \in value : b >= 7 * k
  <2> SUFFICES ASSUME NEW k \in 1 .. Len(bytes')
               PROVE  bytes'[k] = Chunk(value, k) \cup {7} /\ \E b \in value : b >= 7 * k
    OBVIOUS
  <2>1. CASE k = n + 1
    BY <1>2, <1>5, <2>1
  <2>2. CASE k # n + 1
    <3>1. k \in 1 .. n
      BY <1>1, <1>5, <2>2
    <3> QED BY <1>1, <1>5, <3>1 DEF Writing
  <2> QED BY <2>1, <2>2
<1>7. v' = {b \in Bits : b + 7 * Len(bytes') \in value}
  BY <1>2, <1>5
<1>8. Len(bytes') <= 4
  BY <1>1, <1>3, <1>5
<1>9. Writing'
  BY <1>1, <1>6, <1>7, <1>8 DEF Writing
<1>10. StringTypeOK'
  <2>1. v' \subseteq Bits
    BY <1>7
  <2>2. Len(bytes') <= 5
    BY <1>5, <1>1, <1>3
  <2> HIDE DEF n, e
  <2> QED BY <1>1, <1>5, <2>1, <2>2 DEF StringTypeOK
<1> QED BY <1>9, <1>10 DEF StringIInv, Written

LEMMA WriteLastKeeps == ASSUME StringIInv, WriteLast PROVE StringIInv'
<1> DEFINE n == Len(bytes)
<1> USE DEF WriteLast
<1>1. StringTypeOK /\ Writing /\ bytes \in Seq(SUBSET (0 .. 7)) /\ n \in 0 .. 4 /\ v \subseteq Bits
  <2>1. StringTypeOK /\ Writing
    BY DEF StringIInv, Written
  <2>2. bytes \in Seq(SUBSET (0 .. 7)) /\ v \subseteq Bits
    BY <2>1 DEF StringTypeOK
  <2>3. n \in Nat /\ n <= 4
    BY <2>1, <2>2 DEF Writing
  <2>4. n \in 0 .. 4
    <3> HIDE DEF n, WriteByte, WriteLast
    <3> QED BY <2>3
  <2> HIDE DEF n
  <2> QED BY <2>1, <2>2, <2>4
<1>2. Low7(v) = Chunk(value, n + 1) /\ \A b \in value : ~ (b >= 7 * (n + 1))
  <2>1. n \in Nat /\ value \in SUBSET Bits /\ v = {b \in Bits : b + 7 * n \in value}
    BY <1>1 DEF Writing
  <2> HIDE DEF n
  <2> QED BY <2>1, ShiftedRight
<1>3. v = Chunk(value, n + 1)
  BY <1>2 DEF Low7, Large
<1>4. v \in SUBSET (0 .. 7)
  BY <1>3 DEF Chunk
<1>5. /\ bytes' \in Seq(SUBSET (0 .. 7)) /\ Len(bytes') = n + 1
      /\ bytes'[n + 1] = v /\ \A k \in 1 .. n : bytes'[k] = bytes[k]
  BY <1>1, <1>4
<1>6. BytesOf(value, bytes)'
  <2>1. Len(bytes') \in 1 .. 5
    BY SMTT(30), <1>1, <1>5
  <2>2. ASSUME NEW k \in 1 .. Len(bytes') PROVE bytes'[k] = Chopped(value, k, Len(bytes'))
    <3>1. CASE k = n + 1
      BY <1>3, <1>5, <3>1 DEF Chopped
    <3>2. CASE k # n + 1
      <4>1. k \in 1 .. n /\ k < Len(bytes')
        BY <1>1, <1>5, <3>2
      <4> QED BY <1>1, <1>5, <4>1 DEF Writing, Chopped
    <3> QED BY <3>1, <3>2
  <2>3. \A b \in value : b < 7 * Len(bytes')
    BY <1>1, <1>2, <1>5 DEF Writing, Bits
  <2>4. \A k \in 1 .. Len(bytes') - 1 : \E b \in value : b >= 7 * k
    BY <1>1, <1>5 DEF Writing
  <2> HIDE DEF n
  <2> QED BY <1>5, <2>1, <2>2, <2>3, <2>4 DEF BytesOf
<1>7. inFile' \in 0 .. Len(bytes') /\ whole' \in BOOLEAN /\ (whole' => inFile' = Len(bytes'))
  <2>1. inFile' \in 0 .. Len(bytes') /\ whole' \in IF inFile' < Len(bytes') THEN {FALSE} ELSE {TRUE, value = {}}
    OBVIOUS
  <2>2. CASE inFile' < Len(bytes')
    BY <2>1, <2>2
  <2>3. CASE ~ (inFile' < Len(bytes'))
    <3>1. inFile' = Len(bytes')
      BY <1>1, <1>5, <2>1, <2>3
    <3>2. whole' \in {TRUE, value = {}}
      BY <2>1, <2>3
    <3>3. whole' \in BOOLEAN
      BY <3>2
    <3> QED BY <2>1, <3>1, <3>3
  <2> QED BY <2>2, <2>3
<1>8. Reads(value, bytes)'
  <2>1. pos' = 0 /\ shift' = 0 /\ count' = {} /\ byte' = {}
    BY DEF StringIInv, Writing
  <2>2. LowPart(value, 0) = {}
    <3>1. value \in SUBSET Bits
      BY <1>1 DEF Writing
    <3>2. \A b \in Bits : ~ (b < 7 * 0)
      BY DEF Bits
    <3> QED BY <3>1, <3>2 DEF LowPart
  <2> QED BY <1>5, <1>1, <2>1, <2>2 DEF Reads
<1>9. StringTypeOK'
  <2>1. inFile' \in 0 .. 5 /\ Len(bytes') <= 5
    BY SMTT(30), <1>1, <1>5, <1>7
  <2> HIDE DEF n
  <2> QED BY <1>1, <1>5, <1>7, <2>1 DEF StringTypeOK
<1>10. bytes' # << >> /\ inFile' <= Len(bytes')
  BY <1>1, <1>5, <1>7
<1> QED BY <1>6, <1>7, <1>8, <1>9, <1>10 DEF StringIInv, Written, Writing

LEMMA ReadBufferKeeps == ASSUME StringIInv, ReadBuffer PROVE StringIInv'
<1> USE DEF ReadBuffer
<1>1. /\ StringTypeOK /\ BytesOf(value, bytes) /\ Reads(value, bytes) /\ bytes # << >>
      /\ inFile <= Len(bytes) /\ (whole => inFile = Len(bytes)) /\ value \in SUBSET Bits
      /\ outValue = NoResult /\ val = NoResult
  BY CodecAssumption DEF StringIInv, Written, StringTypeOK
<1>2. pos < Len(bytes)
  BY <1>1, AgainWhileBytes
<1>3. Reads(value, bytes)' /\ shift' \in 0 .. 35 /\ byte' \subseteq 0 .. 7 /\ count' \subseteq Bits
  BY <1>1, <1>2, TakesNext
<1>4. pos' \in 0 .. 5
  BY <1>1, <1>2 DEF BytesOf, Reads
<1>5. StringTypeOK'
  BY <1>1, <1>3, <1>4 DEF StringTypeOK
<1>6. BytesOf(value, bytes)'
  BY <1>1 DEF BytesOf, Chopped, Chunk
<1> QED BY <1>1, <1>3, <1>5, <1>6 DEF StringIInv, Written

LEMMA BufferDoneKeeps == ASSUME StringIInv, BufferDone PROVE StringIInv'
<1> USE DEF BufferDone
<1>1. /\ StringTypeOK /\ BytesOf(value, bytes) /\ Reads(value, bytes) /\ bytes # << >>
      /\ inFile <= Len(bytes) /\ (whole => inFile = Len(bytes)) /\ value \in SUBSET Bits
      /\ val = NoResult
  BY CodecAssumption DEF StringIInv, Written, StringTypeOK
<1>2. outValue' = value
  BY <1>1, ReadsAll
<1>3. Reads(value, bytes)' /\ pos' = 0
  <2>1. \A b \in value : ~ (b < 7 * 0)
    BY <1>1 DEF Bits
  <2>2. LowPart(value, 0) = {}
    BY <2>1 DEF LowPart
  <2>3. Len(bytes) \in 1 .. 5
    BY <1>1 DEF BytesOf
  <2> QED BY <2>2, <2>3 DEF Reads
<1>4. StringTypeOK'
  <2>1. outValue' \in SUBSET Bits
    BY <1>1, <1>2
  <2>2. pos' \in 0 .. 5 /\ shift' \in 0 .. 35 /\ byte' \subseteq 0 .. 7 /\ count' \subseteq Bits
    OBVIOUS
  <2> QED BY <1>1, <2>1, <2>2 DEF StringTypeOK
<1>5. BytesOf(value, bytes)'
  BY <1>1 DEF BytesOf, Chopped, Chunk
<1>6. pos' <= inFile'
  BY <1>1, <1>3 DEF StringTypeOK
<1> QED BY <1>1, <1>2, <1>3, <1>4, <1>5, <1>6 DEF StringIInv, Written

LEMMA ReadFileKeeps == ASSUME StringIInv, ReadFile PROVE StringIInv'
<1> USE DEF ReadFile
<1>1. /\ StringTypeOK /\ BytesOf(value, bytes) /\ bytes # << >>
      /\ inFile <= Len(bytes) /\ (whole => inFile = Len(bytes)) /\ value \in SUBSET Bits
      /\ outValue = value /\ val = NoResult /\ pos <= inFile
      /\ Reads(value, bytes) \/ Lost
  BY CodecAssumption DEF StringIInv, Written, StringTypeOK, Lost
<1>2. inFile \in 0 .. 5 /\ pos \in 0 .. 5 /\ Len(bytes) \in 1 .. 5 /\ shift \in 0 .. 35
  BY <1>1 DEF StringTypeOK, BytesOf
<1>3. BytesOf(value, bytes)'
  BY <1>1 DEF BytesOf, Chopped, Chunk
<1>4. CASE Reads(value, bytes) /\ pos < inFile
  <2>1. Take(bytes[pos + 1]) /\ pos' = pos + 1 /\ pos < Len(bytes)
    BY <1>1, <1>2, <1>4
  <2>2. Reads(value, bytes)' /\ shift' \in 0 .. 35 /\ byte' \subseteq 0 .. 7 /\ count' \subseteq Bits
    BY <1>1, <1>4, <2>1, TakesNext
  <2>3. pos' \in 0 .. 5 /\ pos' <= inFile'
    BY <1>2, <1>4, <2>1
  <2>4. StringTypeOK'
    BY <1>1, <2>2, <2>3 DEF StringTypeOK
  <2> QED BY <1>1, <1>3, <2>2, <2>3, <2>4 DEF StringIInv, Written
<1>5. CASE ~ (Reads(value, bytes) /\ pos < inFile)
  <2>1. pos = inFile /\ pos < Len(bytes) /\ \E n \in 0 .. 4 : shift = 7 * n
    <3>1. CASE Lost
      <4>1. PICK n \in 1 .. 5 : shift = 7 * n
        BY <3>1 DEF Lost
      <4>2. n \in 0 .. 4
        BY <4>1
      <4> QED BY <3>1, <4>1, <4>2 DEF Lost
    <3>2. CASE Reads(value, bytes)
      <4>1. pos = inFile
        BY <1>1, <1>2, <1>5, <3>2
      <4>2. pos < Len(bytes)
        BY <1>1, <3>2, AgainWhileBytes
      <4>3. shift = 7 * pos /\ pos \in 0 .. 4
        BY <1>2, <3>2, <4>2 DEF Reads
      <4> QED BY <4>1, <4>2, <4>3
    <3> QED BY <1>1, <3>1, <3>2
  <2>2. PICK b \in IF shift = 0 THEN Garbage ELSE {byte} : Take(b) /\ pos' = pos
    BY <1>2, <2>1
  <2>3. b \subseteq 0 .. 7
    <3>1. Garbage \subseteq SUBSET (0 .. 7) /\ byte \subseteq 0 .. 7
      BY <1>1, CodecAssumption DEF StringTypeOK
    <3> QED BY <2>2, <3>1
  <2>4. PICK n \in 0 .. 4 : shift = 7 * n
    BY <2>1
  <2>5. shift' = 7 * (n + 1) /\ n + 1 \in 1 .. 5 /\ shift' \in 0 .. 35
    BY <2>2, <2>4 DEF Take
  <2>6. Lost'
    BY <2>1, <2>2, <2>5 DEF Lost
  <2>7. count' \subseteq Bits /\ byte' \subseteq 0 .. 7 /\ pos' \in 0 .. 5 /\ pos' <= inFile'
    BY <1>1, <1>2, <2>1, <2>2, <2>3 DEF Take, ShiftLeft, StringTypeOK
  <2>8. StringTypeOK'
    BY <1>1, <2>5, <2>7 DEF StringTypeOK
  <2> QED BY <1>1, <1>3, <2>6, <2>7, <2>8 DEF StringIInv, Written, Lost
<1> QED BY <1>4, <1>5

LEMMA TooLongKeeps == ASSUME StringIInv, TooLong PROVE StringIInv'
<1> USE DEF TooLong
<1>1. /\ StringTypeOK /\ BytesOf(value, bytes) /\ bytes # << >>
      /\ inFile <= Len(bytes) /\ (whole => inFile = Len(bytes)) /\ value \in SUBSET Bits
  BY CodecAssumption DEF StringIInv, Written, StringTypeOK
<1>2. ~ Reads(value, bytes)
  <2> SUFFICES ASSUME Reads(value, bytes) PROVE FALSE
    OBVIOUS
  <2>1. pos < Len(bytes)
    BY <1>1, AgainWhileBytes
  <2>2. Len(bytes) \in 1 .. 5 /\ pos \in 0 .. 5 /\ 35 = 7 * pos
    BY <1>1 DEF BytesOf, Reads
  <2> DEFINE n == Len(bytes)
  <2>3. n \in 1 .. 5 /\ pos \in 0 .. 5 /\ 35 = 7 * pos /\ pos < n
    BY <2>1, <2>2
  <2> HIDE DEF TooLong, n
  <2>4. pos = 5
    BY <2>3
  <2> QED BY ONLY <2>3, <2>4
<1>3. pc = "file" /\ inFile < Len(bytes) /\ outValue = value /\ val = NoResult
  BY <1>1, <1>2 DEF StringIInv, Written, Lost
<1>4. ~ whole
  <2>1. inFile \in 0 .. 5 /\ Len(bytes) \in 1 .. 5
    BY <1>1 DEF BytesOf, StringTypeOK
  <2>2. inFile # Len(bytes)
    BY <1>3, <2>1
  <2> QED BY <1>1, <2>2
<1>5. BytesOf(value, bytes)'
  BY <1>1 DEF BytesOf, Chopped, Chunk
<1>6. StringTypeOK'
  <2>1. pos' \in 0 .. 5 /\ shift' \in 0 .. 35 /\ byte' \subseteq 0 .. 7 /\ count' \subseteq Bits
    OBVIOUS
  <2> QED BY <1>1, <1>3, <2>1 DEF StringTypeOK
<1> QED BY <1>1, <1>3, <1>4, <1>5, <1>6 DEF StringIInv, Written

LEMMA ReadStringKeeps == ASSUME StringIInv, ReadString PROVE StringIInv'
<1> USE DEF ReadString
<1>1. /\ StringTypeOK /\ BytesOf(value, bytes) /\ bytes # << >>
      /\ inFile <= Len(bytes) /\ (whole => inFile = Len(bytes)) /\ value \in SUBSET Bits
      /\ outValue = value /\ val = NoResult /\ pos <= inFile
      /\ Reads(value, bytes) \/ Lost
  BY CodecAssumption DEF StringIInv, Written, StringTypeOK, Lost
<1>2. fread(count) <=> whole /\ value # {}
  <2>1. CASE Reads(value, bytes)
    <3>1. pos = Len(bytes) /\ count = value
      BY <1>1, <2>1, ReadsAll
    <3>2. ~ Less(value, value)
      BY DEF Less
    <3> QED BY <3>1, <3>2 DEF fread
  <2>2. CASE Lost
    <3>1. pos # Len(bytes) /\ inFile # Len(bytes)
      BY <1>1, <2>2 DEF Lost, BytesOf, StringTypeOK
    <3> QED BY <1>1, <3>1 DEF fread
  <2> QED BY <1>1, <2>1, <2>2
<1>3. fread(count) => count = value
  <2>1. CASE Reads(value, bytes)
    BY <1>1, <2>1, ReadsAll
  <2>2. CASE Lost
    BY <1>1, <2>2 DEF Lost, BytesOf, StringTypeOK, fread
  <2> QED BY <1>1, <2>1, <2>2
<1>4. val' = IF memory /\ whole /\ value # {} THEN value ELSE NoResult
  BY <1>2, <1>3
<1>5. BytesOf(value, bytes)'
  BY <1>1 DEF BytesOf, Chopped, Chunk
<1>6. StringTypeOK'
  <2>1. val' \in (SUBSET Bits) \cup {NoResult}
    BY <1>1, <1>4
  <2> QED BY <1>1, <2>1 DEF StringTypeOK
<1> QED BY <1>1, <1>4, <1>5, <1>6 DEF StringIInv, Written

LEMMA StutterKeeps == ASSUME StringIInv, UNCHANGED stringVars PROVE StringIInv'
BY ZenonT(30) DEF StringIInv, Written, Lost, stringVars, StringTypeOK, Writing, BytesOf, Chopped, Chunk, Reads,
       LowPart

LEMMA StringNextKeeps == StringIInv /\ [StringNext]_stringVars => StringIInv'
BY WriteByteKeeps, WriteLastKeeps, ReadBufferKeeps, BufferDoneKeeps, ReadFileKeeps, TooLongKeeps,
   ReadStringKeeps, StutterKeeps DEF StringNext

LEMMA StringPart == Spec => StringSpec
<1>1. Init => StringInit \/ StringIdle
  BY DEF Init
<1>2. [Next]_vars => [StringNext]_stringVars
  BY DEF Next, vars
<1> QED BY <1>1, <1>2, PTL DEF Spec, StringSpec

LEMMA StringInvariance == Spec => []StringIInv
<1>1. StringSpec => []StringIInv
  BY InitKeeps, StringNextKeeps, PTL DEF StringSpec
<1> QED BY <1>1, StringPart, PTL

\* What the reader of buffers returns is what was written, and the reader of files
\* returns a string exactly if all of it is in the file (binary_writer.c:43-56,
\* binary_reader.c:369-390 and :266-307).
THEOREM StringsSurvive == Spec => []RoundTrip
<1>1. StringIInv => RoundTrip
  BY DEF StringIInv, Written, RoundTrip
<1> QED BY <1>1, StringInvariance, PTL

\* A length has as many bytes as binary_writer_7bit_len says, which messages rely
\* on (binary_writer.c:29-41, :72).
THEOREM LengthsAreCounted == Spec => []LengthIsCounted
<1>1. ASSUME StringIInv, pc # "write", bytes # << >>
      PROVE  Len(bytes) = binary_writer_7bit_len(value)
  <2> DEFINE n == Len(bytes)
  <2>1. BytesOf(value, bytes) /\ \A b \in value : b \in 0 .. 31
    BY <1>1, CodecAssumption DEF StringIInv, Written, StringTypeOK, Bits
  <2>2. n \in 1 .. 5 /\ (\A b \in value : b < 7 * n) /\ \A k \in 1 .. n - 1 : \E b \in value : b >= 7 * k
    BY <2>1 DEF BytesOf
  <2> HIDE DEF n
  <2>3. {k \in 1 .. 4 : value \ (0 .. 7 * k - 1) # {}} = 1 .. n - 1
    <3>1. ASSUME NEW k \in 1 .. 4 PROVE value \ (0 .. 7 * k - 1) # {} <=> k \in 1 .. n - 1
      <4>1. ASSUME NEW b \in value PROVE b \in 0 .. 7 * k - 1 <=> ~ (b >= 7 * k)
        <5>1. b \in 0 .. 31
          BY <2>1
        <5> QED BY <5>1
      <4>2. CASE k \in 1 .. n - 1
        BY <2>2, <4>1, <4>2
      <4>3. CASE k \notin 1 .. n - 1
        <5>1. n <= k
          BY <2>2, <4>3
        <5>2. ASSUME NEW b \in value PROVE ~ (b >= 7 * k)
          <6>1. b \in 0 .. 31 /\ b < 7 * n
            BY <2>1, <2>2
          <6> QED BY <2>2, <5>1, <6>1
        <5> QED BY <4>1, <4>3, <5>2
      <4> QED BY <4>2, <4>3
    <3>2. 1 .. n - 1 \subseteq 1 .. 4
      BY <2>2
    <3> QED BY <3>1, <3>2
  <2>4. Cardinality(1 .. n - 1) = n - 1
    <3>1. 1 \in Int /\ n - 1 \in Int
      BY <2>2
    <3>2. Cardinality(1 .. n - 1) = IF 1 > n - 1 THEN 0 ELSE (n - 1) - 1 + 1
      BY <3>1, FS_Interval
    <3> QED BY <2>2, <3>2
  <2>5. binary_writer_7bit_len(value) = Cardinality({k \in 1 .. 4 : value \ (0 .. 7 * k - 1) # {}}) + 1
    BY DEF binary_writer_7bit_len
  <2>6. binary_writer_7bit_len(value) = n
    <3>1. Cardinality({k \in 1 .. 4 : value \ (0 .. 7 * k - 1) # {}}) = n - 1
      BY <2>3, <2>4
    <3> QED BY <2>2, <2>5, <3>1
  <2> QED BY <2>6 DEF n
<1>2. StringIInv => LengthIsCounted
  BY <1>1 DEF LengthIsCounted
<1> QED BY <1>2, StringInvariance, PTL

-----------------------------------------------------------------------------
(* The memory of a message. *)

\* Every new function is NewFunction, for some body and text.
LEMMA NewPacketIsNewFunction ==
    ASSUME NEW type \in NewOf, NEW h, NEW r, r = NewPacket(type, h)
    PROVE  \E hasBody \in BOOLEAN, textIn \in {"none", "body", "reply"}, checked \in BOOLEAN :
              /\ textIn = "body" => hasBody
              /\ r = NewFunction(h, "player", hasBody, textIn, checked)
<1> USE DEF NewPacket, NewOf, HasWrite, CONTINUE_CONNECTING, INVENTORY_SLOT, TILE_SECTION,
            SECTION_TILE_FRAME, PLAYER_INFO, STATUS, CHAT_MESSAGE, DISCONNECT, CLIENT_UUID,
            WORLD_INFO, CONNECTION_COMPLETE, PLAYER_HP, PLAYER_MANA
<1>1. type = CONTINUE_CONNECTING => r = NewFunction(h, "player", TRUE, "none", TRUE)
  BY DEF continue_connecting_new
<1>2. type = INVENTORY_SLOT => r = NewFunction(h, "player", TRUE, "none", TRUE)
  BY DEF inventory_slot_new
<1>3. type = TILE_SECTION => r = NewFunction(h, "player", TRUE, "none", TRUE)
  BY DEF tile_section_new
<1>4. type = SECTION_TILE_FRAME => r = NewFunction(h, "player", TRUE, "none", TRUE)
  BY DEF section_tile_frame_new
<1>5. type = PLAYER_INFO => r = NewFunction(h, "player", TRUE, "body", TRUE)
  BY DEF player_info_new
<1>6. type = STATUS => r = NewFunction(h, "player", TRUE, "body", TRUE)
  BY DEF status_new
<1>7. type = CHAT_MESSAGE => r = NewFunction(h, "player", TRUE, "reply", TRUE)
  BY DEF chat_message_new
<1>8. type = DISCONNECT => r = NewFunction(h, "player", TRUE, "body", FALSE)
  BY DEF disconnect_new
<1>9. type = CLIENT_UUID => r = NewFunction(h, "player", TRUE, "body", FALSE)
  BY DEF client_uuid_new
<1>10. type = WORLD_INFO => r = NewFunction(h, "player", TRUE, "body", FALSE)
  BY DEF world_info_new
<1>11. type = CONNECTION_COMPLETE => r = NewFunction(h, "player", FALSE, "none", TRUE)
  BY DEF connection_complete_new
<1>12. type = PLAYER_HP => r = NewFunction(h, "player", FALSE, "none", TRUE)
  BY DEF player_hp_new
<1>13. type = PLAYER_MANA => r = NewFunction(h, "player", FALSE, "none", TRUE)
  BY DEF player_mana_new
<1>14. type \in {CONTINUE_CONNECTING, INVENTORY_SLOT, TILE_SECTION, SECTION_TILE_FRAME, PLAYER_INFO,
                STATUS, CHAT_MESSAGE, DISCONNECT, CLIENT_UUID, WORLD_INFO, CONNECTION_COMPLETE,
                PLAYER_HP, PLAYER_MANA}
  OBVIOUS
<1> QED BY <1>1, <1>2, <1>3, <1>4, <1>5, <1>6, <1>7, <1>8, <1>9, <1>10, <1>11, <1>12, <1>13, <1>14

\* What the sender has is the root of all that lies below it, and all that is
\* allocated lies below memory that is allocated.
LEMMA SenderIsSound ==
    ASSUME heap \in Heaps, NoReply \/ WholeReply("server"),
           packet = NoCell \/ heap[packet] = [is |-> "packet", in |-> "player"]
    PROVE  Sound(heap)
<1>1. ASSUME NEW c \in Cells, heap[c].is = "free" PROVE heap[c] = Free
  <2>1. Foreign(c) => heap[c] = Free
    BY <1>1, TallocAssumption DEF Foreign
  <2>2. CASE NoReply
    BY <2>1, <2>2 DEF NoReply
  <2>3. CASE WholeReply("server")
    <3>1. PICK b \in Cells :
            /\ b # reply => heap[b] = [is |-> "body", in |-> reply]
            /\ text # NoCell => heap[text] \in {[is |-> "text", in |-> p] : p \in {reply, b}}
            /\ \A d \in Cells \ {reply, b, text} : Foreign(d)
      BY <2>3 DEF WholeReply
    <3>2. heap[reply].is = "reply"
      BY <2>3 DEF WholeReply
    <3>3. c \notin {reply, b, text}
      BY <1>1, <3>1, <3>2, TallocAssumption
    <3> QED BY <2>1, <3>1, <3>3
  <2> QED BY <2>2, <2>3
<1>2. ASSUME NEW c \in Cells, heap[c].is # "free"
      PROVE  heap[c].in \notin Cells \/ heap[heap[c].in].is # "free"
  <2>1. ASSUME Foreign(c) PROVE heap[c].in \notin Cells
    BY <1>2, <2>1, TallocAssumption DEF Foreign, Free
  <2>2. CASE NoReply
    BY <2>1, <2>2 DEF NoReply
  <2>3. CASE WholeReply("server")
    <3>1. PICK b \in Cells :
            /\ b # reply => heap[b] = [is |-> "body", in |-> reply]
            /\ text # NoCell => heap[text] \in {[is |-> "text", in |-> p] : p \in {reply, b}}
            /\ \A d \in Cells \ {reply, b, text} : Foreign(d)
      BY <2>3 DEF WholeReply
    <3>2. reply \in Cells /\ heap[reply] = [is |-> "reply", in |-> "server"]
      BY <2>3 DEF WholeReply
    <3>3. CASE c = reply
      BY <3>2, <3>3, TallocAssumption
    <3>4. CASE c = b /\ b # reply
      BY <3>1, <3>2, <3>4
    <3>5. CASE c = text
      <4>1. text # NoCell
        BY <3>5, TallocAssumption
      <4>2. heap[c].in \in {reply, b}
        BY <3>1, <3>5, <4>1
      <4> QED BY <3>1, <3>2, <4>2
    <3>6. CASE c \notin {reply, b, text}
      BY <2>1, <3>1, <3>6
    <3> QED BY <3>3, <3>4, <3>5, <3>6
  <2> QED BY <2>2, <2>3
<1> QED BY <1>1, <1>2 DEF Sound

\* What lies below the packet of the sender.
LEMMA ReplySubtree ==
    ASSUME heap \in Heaps, packet = NoCell, NEW owner \in {"player", "server"}, WholeReply(owner)
    PROVE  \E b \in Cells :
              /\ Subtree(heap, reply) = {reply, b, text} \ {NoCell}
              /\ \A c \in Cells \ {reply, b, text} :
                    heap[c] \in {Free, [is |-> "text", in |-> "server"]}
              /\ b # reply => heap[b] = [is |-> "body", in |-> reply]
              /\ text # NoCell => /\ text \in Cells /\ text \notin {reply, b}
                                  /\ heap[text].is = "text"
<1>1. PICK b \in Cells :
        /\ b # reply => heap[b] = [is |-> "body", in |-> reply]
        /\ text # NoCell => /\ text \in Cells /\ text \notin {reply, b}
                            /\ heap[text] \in {[is |-> "text", in |-> p] : p \in {reply, b}}
        /\ \A c \in Cells \ {reply, b, text} : Foreign(c)
  BY DEF WholeReply
<1>2. /\ reply \in Cells /\ heap[reply] = [is |-> "reply", in |-> owner]
      /\ owner \notin Cells
  BY TallocAssumption DEF WholeReply
<1>3. \A c \in Cells \ {reply, b, text} : heap[c] \in {Free, [is |-> "text", in |-> "server"]}
  BY <1>1, TallocAssumption DEF Foreign
<1>4. text # NoCell => heap[text].is = "text" /\ heap[text].in \in {reply, b}
  BY <1>1
<1> DEFINE S == {b, text} \ {NoCell}
<1>5. S \subseteq Subtree(heap, reply)
  <2>1. b \in Subtree(heap, reply)
    <3>1. b # reply => heap[b].is # "free" /\ heap[b].in = reply
      BY <1>1
    <3> QED BY <3>1, SubtreeHasRoot, SubtreeHasChildren
  <2>2. text # NoCell => text \in Subtree(heap, reply)
    <3>1. ASSUME text # NoCell
          PROVE  text \in Cells /\ heap[text].is # "free" /\ heap[text].in \in Subtree(heap, reply)
      BY <1>1, <1>4, <2>1, <3>1, SubtreeHasRoot
    <3> QED BY <3>1, SubtreeHasChildren
  <2> QED BY <2>1, <2>2
<1>6. \A d \in Cells : heap[d].is # "free" /\ heap[d].in \in S \cup {reply} => d \in S \cup {reply}
  <2> SUFFICES ASSUME NEW d \in Cells, d \notin {reply, b, text}, heap[d].is # "free"
               PROVE  heap[d].in \notin S \cup {reply}
    BY TallocAssumption
  <2>1. heap[d].in = "server"
    BY <1>3 DEF Free
  <2>2. S \cup {reply} \subseteq Cells
    BY <1>1, <1>2
  <2> QED BY <2>1, <2>2, TallocAssumption
<1>7. Subtree(heap, reply) = S \cup {reply}
  BY <1>5, <1>6, SubtreeIs DEF Below
<1>8. S \cup {reply} = {reply, b, text} \ {NoCell}
  BY <1>2, TallocAssumption
<1> QED BY <1>1, <1>3, <1>4, <1>7, <1>8

LEMMA MessageInitKeeps == MessageInit \/ MessageIdle => MessageIInv
<1> SUFFICES ASSUME MessageInit \/ MessageIdle PROVE MessageIInv
  OBVIOUS
<1>1. reply = NoCell /\ text = NoCell /\ packet = NoCell
  BY DEF MessageInit, MessageIdle, NotYet
<1>2. stage \in {"none", "new", "arriving"}
  BY DEF MessageInit, MessageIdle
<1>3. heap \in [Cells -> {Free, [is |-> "text", in |-> "server"]}]
  BY DEF MessageInit, MessageIdle, EmptyHeap
<1>4. {Free, [is |-> "text", in |-> "server"]}
      \subseteq [is : Kinds, in : Cells \cup {"player", "server", "top"}]
  BY DEF Free, Kinds
<1>5. \A c \in Cells : heap[c] \in {Free, [is |-> "text", in |-> "server"]}
  BY <1>3
<1>6. heap \in Heaps
  BY <1>3, <1>4 DEF Heaps
<1>7. OfKind("temp") = {}
  BY <1>5 DEF OfKind, Free
<1>8. NoReply
  BY <1>1, <1>5 DEF NoReply, Foreign
<1> QED BY <1>1, <1>2, <1>6, <1>7, <1>8 DEF MessageIInv

\* A new function leaves its packet as WholeReply says, or the memory as it was.
LEMMA NewKeeps == ASSUME MessageIInv, New PROVE MessageIInv'
<1> DEFINE made == NewPacket(message.type, heap)
<1>1. /\ stage = "new" /\ heap \in Heaps /\ packet = NoCell /\ reply = NoCell /\ text = NoCell
      /\ packet' = NoCell /\ message' = message /\ OfKind("temp") = {} /\ NoReply
      /\ \A c \in Cells : heap[c] \in {Free, [is |-> "text", in |-> "server"]}
  BY TallocAssumption DEF MessageIInv, New, NoReply, Foreign
<1>2. /\ heap' = made.heap
      /\ \/ made.ok /\ stage' = "made" /\ reply' = made.reply /\ text' = made.text
         \/ ~ made.ok /\ stage' = "failed" /\ reply' = NoCell /\ text' = NoCell
  BY <1>1 DEF New
<1>3. Sound(heap)
  BY <1>1, SenderIsSound
<1>4. PICK hasBody \in BOOLEAN, textIn \in {"none", "body", "reply"}, checked \in BOOLEAN :
         /\ textIn = "body" => hasBody
         /\ made = NewFunction(heap, "player", hasBody, textIn, checked)
  BY NewPacketIsNewFunction DEF New
<1> HIDE DEF made
<1>5. WholeOrNothing(made, heap, "player", hasBody, textIn, checked)
  BY <1>3, <1>4, NewFunctionLeaves
<1>6. CASE made.ok = FALSE /\ made.heap = heap
  <2>1. stage' = "failed" /\ heap' = heap
    BY <1>2, <1>6
  <2>2. OfKind("temp")' = {} /\ (OfKind("reply") \cup OfKind("body"))' = {}
    BY <1>1, <2>1 DEF OfKind, Free
  <2> QED BY <1>1, <2>1, <2>2 DEF MessageIInv
<1>7. CASE made.ok = TRUE
  <2>1. PICK p, b \in Cells, x \in Cells \cup {NoCell} :
             /\ heap[p] = Free /\ heap[b] = Free /\ (x # NoCell => heap[x] = Free)
             /\ x # p /\ x # b
             /\ made.reply = p /\ made.text = x
             /\ made.heap = WithReply(heap, "player", p, b, x, textIn)
    BY <1>5, <1>7 DEF WholeOrNothing
  <2>2. stage' = "made" /\ reply' = p /\ text' = x
    BY <1>2, <1>7, <2>1
  <2>3. \A c \in Cells : heap'[c] =
           IF c = p THEN [is |-> "reply", in |-> "player"]
           ELSE IF c = b THEN [is |-> "body", in |-> p]
           ELSE IF c = x THEN [is |-> "text", in |-> IF textIn = "body" THEN b ELSE p]
           ELSE heap[c]
    BY <1>2, <2>1 DEF WithReply
  <2>4. heap' \in Heaps
    BY <1>1, <1>2, <2>1 DEF WithReply, Heaps, Kinds
  <2>5. OfKind("temp")' = {}
    BY <1>1, <2>3 DEF OfKind
  <2>6. WholeReply("player")'
    <3>1. p \in Cells /\ heap'[p] = [is |-> "reply", in |-> "player"]
      BY <2>3
    <3>2. b # p => heap'[b] = [is |-> "body", in |-> p]
      BY <2>3
    <3>3. x # NoCell => /\ x \in Cells /\ x \notin {p, b}
                        /\ heap'[x] \in {[is |-> "text", in |-> q] : q \in {p, b}}
      BY <2>1, <2>3
    <3>4. \A c \in Cells \ {p, b, x} : Foreign(c)'
      BY <1>1, <2>3 DEF Foreign
    <3> QED BY <2>2, <3>1, <3>2, <3>3, <3>4 DEF WholeReply
  <2> QED BY <1>1, <2>2, <2>4, <2>5, <2>6 DEF MessageIInv
<1> QED BY <1>5, <1>6, <1>7 DEF WholeOrNothing

\* Serialising a packet and failing to leave the memory alone.
LEMMA SerializeKeeps ==
    ASSUME MessageIInv, packet_serialize \/ SerializeFails \/ SerializeCrashes
    PROVE  MessageIInv'
<1>1. /\ stage = "made" /\ stage' \in {"written", "unwritten", "crashed"}
      /\ UNCHANGED << message, heap, reply, text, packet >>
      /\ stage' = "crashed" => CrashIsKnown
  BY DEF packet_serialize, SerializeFails, SerializeCrashes, CrashIsKnown
<1>2. WholeReply("player")' <=> WholeReply("player")
  BY <1>1 DEF WholeReply, Foreign
<1>3. OfKind("temp")' = OfKind("temp") /\ CrashIsKnown' = CrashIsKnown
  BY <1>1 DEF OfKind, CrashIsKnown, NoText
<1> QED BY <1>1, <1>2, <1>3 DEF MessageIInv

LEMMA server_sendKeeps == ASSUME MessageIInv, server_send PROVE MessageIInv'
<1>1. /\ stage = "written" /\ stage' \in {"arriving", "sent"}
      /\ heap' = TallocSteal(heap, "server", reply)
      /\ UNCHANGED << message, reply, text, packet >>
      /\ heap \in Heaps /\ OfKind("temp") = {} /\ packet = NoCell /\ WholeReply("player")
  BY DEF MessageIInv, server_send
<1>2. reply \in Cells /\ heap[reply].is = "reply"
  BY <1>1 DEF WholeReply
<1>3. /\ heap' \in Heaps
      /\ \A d \in Cells : heap'[d] = IF d = reply THEN [is |-> "reply", in |-> "server"] ELSE heap[d]
  BY <1>1, <1>2, StealCell
<1>4. OfKind("temp")' = {}
  BY <1>1, <1>3 DEF OfKind
<1>5. PICK b \in Cells :
        /\ b # reply => heap[b] = [is |-> "body", in |-> reply]
        /\ text # NoCell => /\ text \in Cells /\ text \notin {reply, b}
                            /\ heap[text] \in {[is |-> "text", in |-> p] : p \in {reply, b}}
        /\ \A c \in Cells \ {reply, b, text} : Foreign(c)
  BY <1>1 DEF WholeReply
<1>6. \A c \in Cells \ {reply, b, text} : Foreign(c)'
  BY <1>1, <1>3, <1>5 DEF Foreign
<1>7. heap'[reply] = [is |-> "reply", in |-> "server"]
  BY <1>2, <1>3
<1>8. /\ b # reply => heap'[b] = [is |-> "body", in |-> reply]
      /\ text # NoCell => heap'[text] \in {[is |-> "text", in |-> p] : p \in {reply, b}}
  BY <1>3, <1>5
<1>9. WholeReply("server")'
  BY <1>1, <1>2, <1>5, <1>6, <1>7, <1>8 DEF WholeReply
<1> QED BY <1>1, <1>3, <1>4, <1>9 DEF MessageIInv

LEMMA FreeReplyKeeps == ASSUME MessageIInv, FreeReply PROVE MessageIInv'
<1>1. /\ stage' = "freed" /\ heap' = TallocFree(heap, reply)
      /\ UNCHANGED << message, reply, text, packet >>
      /\ heap \in Heaps /\ OfKind("temp") = {} /\ packet = NoCell /\ WholeReply("player")
  BY DEF MessageIInv, FreeReply
<1>2. {reply, text} \ {NoCell} \subseteq Subtree(heap, reply)
  BY <1>1, ReplySubtree
<1>3. heap' = [c \in Cells |-> IF c \in Subtree(heap, reply) THEN Free ELSE heap[c]]
  BY <1>1 DEF TallocFree
<1>4. heap' \in Heaps
  BY <1>1, <1>3 DEF Heaps, Free, Kinds
<1>5. OfKind("temp")' = {}
  BY <1>1, <1>3 DEF OfKind, Free
<1>6. {reply, text} \ {NoCell} \subseteq Cells
  BY <1>1 DEF WholeReply
<1>7. \A c \in {reply, text} \ {NoCell} : heap'[c] = Free
  BY <1>2, <1>3, <1>6
<1> QED BY <1>1, <1>4, <1>5, <1>7 DEF MessageIInv

LEMMA ArriveKeeps == ASSUME MessageIInv, Arrive PROVE MessageIInv'
<1> DEFINE received == TallocNew(heap, "packet", "player")
<1>1. /\ heap' = received.heap /\ packet' = received.cell
      /\ stage' = IF received.cell = NoCell THEN "failed" ELSE "arrived"
      /\ UNCHANGED << message, reply, text >>
      /\ heap \in Heaps /\ OfKind("temp") = {} /\ packet = NoCell
      /\ NoReply \/ WholeReply("server")
  BY DEF MessageIInv, Arrive
<1>2. Gives(received, heap, "packet", "player")
  BY TallocNewGives
<1> HIDE DEF received
<1>3. Sound(heap)
  BY <1>1, SenderIsSound
<1>4. \A c \in Cells : Foreign(c) => heap[c] \in {Free, [is |-> "text", in |-> "server"]}
  BY <1>1, TallocAssumption DEF Foreign
<1>5. CASE received.cell = NoCell
  <2>1. stage' = "failed" /\ heap' = heap
    BY <1>1, <1>2, <1>5 DEF Gives
  <2>2. ASSUME reply = NoCell PROVE OfKind("reply") \cup OfKind("body") = {}
    <3>1. NoReply
      BY <1>1, <2>2, TallocAssumption DEF WholeReply
    <3> QED BY <1>4, <3>1 DEF NoReply, OfKind, Free
  <2>3. \A kind : OfKind(kind)' = OfKind(kind)
    BY <2>1 DEF OfKind
  <2> QED BY <1>1, <2>1, <2>2, <2>3 DEF MessageIInv
<1>6. CASE received.cell # NoCell
  <2>1. PICK k \in Cells : /\ received.cell = k /\ k # NoCell /\ heap[k].is = "free"
                          /\ received.heap = [heap EXCEPT ![k] = [is |-> "packet", in |-> "player"]]
    BY <1>2, <1>6 DEF Gives
  <2>2. stage' = "arrived" /\ packet' = k
    BY <1>1, <2>1
  <2>3. \A d \in Cells : heap'[d] = IF d = k THEN [is |-> "packet", in |-> "player"] ELSE heap[d]
    BY <1>1, <2>1 DEF Heaps
  <2>4. heap' \in Heaps
    BY <1>1, <2>1 DEF Heaps, Kinds
  <2>5. OfKind("temp")' = {}
    BY <1>1, <2>3 DEF OfKind
  <2>6. \A c \in Cells : Foreign(c) => Foreign(c)'
    BY <1>4, <2>2, <2>3 DEF Foreign
  <2>7. CASE NoReply
    <3>1. NoReply'
      BY <1>1, <2>6, <2>7 DEF NoReply
    <3> QED BY <2>2, <2>3, <2>4, <2>5, <3>1 DEF MessageIInv
  <2>8. CASE WholeReply("server")
    <3>1. PICK b \in Cells :
            /\ b # reply => heap[b] = [is |-> "body", in |-> reply]
            /\ text # NoCell => /\ text \in Cells /\ text \notin {reply, b}
                                /\ heap[text] \in {[is |-> "text", in |-> p] : p \in {reply, b}}
            /\ \A c \in Cells \ {reply, b, text} : Foreign(c)
      BY <2>8 DEF WholeReply
    <3>2. reply \in Cells /\ heap[reply] = [is |-> "reply", in |-> "server"]
      BY <2>8 DEF WholeReply
    <3>3. k # reply /\ k # b /\ k # text
      BY <2>1, <3>1, <3>2
    <3>4. heap'[reply] = [is |-> "reply", in |-> "server"]
      BY <2>3, <3>2, <3>3
    <3>5. /\ b # reply => heap'[b] = [is |-> "body", in |-> reply]
          /\ text # NoCell => heap'[text] \in {[is |-> "text", in |-> p] : p \in {reply, b}}
      BY <2>3, <3>1, <3>3
    <3>6. WholeReply("server")'
      BY <1>1, <2>6, <3>1, <3>2, <3>4, <3>5 DEF WholeReply
    <3> QED BY <2>2, <2>3, <2>4, <2>5, <3>6 DEF MessageIInv
  <2> QED BY <1>1, <2>7, <2>8
<1> QED BY <1>5, <1>6

\* A Read function leaves the body and the text of the message below the packet, or
\* the memory as it was.
LEMMA DeserializeKeeps == ASSUME MessageIInv, Deserialize PROVE MessageIInv'
<1> DEFINE made == packet_deserialize(heap, packet, message.type)
<1>1. /\ heap' = made.heap
      /\ stage' = CASE made.res = "ok" -> "read" [] made.res = "error" -> "failed"
                    [] made.res = "crash" -> "crashed"
      /\ UNCHANGED << message, reply, text, packet >>
  BY DEF Deserialize
<1>2. /\ heap \in Heaps /\ OfKind("temp") = {} /\ packet \in Cells
      /\ heap[packet] = [is |-> "packet", in |-> "player"]
      /\ NoReply \/ WholeReply("server")
  BY DEF MessageIInv, Deserialize
<1>3. Sound(heap)
  BY <1>2, SenderIsSound
<1>4. \/ made.res = "error" /\ made.heap = heap
      \/ \E hasText \in BOOLEAN, noText \in {"error", "crash"} :
           /\ made = ReadFunction(heap, packet, hasText, noText)
           /\ noText = "crash" => message.type = PLAYER_INFO
  BY DeserializeReads
<1> HIDE DEF made
<1>5. \/ made.heap = heap /\ made.res = "error"
      \/ made.heap = heap /\ made.res = "crash" /\ message.type = PLAYER_INFO
      \/ /\ made.res = "ok"
         /\ \/ \E b \in Cells : made.heap = WithBody(heap, packet, b)
            \/ \E b, x \in Cells : made.heap = WithText(heap, packet, b, x)
  <2>1. CASE made.res = "error" /\ made.heap = heap
    BY <2>1
  <2>2. ASSUME NEW hasText \in BOOLEAN, NEW noText \in {"error", "crash"},
               made = ReadFunction(heap, packet, hasText, noText),
               noText = "crash" => message.type = PLAYER_INFO
        PROVE  \/ made.heap = heap /\ made.res = "error"
               \/ made.heap = heap /\ made.res = "crash" /\ message.type = PLAYER_INFO
               \/ /\ made.res = "ok"
                  /\ \/ \E b \in Cells : made.heap = WithBody(heap, packet, b)
                     \/ \E b, x \in Cells : made.heap = WithText(heap, packet, b, x)
    <3>1. \/ made.res \in {"error", noText} /\ made.heap = heap
          \/ /\ made.res = "ok" /\ ~ hasText /\ made.text = NoCell
             /\ \E b \in Cells : heap[b] = Free /\ made.heap = WithBody(heap, packet, b)
          \/ /\ made.res = "ok" /\ hasText
             /\ \E b, x \in Cells : /\ b # x /\ heap[b] = Free /\ heap[x] = Free /\ made.text = x
                                    /\ made.heap = WithText(heap, packet, b, x)
      BY <1>2, <1>3, <2>2, ReadFunctionLeaves
    <3> QED BY <2>2, <3>1
  <2> QED BY <1>4, <2>1, <2>2
<1>6. CASE made.heap = heap /\ made.res = "error"
  <2>1. stage' = "failed" /\ heap' = heap
    BY <1>1, <1>6
  <2>2. \A kind : OfKind(kind)' = OfKind(kind)
    BY <2>1 DEF OfKind
  <2>3. ASSUME reply = NoCell PROVE OfKind("reply") \cup OfKind("body") = {}
    <3>1. NoReply
      BY <1>2, <2>3, TallocAssumption DEF WholeReply
    <3>2. \A c \in Cells : heap[c].is \in {"free", "text", "packet"}
      BY <1>2, <3>1 DEF NoReply, Foreign, Free
    <3> QED BY <3>2 DEF OfKind
  <2> QED BY <1>1, <1>2, <2>1, <2>2, <2>3 DEF MessageIInv
<1>7. CASE made.heap = heap /\ made.res = "crash" /\ message.type = PLAYER_INFO
  <2>1. stage' = "crashed" /\ heap' = heap
    BY <1>1, <1>7
  <2>2. OfKind("temp")' = {}
    BY <1>2, <2>1 DEF OfKind
  <2>3. CrashIsKnown'
    BY <1>1, <1>2, <1>7, TallocAssumption DEF CrashIsKnown
  <2> QED BY <1>2, <2>1, <2>2, <2>3 DEF MessageIInv
<1>8. ASSUME made.res = "ok", made.heap \in Heaps,
             \A c \in Cells : made.heap[c].is # "temp"
      PROVE  MessageIInv'
  <2>1. stage' = "read" /\ heap' \in Heaps /\ OfKind("temp")' = {}
    BY <1>1, <1>8 DEF OfKind
  <2> QED BY <2>1 DEF MessageIInv
<1>9. \A c \in Cells : heap[c].is # "temp"
  BY <1>2 DEF OfKind
<1>10. ASSUME NEW b \in Cells, made.heap = WithBody(heap, packet, b)
       PROVE  made.heap \in Heaps /\ \A c \in Cells : made.heap[c].is # "temp"
  <2>1. \A c \in Cells : made.heap[c] = IF c = b THEN [is |-> "body", in |-> packet] ELSE heap[c]
    BY <1>2, <1>10 DEF WithBody, Heaps
  <2>2. made.heap \in Heaps
    BY <1>2, <1>10 DEF WithBody, Heaps, Kinds
  <2> QED BY <1>9, <2>1, <2>2
<1>11. ASSUME NEW b \in Cells, NEW x \in Cells, made.heap = WithText(heap, packet, b, x)
       PROVE  made.heap \in Heaps /\ \A c \in Cells : made.heap[c].is # "temp"
  <2>1. \A c \in Cells : made.heap[c] = IF c = x THEN [is |-> "text", in |-> b]
                                        ELSE IF c = b THEN [is |-> "body", in |-> packet] ELSE heap[c]
    BY <1>2, <1>11 DEF WithText, Heaps
  <2>2. made.heap \in Heaps
    BY <1>2, <1>11 DEF WithText, Heaps, Kinds
  <2> QED BY <1>9, <2>1, <2>2
<1> QED BY <1>5, <1>6, <1>7, <1>8, <1>10, <1>11

LEMMA MessageStutterKeeps == ASSUME MessageIInv, UNCHANGED messageVars PROVE MessageIInv'
<1>1. UNCHANGED << message, stage, heap, reply, text, packet >>
  BY DEF messageVars
<1>2. /\ OfKind("temp")' = OfKind("temp") /\ OfKind("reply")' = OfKind("reply")
      /\ OfKind("body")' = OfKind("body")
  BY <1>1 DEF OfKind
<1>3. /\ CrashIsKnown' <=> CrashIsKnown
      /\ NoReply' <=> NoReply
      /\ WholeReply("player")' <=> WholeReply("player")
      /\ WholeReply("server")' <=> WholeReply("server")
  BY <1>1 DEF CrashIsKnown, NoText, NoReply, WholeReply, Foreign
<1> QED BY <1>1, <1>2, <1>3 DEF MessageIInv

LEMMA MessageInvariance == Spec => []MessageIInv
<1>1. Init => MessageIInv
  BY MessageInitKeeps DEF Init
<1>2. MessageIInv /\ [Next]_vars => MessageIInv'
  <2> SUFFICES ASSUME MessageIInv, [Next]_vars PROVE MessageIInv'
    OBVIOUS
  <2>1. CASE MessageNext
    BY <2>1, NewKeeps, SerializeKeeps, server_sendKeeps, FreeReplyKeeps, ArriveKeeps,
       DeserializeKeeps DEF MessageNext
  <2>2. CASE UNCHANGED messageVars
    BY <2>2, MessageStutterKeeps
  <2> QED BY <2>1, <2>2 DEF Next, vars
<1> QED BY <1>1, <1>2, PTL DEF Spec

\* Whichever allocations fail, a new function leaves a whole packet or nothing, a
\* freed packet leaves nothing, and no temporary context outlives its function (the
\* new functions of src/packets; world_info.c:112, disconnect.c:64).
THEOREM NewFunctionsAreWhole == Spec => []NewIsWholeOrNothing
<1>1. MessageIInv => NewIsWholeOrNothing
  <2> SUFFICES ASSUME MessageIInv PROVE NewIsWholeOrNothing
    OBVIOUS
  <2>1. /\ heap \in Heaps /\ OfKind("temp") = {}
        /\ stage = "freed" => \A c \in {reply, text} \ {NoCell} : heap[c] = Free
        /\ stage = "failed" /\ reply = NoCell => OfKind("reply") \cup OfKind("body") = {}
        /\ stage = "crashed" => CrashIsKnown
    BY DEF MessageIInv
  <2>2. stage = "freed" => {reply, text} \cap {c \in Cells : heap[c].is # "free"} = {}
    BY <2>1, TallocAssumption DEF Free
  <2>3. ASSUME stage \in {"made", "written"}
        PROVE  /\ OfKind("reply") = {reply}
               /\ {c \in Subtree(heap, reply) : heap[c].is = "text"} = {text} \ {NoCell}
               /\ heap[reply].in = "player"
               /\ OfKind("body") \subseteq Subtree(heap, reply)
    <3>1. packet = NoCell /\ WholeReply("player")
      BY <2>3 DEF MessageIInv
    <3>2. PICK b \in Cells :
              /\ Subtree(heap, reply) = {reply, b, text} \ {NoCell}
              /\ \A c \in Cells \ {reply, b, text} :
                    heap[c] \in {Free, [is |-> "text", in |-> "server"]}
              /\ b # reply => heap[b] = [is |-> "body", in |-> reply]
              /\ text # NoCell => /\ text \in Cells /\ text \notin {reply, b}
                                  /\ heap[text].is = "text"
      BY <2>1, <3>1, ReplySubtree
    <3>3. reply \in Cells /\ heap[reply] = [is |-> "reply", in |-> "player"]
      BY <3>1 DEF WholeReply
    <3>4. \A c \in Cells \ {reply, b, text} : heap[c].is \in {"free", "text"}
      BY <3>2 DEF Free
    <3>5. OfKind("reply") = {reply}
      <4>1. ASSUME NEW c \in Cells, heap[c].is = "reply" PROVE c = reply
        BY <3>2, <3>4, <4>1, TallocAssumption
      <4> QED BY <3>3, <4>1 DEF OfKind
    <3>6. ASSUME NEW c \in Cells, heap[c].is = "body" PROVE c \in Subtree(heap, reply)
      BY <3>2, <3>4, <3>6, TallocAssumption
    <3>7. {c \in Subtree(heap, reply) : heap[c].is = "text"} = {text} \ {NoCell}
      <4>1. heap[reply].is # "text" /\ (b # reply => heap[b].is # "text")
        BY <3>2, <3>3
      <4> QED BY <3>2, <4>1, TallocAssumption
    <3> QED BY <3>3, <3>5, <3>6, <3>7 DEF OfKind
  <2> QED BY <2>1, <2>2, <2>3 DEF NewIsWholeOrNothing
<1> QED BY <1>1, MessageInvariance, PTL

-----------------------------------------------------------------------------
(* The positions of fields. *)

FieldsNamed(S) == [name : S, width : Nat, moves : Nat]

\* A layout of n bytes whose fields have just the names in S.
IsLayout(layout, S, n) ==
    /\ layout \in Seq(FieldsNamed(S))
    /\ {layout[k].name : k \in DOMAIN layout} = S
    /\ Size(layout) = n

\* The recursive function Position is what its definition says.
LEMMA PositionSteps ==
    ASSUME NEW S, NEW layout \in Seq(FieldsNamed(S))
    PROVE  /\ Position(layout)[0] = 0
           /\ \A k \in 1 .. Len(layout) : Position(layout)[k] = Position(layout)[k - 1] + layout[k].moves
<1> DEFINE L == 0 .. Len(layout)
           step == [a \in Nat \X Nat |->
                       IF a[1] + 1 \in 1 .. Len(layout) THEN a[2] + layout[a[1] + 1].moves ELSE a[2]]
           Solves(s) == s = [k \in L |-> IF k = 0 THEN 0 ELSE s[k - 1] + layout[k].moves]
<1>1. \A k \in 1 .. Len(layout) : layout[k].moves \in Nat
  <2>1. ASSUME NEW k \in 1 .. Len(layout) PROVE layout[k] \in FieldsNamed(S)
    BY ElementOfSequence
  <2> QED BY <2>1 DEF FieldsNamed
<1>2. Len(layout) \in Nat
  OBVIOUS
<1>3. step \in [Nat \X Nat -> Nat]
  BY <1>1
<1>4. PICK f : Repeats(f, Nat, 0, step)
  <2> HIDE DEF step
  <2> QED BY <1>3, PrimitiveRecursion
<1> DEFINE s == [k \in L |-> f[k]]
<1>5. ASSUME NEW k \in L, k # 0 PROVE s[k] = s[k - 1] + layout[k].moves
  <2>1. k - 1 \in Nat /\ (k - 1) + 1 = k /\ k \in 1 .. Len(layout) /\ k - 1 \in L
    BY <1>2, <1>5
  <2>2. f[k] = step[<< k - 1, f[k - 1] >>]
    BY <1>4, <2>1 DEF Repeats
  <2>3. step[<< k - 1, f[k - 1] >>] = f[k - 1] + layout[k].moves
    BY <1>4, <2>1 DEF Repeats
  <2> QED BY <2>1, <2>2, <2>3
<1>6. s[0] = 0
  BY <1>2, <1>4 DEF Repeats
<1>7. Solves(s)
  <2> DEFINE t == [k \in L |-> IF k = 0 THEN 0 ELSE s[k - 1] + layout[k].moves]
  <2>1. \A k \in L : s[k] = t[k]
    BY <1>5, <1>6
  <2> QED BY <2>1
<1>8. Position(layout) = CHOOSE g : Solves(g)
  BY DEF Position
<1>9. Solves(Position(layout))
  <2> HIDE DEF s, Solves
  <2> QED BY <1>7, <1>8
<1>10. ASSUME NEW g, Solves(g)
       PROVE  g[0] = 0 /\ \A k \in 1 .. Len(layout) : g[k] = g[k - 1] + layout[k].moves
  <2>1. g[0] = 0
    BY <1>2, <1>10
  <2>2. ASSUME NEW k \in 1 .. Len(layout) PROVE g[k] = g[k - 1] + layout[k].moves
    <3>1. k \in L /\ k # 0
      BY <1>2
    <3> QED BY <1>10, <3>1
  <2> QED BY <2>1, <2>2
<1> HIDE DEF Solves
<1> QED BY <1>9, <1>10

LEMMA PositionType ==
    ASSUME NEW S, NEW layout \in Seq(FieldsNamed(S)), NEW k \in 0 .. Len(layout)
    PROVE  Position(layout)[k] \in Nat
<1> DEFINE Bad == {j \in 0 .. Len(layout) : Position(layout)[j] \notin Nat}
<1> SUFFICES ASSUME Bad # {} PROVE FALSE
  OBVIOUS
<1>1. Bad \in SUBSET Nat
  OBVIOUS
<1>2. PICK j \in Bad : \A i \in Bad : j <= i
  <2> HIDE DEF Bad
  <2> QED BY <1>1, LeastNatural
<1>3. j # 0
  BY PositionSteps
<1>4. j \in 1 .. Len(layout) /\ j - 1 \in 0 .. Len(layout) /\ ~ (j <= j - 1)
  BY <1>3
<1>5. Position(layout)[j - 1] \in Nat
  BY <1>2, <1>4
<1>6. layout[j].moves \in Nat
  <2>1. layout[j] \in FieldsNamed(S)
    BY <1>4, ElementOfSequence
  <2> QED BY <2>1 DEF FieldsNamed
<1>7. Position(layout)[j] = Position(layout)[j - 1] + layout[j].moves
  BY <1>4, PositionSteps
<1> QED BY <1>5, <1>6, <1>7

LEMMA JoinedSequence ==
    ASSUME NEW S, NEW a \in Seq(S), NEW b \in Seq(S)
    PROVE  /\ a \o b \in Seq(S) /\ Len(a \o b) = Len(a) + Len(b)
           /\ Len(a) \in Nat /\ Len(b) \in Nat
           /\ \A k \in 1 .. Len(a) : (a \o b)[k] = a[k]
           /\ \A k \in 1 .. Len(b) : (a \o b)[Len(a) + k] = b[k]
OBVIOUS

\* The sequence c is a and behind it b.
Joins(S, a, b, c) ==
    /\ c \in Seq(S) /\ Len(c) = Len(a) + Len(b)
    /\ \A k \in 1 .. Len(a) : c[k] = a[k]
    /\ \A k \in 1 .. Len(b) : c[Len(a) + k] = b[k]

LEMMA JoinsIs ==
    ASSUME NEW S, NEW a \in Seq(S), NEW b \in Seq(S)
    PROVE  Joins(S, a, b, a \o b)
BY JoinedSequence DEF Joins

\* The positions in two layouts, one behind the other.
LEMMA PositionJoin ==
    ASSUME NEW S, NEW a \in Seq(FieldsNamed(S)), NEW b \in Seq(FieldsNamed(S))
    PROVE  /\ \A k \in 0 .. Len(a) : Position(a \o b)[k] = Position(a)[k]
           /\ \A k \in 0 .. Len(b) : Position(a \o b)[Len(a) + k] = Size(a) + Position(b)[k]
<1> DEFINE c == a \o b
<1>1. /\ c \in Seq(FieldsNamed(S)) /\ Len(c) = Len(a) + Len(b)
      /\ Len(a) \in Nat /\ Len(b) \in Nat
      /\ \A k \in 1 .. Len(a) : c[k] = a[k]
      /\ \A k \in 1 .. Len(b) : c[Len(a) + k] = b[k]
  BY JoinedSequence
<1> HIDE DEF c
<1>2. \A k \in 0 .. Len(a) : Position(c)[k] = Position(a)[k]
  <2> DEFINE Bad == {j \in 0 .. Len(a) : Position(c)[j] # Position(a)[j]}
  <2> SUFFICES ASSUME Bad # {} PROVE FALSE
    OBVIOUS
  <2>1. Bad \in SUBSET Nat
    OBVIOUS
  <2>2. PICK j \in Bad : \A i \in Bad : j <= i
    <3> HIDE DEF Bad
    <3> QED BY <2>1, LeastNatural
  <2>3. j # 0
    BY <1>1, PositionSteps
  <2>4. j \in 1 .. Len(a) /\ j \in 1 .. Len(c) /\ j - 1 \in 0 .. Len(a) /\ ~ (j <= j - 1)
    BY <1>1, <2>3
  <2>5. Position(c)[j - 1] = Position(a)[j - 1]
    BY <2>2, <2>4
  <2>6. /\ Position(c)[j] = Position(c)[j - 1] + c[j].moves
        /\ Position(a)[j] = Position(a)[j - 1] + a[j].moves
    BY <1>1, <2>4, PositionSteps
  <2>7. c[j] = a[j]
    BY <1>1, <2>4
  <2> QED BY <2>5, <2>6, <2>7
<1>3. \A k \in 0 .. Len(b) : Position(c)[Len(a) + k] = Size(a) + Position(b)[k]
  <2> DEFINE Bad == {j \in 0 .. Len(b) : Position(c)[Len(a) + j] # Size(a) + Position(b)[j]}
  <2> SUFFICES ASSUME Bad # {} PROVE FALSE
    OBVIOUS
  <2>1. Bad \in SUBSET Nat
    OBVIOUS
  <2>2. PICK j \in Bad : \A i \in Bad : j <= i
    <3> HIDE DEF Bad
    <3> QED BY <2>1, LeastNatural
  <2>3. Size(a) \in Nat
    BY <1>1, PositionType DEF Size
  <2>4. j # 0
    <3>1. Position(c)[Len(a) + 0] = Size(a) /\ Position(b)[0] = 0
      BY <1>1, <1>2, PositionSteps DEF Size
    <3> QED BY <2>3, <3>1
  <2>5. /\ j \in 1 .. Len(b) /\ Len(a) + j \in 1 .. Len(c) /\ j - 1 \in 0 .. Len(b)
        /\ ~ (j <= j - 1) /\ (Len(a) + j) - 1 = Len(a) + (j - 1)
    BY <1>1, <2>4
  <2>6. Position(c)[Len(a) + (j - 1)] = Size(a) + Position(b)[j - 1]
    BY <2>2, <2>5
  <2>7. /\ Position(c)[Len(a) + j] = Position(c)[Len(a) + (j - 1)] + c[Len(a) + j].moves
        /\ Position(b)[j] = Position(b)[j - 1] + b[j].moves
    BY <1>1, <2>5, PositionSteps
  <2>8. c[Len(a) + j] = b[j]
    BY <1>1, <2>5
  <2>9. Position(b)[j - 1] \in Nat /\ b[j].moves \in Nat
    <3>1. b[j] \in FieldsNamed(S)
      BY <2>5, ElementOfSequence
    <3> QED BY <2>5, <3>1, PositionType DEF FieldsNamed
  <2> QED BY <2>3, <2>6, <2>7, <2>8, <2>9
<1> QED BY <1>2, <1>3 DEF c

LEMMA LayoutJoin ==
    ASSUME NEW S, NEW T, NEW m, NEW n, NEW a, NEW b, IsLayout(a, S, m), IsLayout(b, T, n)
    PROVE  IsLayout(a \o b, S \cup T, m + n)
<1> DEFINE c == a \o b
           U == FieldsNamed(S \cup T)
<1>1. a \in Seq(FieldsNamed(S)) /\ b \in Seq(FieldsNamed(T))
  BY DEF IsLayout
<1>2. a \in Seq(U) /\ b \in Seq(U)
  <2>1. FieldsNamed(S) \subseteq U /\ FieldsNamed(T) \subseteq U
    BY DEF FieldsNamed
  <2> HIDE DEF U
  <2> QED BY <1>1, <2>1
<1>3. /\ c \in Seq(U) /\ Len(c) = Len(a) + Len(b)
      /\ Len(a) \in Nat /\ Len(b) \in Nat
      /\ \A k \in 1 .. Len(a) : c[k] = a[k]
      /\ \A k \in 1 .. Len(b) : c[Len(a) + k] = b[k]
  <2> HIDE DEF U
  <2> QED BY <1>2, JoinedSequence
<1>4. DOMAIN a = 1 .. Len(a) /\ DOMAIN b = 1 .. Len(b) /\ DOMAIN c = 1 .. Len(c)
  BY <1>1, <1>3
<1>5. {c[k].name : k \in DOMAIN c} = S \cup T
  <2>1. {a[k].name : k \in DOMAIN a} = S /\ {b[k].name : k \in DOMAIN b} = T
    BY DEF IsLayout
  <2> HIDE DEF c
  <2>2. ASSUME NEW k \in 1 .. Len(c) PROVE c[k].name \in S \cup T
    <3>1. CASE k <= Len(a)
      <4>1. k \in 1 .. Len(a)
        BY <1>3, <3>1
      <4> QED BY <1>3, <1>4, <2>1, <4>1
    <3>2. CASE ~ (k <= Len(a))
      <4>1. k - Len(a) \in 1 .. Len(b) /\ Len(a) + (k - Len(a)) = k
        BY <1>3, <3>2
      <4>2. c[k] = b[k - Len(a)]
        BY <1>3, <4>1
      <4> QED BY <1>4, <2>1, <4>1, <4>2
    <3> QED BY <3>1, <3>2
  <2>3. ASSUME NEW s \in S PROVE s \in {c[k].name : k \in DOMAIN c}
    <3>1. PICK k \in 1 .. Len(a) : s = a[k].name
      BY <1>4, <2>1
    <3>2. k \in 1 .. Len(c) /\ c[k] = a[k]
      BY <1>3
    <3> QED BY <1>4, <3>1, <3>2
  <2>4. ASSUME NEW t \in T PROVE t \in {c[k].name : k \in DOMAIN c}
    <3>1. PICK k \in 1 .. Len(b) : t = b[k].name
      BY <1>4, <2>1
    <3>2. Len(a) + k \in 1 .. Len(c) /\ c[Len(a) + k] = b[k]
      BY <1>3
    <3> QED BY <1>4, <3>1, <3>2
  <2> QED BY <1>4, <2>2, <2>3, <2>4
<1>6. Size(c) = m + n
  <2>1. Position(c)[Len(a) + Len(b)] = Size(a) + Position(b)[Len(b)]
    <3>1. \A k \in 0 .. Len(b) : Position(a \o b)[Len(a) + k] = Size(a) + Position(b)[k]
      BY <1>2, PositionJoin
    <3> QED BY <1>3, <3>1
  <2> QED BY <1>3, <2>1 DEF Size, IsLayout
<1> QED BY <1>3, <1>5, <1>6 DEF IsLayout

LEMMA LayoutOne ==
    ASSUME NEW name, NEW width \in Nat, NEW moves \in Nat
    PROVE  IsLayout(<< [name |-> name, width |-> width, moves |-> moves] >>, {name}, moves)
<1> DEFINE f == [name |-> name, width |-> width, moves |-> moves]
           l == << f >>
<1>1. f \in FieldsNamed({name})
  BY DEF FieldsNamed
<1>2. f.name = name /\ f.moves = moves
  OBVIOUS
<1> HIDE DEF f
<1>3. l \in Seq(FieldsNamed({name})) /\ Len(l) = 1 /\ DOMAIN l = {1} /\ l[1] = f
  BY <1>1
<1>4. Position(l)[1] = Position(l)[0] + l[1].moves /\ Position(l)[0] = 0
  <2>1. 1 \in 1 .. Len(l) /\ 1 - 1 = 0
    BY <1>3
  <2> HIDE DEF l
  <2>2. /\ Position(l)[0] = 0
        /\ \A k \in 1 .. Len(l) : Position(l)[k] = Position(l)[k - 1] + l[k].moves
    BY <1>3, PositionSteps
  <2> QED BY <2>1, <2>2
<1>5. Size(l) = moves
  BY <1>2, <1>3, <1>4 DEF Size
<1>6. {l[k].name : k \in DOMAIN l} = {name}
  BY <1>2, <1>3
<1> QED BY <1>3, <1>5, <1>6 DEF IsLayout, f

LEMMA LayoutField ==
    ASSUME NEW name, NEW width \in Nat
    PROVE  IsLayout(Field(name, width), {name}, width)
BY LayoutOne DEF Field, Plain

\* The number of fields of a width.
LEMMA LayoutEach ==
    ASSUME NEW S, NEW names \in Seq(S), {names[k] : k \in DOMAIN names} = S, NEW w \in 1 .. 4
    PROVE  IsLayout(Each(w, names), S, w * Len(names))
<1> DEFINE l == Each(w, names)
<1>1. DOMAIN names = 1 .. Len(names) /\ Len(names) \in Nat
  OBVIOUS
<1>2. l = [k \in 1 .. Len(names) |-> [name |-> names[k], width |-> w, moves |-> w]]
  BY <1>1 DEF Each, Plain
<1>3. \A k \in 1 .. Len(names) : l[k] \in FieldsNamed(S) /\ l[k].moves = w /\ l[k].name = names[k]
  BY <1>2 DEF FieldsNamed
<1>4. l \in [1 .. Len(names) -> FieldsNamed(S)]
  BY <1>2, <1>3
<1>5. l \in Seq(FieldsNamed(S)) /\ Len(l) = Len(names) /\ DOMAIN l = 1 .. Len(names)
  BY <1>1, <1>4
<1> HIDE DEF l
<1>6. {l[k].name : k \in DOMAIN l} = S
  BY <1>1, <1>3, <1>5
<1>7. \A k \in 0 .. Len(l) : Position(l)[k] = w * k
  <2> DEFINE Bad == {j \in 0 .. Len(l) : Position(l)[j] # w * j}
  <2> SUFFICES ASSUME Bad # {} PROVE FALSE
    OBVIOUS
  <2>1. Bad \in SUBSET Nat
    OBVIOUS
  <2>2. PICK j \in Bad : \A i \in Bad : j <= i
    <3> HIDE DEF Bad
    <3> QED BY <2>1, LeastNatural
  <2>3. j # 0
    BY <1>5, PositionSteps
  <2>4. j \in 1 .. Len(l) /\ j - 1 \in 0 .. Len(l) /\ ~ (j <= j - 1)
    BY <1>1, <1>5, <2>3
  <2>5. Position(l)[j - 1] = w * (j - 1)
    BY <2>2, <2>4
  <2>6. Position(l)[j] = Position(l)[j - 1] + w
    BY <1>3, <1>5, <2>4, PositionSteps
  <2>7. w * (j - 1) + w = w * j
    <3>1. j \in Int /\ w \in {1, 2, 3, 4}
      OBVIOUS
    <3> QED BY <3>1
  <2> QED BY <2>5, <2>6, <2>7
<1>8. Size(l) = w * Len(names)
  BY <1>1, <1>5, <1>7 DEF Size
<1> QED BY <1>5, <1>6, <1>8 DEF IsLayout, l

LEMMA LengthBytesIs ==
    ASSUME NEW n \in Nat
    PROVE  /\ LengthBytes(n) \in Nat
           /\ n < 128 => LengthBytes(n) = 1
           /\ n >= 128 => LengthBytes(n) >= 2
<1> DEFINE K == {k \in 1 .. 4 : n >= << 128, 16384, 2097152, 268435456 >>[k]}
<1>1. LengthBytes(n) = Cardinality(K) + 1
  BY DEF LengthBytes
<1>2. IsFiniteSet(K) /\ Cardinality(K) \in Nat
  <2>1. IsFiniteSet(1 .. 4)
    <3>1. 1 \in Int /\ 4 \in Int
      OBVIOUS
    <3> QED BY <3>1, FS_Interval
  <2>2. K \subseteq 1 .. 4
    OBVIOUS
  <2> HIDE DEF K
  <2>3. IsFiniteSet(K)
    BY <2>1, <2>2, FS_Subset
  <2> QED BY <2>3, FS_CardinalityType
<1>3. ASSUME n < 128 PROVE K = {}
  <2>1. \A k \in 1 .. 4 : << 128, 16384, 2097152, 268435456 >>[k] >= 128
    OBVIOUS
  <2>2. \A k \in 1 .. 4 : << 128, 16384, 2097152, 268435456 >>[k] \in Nat
    OBVIOUS
  <2> QED BY <1>3, <2>1, <2>2
<1>4. ASSUME n >= 128 PROVE K # {}
  <2>1. << 128, 16384, 2097152, 268435456 >>[1] = 128
    OBVIOUS
  <2> QED BY <1>4, <2>1
<1> HIDE DEF K
<1>5. n < 128 => Cardinality(K) = 0
  BY <1>3, FS_EmptySet
<1>6. n >= 128 => Cardinality(K) # 0
  BY <1>2, <1>4, FS_EmptySet
<1> QED BY <1>1, <1>2, <1>5, <1>6

LEMMA LayoutText ==
    ASSUME NEW name, NEW n \in Nat
    PROVE  /\ IsLayout(Text(name, n), {name}, LengthBytes(n) + n)
           /\ IsLayout(ShortText(name, n), {name}, n + 1)
<1>1. LengthBytes(n) + n \in Nat /\ n + 1 \in Nat
  BY LengthBytesIs
<1>2. IsLayout(Text(name, n), {name}, LengthBytes(n) + n)
  BY <1>1, LayoutField DEF Text
<1>3. IsLayout(ShortText(name, n), {name}, n + 1)
  BY <1>1, LayoutOne DEF ShortText
<1> QED BY <1>2, <1>3

LEMMA EachOf ==
    ASSUME NEW w \in 1 .. 4
    PROVE  /\ \A a, b : IsLayout(Each(w, << a, b >>), {a, b}, w * 2)
           /\ \A a, b, c : IsLayout(Each(w, << a, b, c >>), {a, b, c}, w * 3)
           /\ \A a, b, c, d : IsLayout(Each(w, << a, b, c, d >>), {a, b, c, d}, w * 4)
           /\ \A a, b, c, d, e, f :
                 IsLayout(Each(w, << a, b, c, d, e, f >>), {a, b, c, d, e, f}, w * 6)
           /\ \A a, b, c, d, e, f, g :
                 IsLayout(Each(w, << a, b, c, d, e, f, g >>), {a, b, c, d, e, f, g}, w * 7)
           /\ \A a, b, c, d, e, f, g, h, j, k, l, m :
                 IsLayout(Each(w, << a, b, c, d, e, f, g, h, j, k, l, m >>),
                          {a, b, c, d, e, f, g, h, j, k, l, m}, w * 12)
<1>1. ASSUME NEW a, NEW b PROVE IsLayout(Each(w, << a, b >>), {a, b}, w * 2)
  <2> DEFINE s == << a, b >>
  <2>1. s \in Seq({a, b}) /\ Len(s) = 2 /\ {s[i] : i \in DOMAIN s} = {a, b}
    OBVIOUS
  <2> QED BY <2>1, LayoutEach
<1>2. ASSUME NEW a, NEW b, NEW c PROVE IsLayout(Each(w, << a, b, c >>), {a, b, c}, w * 3)
  <2> DEFINE s == << a, b, c >>
  <2>1. s \in Seq({a, b, c}) /\ Len(s) = 3 /\ {s[i] : i \in DOMAIN s} = {a, b, c}
    OBVIOUS
  <2> QED BY <2>1, LayoutEach
<1>3. ASSUME NEW a, NEW b, NEW c, NEW d
      PROVE  IsLayout(Each(w, << a, b, c, d >>), {a, b, c, d}, w * 4)
  <2> DEFINE s == << a, b, c, d >>
  <2>1. s \in Seq({a, b, c, d}) /\ Len(s) = 4 /\ {s[i] : i \in DOMAIN s} = {a, b, c, d}
    OBVIOUS
  <2> QED BY <2>1, LayoutEach
<1>4. ASSUME NEW a, NEW b, NEW c, NEW d, NEW e, NEW f
      PROVE  IsLayout(Each(w, << a, b, c, d, e, f >>), {a, b, c, d, e, f}, w * 6)
  <2> DEFINE s == << a, b, c, d, e, f >>
  <2>1. s \in Seq({a, b, c, d, e, f}) /\ Len(s) = 6 /\ {s[i] : i \in DOMAIN s} = {a, b, c, d, e, f}
    OBVIOUS
  <2> QED BY <2>1, LayoutEach
<1>5. ASSUME NEW a, NEW b, NEW c, NEW d, NEW e, NEW f, NEW g
      PROVE  IsLayout(Each(w, << a, b, c, d, e, f, g >>), {a, b, c, d, e, f, g}, w * 7)
  <2> DEFINE s == << a, b, c, d, e, f, g >>
  <2>1. /\ s \in Seq({a, b, c, d, e, f, g}) /\ Len(s) = 7
        /\ {s[i] : i \in DOMAIN s} = {a, b, c, d, e, f, g}
    OBVIOUS
  <2> QED BY <2>1, LayoutEach
<1>6. ASSUME NEW a, NEW b, NEW c, NEW d, NEW e, NEW f, NEW g, NEW h, NEW j, NEW k, NEW l, NEW m
      PROVE  IsLayout(Each(w, << a, b, c, d, e, f, g, h, j, k, l, m >>),
                      {a, b, c, d, e, f, g, h, j, k, l, m}, w * 12)
  <2> DEFINE s == << a, b, c, d, e, f, g, h, j, k, l, m >>
             S == {a, b, c, d, e, f, g, h, j, k, l, m}
  <2>1. s \in Seq(S) /\ Len(s) = 12
    OBVIOUS
  <2>2. {s[i] : i \in DOMAIN s} = S
    OBVIOUS
  <2> HIDE DEF s, S
  <2>3. IsLayout(Each(w, s), S, w * 12)
    BY <2>1, <2>2, LayoutEach
  <2> QED BY <2>3 DEF s, S
<1> QED BY <1>1, <1>2, <1>3, <1>4, <1>5, <1>6

\* What is sent of a body.
Sent(type) == Members(type) \ NotSent

LEMMA TypesAre ==
    /\ \A type \in HasRead \cup HasWrite :
          type \in {CONNECT_REQUEST, PLAYER_INFO, INVENTORY_SLOT, GET_SECTION, CHAT_MESSAGE, PLAYER_HP,
                    PLAYER_MANA, CLIENT_UUID, DISCONNECT, CONTINUE_CONNECTING, WORLD_INFO, STATUS,
                    TILE_SECTION, SECTION_TILE_FRAME, CONNECTION_COMPLETE}
    /\ CONNECT_REQUEST = 1 /\ DISCONNECT = 2 /\ CONTINUE_CONNECTING = 3 /\ PLAYER_INFO = 4
    /\ INVENTORY_SLOT = 5 /\ WORLD_INFO = 7 /\ GET_SECTION = 8 /\ STATUS = 9 /\ TILE_SECTION = 10
    /\ SECTION_TILE_FRAME = 11 /\ PLAYER_HP = 16 /\ CHAT_MESSAGE = 25 /\ PLAYER_MANA = 42
    /\ CONNECTION_COMPLETE = 49 /\ CLIENT_UUID = 68
BY DEF HasRead, HasWrite, CONNECT_REQUEST, DISCONNECT, CONTINUE_CONNECTING, PLAYER_INFO, INVENTORY_SLOT,
       WORLD_INFO, GET_SECTION, STATUS, TILE_SECTION, SECTION_TILE_FRAME, PLAYER_HP, CHAT_MESSAGE,
       PLAYER_MANA, CONNECTION_COMPLETE, CLIENT_UUID

LEMMA MembersSent ==
    /\ Sent(PLAYER_INFO) = ({"id", "skin_variant", "hair"} \cup {"name"})
                           \cup {"hair_dye", "hide_visuals", "hide_visuals2", "hide_misc"}
                           \cup ToSet(Colours) \cup {"difficulty"}
    /\ Sent(CONNECT_REQUEST) = {"protocol_version"}
    /\ Sent(CONTINUE_CONNECTING) = {"id"}
    /\ Sent(DISCONNECT) = {"reason"}
    /\ Sent(GET_SECTION) = {"x", "y"}
    /\ Sent(STATUS) = {"message_duration"} \cup {"message"}
    /\ Sent(SECTION_TILE_FRAME) = {"x", "y", "dx", "dy"}
    /\ Sent(CHAT_MESSAGE) = {"id"} \cup {"colour"} \cup {"message"}
    /\ Sent(PLAYER_HP) = {"id"} \cup {"life", "life_max"}
    /\ Sent(PLAYER_MANA) = {"id"} \cup {"mana", "mana_max"}
    /\ Sent(CLIENT_UUID) = {"uuid"}
    /\ Sent(INVENTORY_SLOT) = {"id"} \cup {"slot_id"} \cup {"stack"} \cup {"prefix"} \cup {"net_id"}
    /\ Sent(CONNECTION_COMPLETE) = {}
<1> USE TypesAre DEF Sent, Members, NotSent
<1>1. Sent(PLAYER_INFO) = ({"id", "skin_variant", "hair"} \cup {"name"})
                          \cup {"hair_dye", "hide_visuals", "hide_visuals2", "hide_misc"}
                          \cup ToSet(Colours) \cup {"difficulty"}
  <2>1. ToSet(Colours) \cap NotSent = {}
    BY DEF ToSet, Colours
  <2>2. Members(PLAYER_INFO) = player_info
    OBVIOUS
  <2> QED BY <2>1, <2>2 DEF player_info
<1>2. Sent(CONNECT_REQUEST) = {"protocol_version"}
  BY DEF connect_request
<1>3. Sent(CONTINUE_CONNECTING) = {"id"}
  BY DEF continue_connecting
<1>4. Sent(DISCONNECT) = {"reason"}
  BY DEF disconnect
<1>5. Sent(GET_SECTION) = {"x", "y"}
  BY DEF get_section
<1>6. Sent(STATUS) = {"message_duration"} \cup {"message"}
  BY DEF status
<1>7. Sent(SECTION_TILE_FRAME) = {"x", "y", "dx", "dy"}
  BY DEF section_tile_frame
<1>8. Sent(CHAT_MESSAGE) = {"id"} \cup {"colour"} \cup {"message"}
  BY DEF chat_message
<1>9. Sent(PLAYER_HP) = {"id"} \cup {"life", "life_max"}
  BY DEF player_hp
<1>10. Sent(PLAYER_MANA) = {"id"} \cup {"mana", "mana_max"}
  BY DEF player_mana
<1>11. Sent(CLIENT_UUID) = {"uuid"}
  BY DEF client_uuid
<1>12. Sent(INVENTORY_SLOT) = {"id"} \cup {"slot_id"} \cup {"stack"} \cup {"prefix"} \cup {"net_id"}
  BY DEF item_slot
<1>13. Sent(CONNECTION_COMPLETE) = {}
  OBVIOUS
<1> QED BY <1>1, <1>2, <1>3, <1>4, <1>5, <1>6, <1>7, <1>8, <1>9, <1>10, <1>11, <1>12, <1>13

LEMMA Empty == IsLayout(<< >>, {}, 0)
<1>1. << >> \in Seq(FieldsNamed({})) /\ Len(<< >>) = 0 /\ DOMAIN << >> = {}
  OBVIOUS
<1>2. Position(<< >>)[0] = 0
  BY <1>1, PositionSteps
<1> QED BY <1>1, <1>2 DEF IsLayout, Size

\* PLAYER_INFO, as it is written and as it is read.
LEMMA PlayerInfoLayouts ==
    ASSUME NEW n \in Nat
    PROVE  /\ IsLayout(player_info_write(n), Sent(PLAYER_INFO), 29 + LengthBytes(n) + n)
           /\ IsLayout(player_info_fields(n), Sent(PLAYER_INFO), 29 + n + 1)
<1> DEFINE a == Each(1, << "id", "skin_variant", "hair" >>)
           b == Each(1, << "hair_dye", "hide_visuals", "hide_visuals2", "hide_misc" >>)
           c == Each(3, Colours)
           d == Field("difficulty", 1)
           A == {"id", "skin_variant", "hair"}
           B == {"hair_dye", "hide_visuals", "hide_visuals2", "hide_misc"}
           C == ToSet(Colours)
           D == {"difficulty"}
           N == {"name"}
<1>1. IsLayout(a, A, 3) /\ IsLayout(b, B, 4)
  <2>1. 1 \in 1 .. 4 /\ 1 * 3 = 3 /\ 1 * 4 = 4
    OBVIOUS
  <2>2. IsLayout(a, A, 1 * 3) /\ IsLayout(b, B, 1 * 4)
    BY <2>1, EachOf
  <2> QED BY <2>1, <2>2
<1>2. IsLayout(c, C, 21)
  <2>1. Colours \in Seq(C) /\ Len(Colours) = 7 /\ C = {Colours[k] : k \in DOMAIN Colours}
    BY DEF Colours, ToSet
  <2>2. 3 \in 1 .. 4 /\ 3 * 7 = 21
    OBVIOUS
  <2> HIDE DEF C
  <2>3. IsLayout(c, C, 3 * Len(Colours))
    BY <2>1, <2>2, LayoutEach
  <2> QED BY <2>1, <2>2, <2>3
<1>3. IsLayout(d, D, 1)
  BY LayoutField
<1>4. ASSUME NEW t, NEW m \in Nat, IsLayout(t, N, m)
      PROVE  IsLayout(a \o t \o b \o c \o d, Sent(PLAYER_INFO), 29 + m)
  <2> HIDE DEF a, b, c, d, A, B, C, D, N
  <2>1. IsLayout(a \o t, A \cup N, 3 + m)
    BY <1>1, <1>4, LayoutJoin
  <2>2. IsLayout((a \o t) \o b, (A \cup N) \cup B, (3 + m) + 4)
    BY <1>1, <2>1, LayoutJoin
  <2>3. IsLayout(((a \o t) \o b) \o c, ((A \cup N) \cup B) \cup C, ((3 + m) + 4) + 21)
    BY <1>2, <2>2, LayoutJoin
  <2>4. IsLayout((((a \o t) \o b) \o c) \o d, (((A \cup N) \cup B) \cup C) \cup D, (((3 + m) + 4) + 21) + 1)
    BY <1>3, <2>3, LayoutJoin
  <2>5. (((3 + m) + 4) + 21) + 1 = 29 + m
    BY <1>4
  <2>6. Sent(PLAYER_INFO) = (((A \cup N) \cup B) \cup C) \cup D
    BY MembersSent DEF A, B, C, D, N
  <2> QED BY <2>4, <2>5, <2>6
<1> HIDE DEF a, b, c, d, A, B, C, D
<1>5. IsLayout(player_info_write(n), Sent(PLAYER_INFO), 29 + (LengthBytes(n) + n))
  <2>1. LengthBytes(n) + n \in Nat /\ IsLayout(Text("name", n), N, LengthBytes(n) + n)
    BY LengthBytesIs, LayoutText
  <2> QED BY <1>4, <2>1 DEF player_info_write, a, b, c, d
<1>6. IsLayout(player_info_fields(n), Sent(PLAYER_INFO), 29 + (n + 1))
  <2>1. n + 1 \in Nat /\ IsLayout(ShortText("name", n), N, n + 1)
    BY LayoutText
  <2> QED BY <1>4, <2>1 DEF player_info_fields, a, b, c, d
<1>7. 29 + (LengthBytes(n) + n) = 29 + LengthBytes(n) + n /\ 29 + (n + 1) = 29 + n + 1
  BY LengthBytesIs
<1> QED BY <1>5, <1>6, <1>7

\* The messages without a text, and those of one text and at most two numbers.
LEMMA SmallLayouts ==
    ASSUME NEW n \in Nat
    PROVE  /\ IsLayout(chat_message_write(n), Sent(CHAT_MESSAGE), 1 + 3 + (LengthBytes(n) + n))
           /\ IsLayout(disconnect_write(n), Sent(DISCONNECT), LengthBytes(n) + n)
           /\ IsLayout(status_write(n), Sent(STATUS), 4 + (LengthBytes(n) + n))
           /\ IsLayout(continue_connecting_write, Sent(CONTINUE_CONNECTING), 1)
           /\ IsLayout(connection_complete_write, Sent(CONNECTION_COMPLETE), 0)
           /\ IsLayout(section_tile_frame_write, Sent(SECTION_TILE_FRAME), 8)
           /\ IsLayout(connect_request_fields(n), Sent(CONNECT_REQUEST), LengthBytes(n) + n)
           /\ IsLayout(client_uuid_fields(n), Sent(CLIENT_UUID), LengthBytes(n) + n)
           /\ IsLayout(inventory_slot_fields, Sent(INVENTORY_SLOT), 7)
           /\ IsLayout(get_section_fields, Sent(GET_SECTION), 8)
           /\ IsLayout(player_hp_fields, Sent(PLAYER_HP), 5)
           /\ IsLayout(player_mana_fields, Sent(PLAYER_MANA), 5)
<1>1. \A name : IsLayout(Text(name, n), {name}, LengthBytes(n) + n)
  BY LayoutText
<1>2. \A name : /\ IsLayout(Field(name, 1), {name}, 1) /\ IsLayout(Field(name, 2), {name}, 2)
                /\ IsLayout(Field(name, 3), {name}, 3) /\ IsLayout(Field(name, 4), {name}, 4)
  BY LayoutField
<1>3. /\ \A a, b : IsLayout(Each(4, << a, b >>), {a, b}, 8) /\ IsLayout(Each(2, << a, b >>), {a, b}, 4)
      /\ \A a, b, c, d : IsLayout(Each(2, << a, b, c, d >>), {a, b, c, d}, 8)
  <2>1. 4 \in 1 .. 4 /\ 2 \in 1 .. 4 /\ 4 * 2 = 8 /\ 2 * 2 = 4 /\ 2 * 4 = 8
    OBVIOUS
  <2>2. \A a, b : IsLayout(Each(4, << a, b >>), {a, b}, 4 * 2)
    BY Zenon, <2>1, EachOf
  <2>3. \A a, b : IsLayout(Each(2, << a, b >>), {a, b}, 2 * 2)
    BY Zenon, <2>1, EachOf
  <2>4. \A a, b, c, d : IsLayout(Each(2, << a, b, c, d >>), {a, b, c, d}, 2 * 4)
    BY Zenon, <2>1, EachOf
  <2> QED BY <2>1, <2>2, <2>3, <2>4
<1>4. IsLayout(chat_message_write(n), Sent(CHAT_MESSAGE), 1 + 3 + (LengthBytes(n) + n))
  <2>1. IsLayout(Field("id", 1) \o Field("colour", 3), {"id"} \cup {"colour"}, 1 + 3)
    BY <1>2, LayoutJoin
  <2>2. IsLayout((Field("id", 1) \o Field("colour", 3)) \o Text("message", n),
                 ({"id"} \cup {"colour"}) \cup {"message"}, (1 + 3) + (LengthBytes(n) + n))
    BY <1>1, <2>1, LayoutJoin
  <2> QED BY <2>2, MembersSent DEF chat_message_write
<1>5. IsLayout(status_write(n), Sent(STATUS), 4 + (LengthBytes(n) + n))
  <2>1. IsLayout(Field("message_duration", 4) \o Text("message", n),
                 {"message_duration"} \cup {"message"}, 4 + (LengthBytes(n) + n))
    BY <1>1, <1>2, LayoutJoin
  <2> QED BY <2>1, MembersSent DEF status_write
<1>6. /\ IsLayout(disconnect_write(n), Sent(DISCONNECT), LengthBytes(n) + n)
      /\ IsLayout(connect_request_fields(n), Sent(CONNECT_REQUEST), LengthBytes(n) + n)
      /\ IsLayout(client_uuid_fields(n), Sent(CLIENT_UUID), LengthBytes(n) + n)
  BY <1>1, MembersSent DEF disconnect_write, connect_request_fields, client_uuid_fields
<1>7. IsLayout(continue_connecting_write, Sent(CONTINUE_CONNECTING), 1)
  BY <1>2, MembersSent DEF continue_connecting_write
<1>8. IsLayout(connection_complete_write, Sent(CONNECTION_COMPLETE), 0)
  BY Empty, MembersSent DEF connection_complete_write
<1>9. IsLayout(section_tile_frame_write, Sent(SECTION_TILE_FRAME), 8)
  BY <1>3, MembersSent DEF section_tile_frame_write
<1>10. IsLayout(inventory_slot_fields, Sent(INVENTORY_SLOT), 7)
  <2>1. IsLayout(Field("id", 1) \o Field("slot_id", 1), {"id"} \cup {"slot_id"}, 1 + 1)
    BY <1>2, LayoutJoin
  <2>2. IsLayout((Field("id", 1) \o Field("slot_id", 1)) \o Field("stack", 2),
                 ({"id"} \cup {"slot_id"}) \cup {"stack"}, (1 + 1) + 2)
    BY <1>2, <2>1, LayoutJoin
  <2>3. IsLayout(((Field("id", 1) \o Field("slot_id", 1)) \o Field("stack", 2)) \o Field("prefix", 1),
                 (({"id"} \cup {"slot_id"}) \cup {"stack"}) \cup {"prefix"}, ((1 + 1) + 2) + 1)
    BY <1>2, <2>2, LayoutJoin
  <2>4. IsLayout((((Field("id", 1) \o Field("slot_id", 1)) \o Field("stack", 2)) \o Field("prefix", 1))
                 \o Field("net_id", 2),
                 ((({"id"} \cup {"slot_id"}) \cup {"stack"}) \cup {"prefix"}) \cup {"net_id"},
                 (((1 + 1) + 2) + 1) + 2)
    BY <1>2, <2>3, LayoutJoin
  <2>5. (((1 + 1) + 2) + 1) + 2 = 7
    OBVIOUS
  <2> QED BY <2>4, <2>5, MembersSent DEF inventory_slot_fields
<1>11. IsLayout(get_section_fields, Sent(GET_SECTION), 8)
  BY <1>3, MembersSent DEF get_section_fields
<1>12. IsLayout(player_hp_fields, Sent(PLAYER_HP), 5)
  <2>1. IsLayout(player_hp_fields, {"id"} \cup {"life", "life_max"}, 1 + 4)
    BY <1>2, <1>3, LayoutJoin DEF player_hp_fields
  <2> QED BY <2>1, MembersSent
<1>13. IsLayout(player_mana_fields, Sent(PLAYER_MANA), 5)
  <2>1. IsLayout(player_mana_fields, {"id"} \cup {"mana", "mana_max"}, 1 + 4)
    BY <1>2, <1>3, LayoutJoin DEF player_mana_fields
  <2> QED BY <2>1, MembersSent
<1> QED BY <1>4, <1>5, <1>6, <1>7, <1>8, <1>9, <1>10, <1>11, <1>12, <1>13

\* WORLD_INFO is as long as the fields of every other kind, and a text.
LEMMA WorldInfoLayout ==
    ASSUME NEW n \in Nat
    PROVE  \E size \in Nat : IsLayout(__fill_world_info_buffer(n), Sent(WORLD_INFO), size)
<1> DEFINE a == Each(1, << "day_info", "moon_phase" >>)
           b == Each(2, << "max_tile_x", "max_tile_y", "spawn_tile_x", "spawn_tile_y",
                           "world_surface", "rock_layer" >>)
           c == Each(1, << "moon_type", "bg_tree", "bg_corrupt", "bg_jungle", "bg_snow", "bg_hallow",
                           "bg_crimson", "bg_desert", "bg_ocean", "style_ice_back",
                           "style_jungle_back", "style_hell_back" >>)
           d == Each(1, << "flags_1", "flags_2", "flags_3", "flags_4" >>)
           t == Text("world_name", n)
           A == {"day_info", "moon_phase"}
           B == {"max_tile_x", "max_tile_y", "spawn_tile_x", "spawn_tile_y", "world_surface",
                 "rock_layer"}
           C == {"moon_type", "bg_tree", "bg_corrupt", "bg_jungle", "bg_snow", "bg_hallow",
                 "bg_crimson", "bg_desert", "bg_ocean", "style_ice_back", "style_jungle_back",
                 "style_hell_back"}
           D == {"flags_1", "flags_2", "flags_3", "flags_4"}
           IsOne(l, S) == \E size \in Nat : IsLayout(l, S, size)
<1>1. IsOne(a, A) /\ IsOne(b, B) /\ IsOne(c, C) /\ IsOne(d, D)
  <2>1. 1 \in 1 .. 4 /\ 2 \in 1 .. 4
    OBVIOUS
  <2>2. IsLayout(a, A, 1 * 2)
    BY Zenon, <2>1, EachOf
  <2>3. IsLayout(b, B, 2 * 6)
    BY Zenon, <2>1, EachOf
  <2>4. IsLayout(c, C, 1 * 12)
    BY Zenon, <2>1, EachOf
  <2>5. IsLayout(d, D, 1 * 4)
    BY Zenon, <2>1, EachOf
  <2> HIDE DEF a, b, c, d, A, B, C, D
  <2>6. 1 * 2 \in Nat /\ 2 * 6 \in Nat /\ 1 * 12 \in Nat /\ 1 * 4 \in Nat
    OBVIOUS
  <2> QED BY Zenon, <2>2, <2>3, <2>4, <2>5, <2>6
<1>2. IsOne(t, {"world_name"})
  BY LayoutText, LengthBytesIs
<1>3. ASSUME NEW name, NEW width \in Nat PROVE IsOne(Field(name, width), {name})
  BY LayoutField
<1>4. ASSUME NEW k, NEW l, NEW S, NEW T, IsOne(k, S), IsOne(l, T) PROVE IsOne(k \o l, S \cup T)
  <2>1. PICK m \in Nat : IsLayout(k, S, m)
    BY <1>4
  <2>2. PICK j \in Nat : IsLayout(l, T, j)
    BY <1>4
  <2>3. m + j \in Nat /\ IsLayout(k \o l, S \cup T, m + j)
    BY <2>1, <2>2, LayoutJoin
  <2> QED BY <2>3
<1> HIDE DEF a, b, c, d, t, IsOne
<1> DEFINE l1 == Field("time", 4) \o a \o b \o Field("world_id", 4) \o t \o c
           L1 == {"time"} \cup A \cup B \cup {"world_id"} \cup {"world_name"} \cup C
           l2 == l1 \o Field("wind_speed_set", 4) \o Field("num_clouds", 1) \o Field("tree_x", 12)
                 \o Field("tree_style", 16)
           L2 == L1 \cup {"wind_speed_set"} \cup {"num_clouds"} \cup {"tree_x"} \cup {"tree_style"}
           l3 == l2 \o Field("cave_back_x", 12) \o Field("cave_back_style", 4) \o Field("max_raining", 4) \o d
           L3 == L2 \cup {"cave_back_x"} \cup {"cave_back_style"} \cup {"max_raining"} \cup D
<1>5. IsOne(l1, L1)
  <2>1. IsOne(Field("time", 4), {"time"}) /\ IsOne(Field("world_id", 4), {"world_id"})
    BY <1>3
  <2> HIDE DEF A, B, C
  <2>2. IsOne((Field("time", 4) \o a) \o b, ({"time"} \cup A) \cup B)
    BY <1>1, <1>4, <2>1
  <2>3. IsOne(((Field("time", 4) \o a) \o b) \o Field("world_id", 4), (({"time"} \cup A) \cup B) \cup {"world_id"})
    BY <1>4, <2>1, <2>2
  <2>4. IsOne((((Field("time", 4) \o a) \o b) \o Field("world_id", 4)) \o t,
              ((({"time"} \cup A) \cup B) \cup {"world_id"}) \cup {"world_name"})
    BY <1>2, <1>4, <2>3
  <2> QED BY <1>1, <1>4, <2>4
<1> HIDE DEF l1, L1
<1>6. IsOne(l2, L2)
  <2>1. /\ IsOne(Field("wind_speed_set", 4), {"wind_speed_set"})
        /\ IsOne(Field("num_clouds", 1), {"num_clouds"})
        /\ IsOne(Field("tree_x", 12), {"tree_x"}) /\ IsOne(Field("tree_style", 16), {"tree_style"})
    BY <1>3
  <2>2. IsOne((l1 \o Field("wind_speed_set", 4)) \o Field("num_clouds", 1),
              (L1 \cup {"wind_speed_set"}) \cup {"num_clouds"})
    BY <1>4, <1>5, <2>1
  <2>3. IsOne(((l1 \o Field("wind_speed_set", 4)) \o Field("num_clouds", 1)) \o Field("tree_x", 12),
              ((L1 \cup {"wind_speed_set"}) \cup {"num_clouds"}) \cup {"tree_x"})
    BY <1>4, <2>1, <2>2
  <2> QED BY <1>4, <2>1, <2>3
<1> HIDE DEF l2, L2
<1>7. IsOne(l3, L3)
  <2>1. /\ IsOne(Field("cave_back_x", 12), {"cave_back_x"})
        /\ IsOne(Field("cave_back_style", 4), {"cave_back_style"})
        /\ IsOne(Field("max_raining", 4), {"max_raining"})
    BY <1>3
  <2> HIDE DEF D
  <2>2. IsOne((l2 \o Field("cave_back_x", 12)) \o Field("cave_back_style", 4),
              (L2 \cup {"cave_back_x"}) \cup {"cave_back_style"})
    BY <1>4, <1>6, <2>1
  <2>3. IsOne(((l2 \o Field("cave_back_x", 12)) \o Field("cave_back_style", 4)) \o Field("max_raining", 4),
              ((L2 \cup {"cave_back_x"}) \cup {"cave_back_style"}) \cup {"max_raining"})
    BY <1>4, <2>1, <2>2
  <2> QED BY <1>1, <1>4, <2>3
<1>8. __fill_world_info_buffer(n) = l3
  BY DEF __fill_world_info_buffer, l2, l1, a, b, c, d, t
<1>9. Sent(WORLD_INFO) = L3
  <2>1. Sent(WORLD_INFO) = world_info \ NotSent
    BY TypesAre DEF Sent, Members
  <2> QED BY <2>1 DEF world_info, NotSent, L2, L1
<1> QED BY <1>7, <1>8, <1>9 DEF IsOne

-----------------------------------------------------------------------------
(* What is read of a message. *)

\* Of a layout that is read as it was written, every field is.
LEMMA AllRead ==
    ASSUME NEW l
    PROVE  {f.name : f \in Placed(l) \cap Placed(l)} = {l[k].name : k \in DOMAIN l}
<1> DEFINE p(k) == [name |-> l[k].name, width |-> l[k].width, at |-> Position(l)[k - 1]]
<1>1. Placed(l) = {p(k) : k \in DOMAIN l}
  BY DEF Placed
<1>2. \A k \in DOMAIN l : p(k).name = l[k].name
  OBVIOUS
<1> HIDE DEF p
<1>3. {f.name : f \in {p(k) : k \in DOMAIN l}} = {l[k].name : k \in DOMAIN l}
  BY <1>2
<1> QED BY <1>1, <1>3

LEMMA JoinedTwice ==
    ASSUME NEW S, NEW a \in Seq(S), NEW b \in Seq(S), NEW c \in Seq(S)
    PROVE  (a \o b) \o c = a \o (b \o c)
<1> DEFINE x == a \o b
           y == b \o c
           p == x \o c
           q == a \o y
<1>1. /\ x \in Seq(S) /\ Len(x) = Len(a) + Len(b)
      /\ y \in Seq(S) /\ Len(y) = Len(b) + Len(c)
      /\ Len(a) \in Nat /\ Len(b) \in Nat /\ Len(c) \in Nat
      /\ \A k \in 1 .. Len(a) : x[k] = a[k]
      /\ \A k \in 1 .. Len(b) : x[Len(a) + k] = b[k]
      /\ \A k \in 1 .. Len(b) : y[k] = b[k]
      /\ \A k \in 1 .. Len(c) : y[Len(b) + k] = c[k]
  BY JoinedSequence
<1> HIDE DEF x, y
<1>2. /\ p \in Seq(S) /\ Len(p) = Len(x) + Len(c)
      /\ q \in Seq(S) /\ Len(q) = Len(a) + Len(y)
      /\ \A k \in 1 .. Len(x) : p[k] = x[k]
      /\ \A k \in 1 .. Len(c) : p[Len(x) + k] = c[k]
      /\ \A k \in 1 .. Len(a) : q[k] = a[k]
      /\ \A k \in 1 .. Len(y) : q[Len(a) + k] = y[k]
  <2>1. x \in Seq(S) /\ y \in Seq(S)
    BY <1>1
  <2>2. Joins(S, x, c, p) /\ Joins(S, a, y, q)
    BY <2>1, JoinsIs
  <2> HIDE DEF p, q
  <2> QED BY <2>2 DEF Joins
<1> HIDE DEF p, q
<1>3. ASSUME NEW k \in 1 .. Len(p) PROVE p[k] = q[k]
  <2>1. CASE k \in 1 .. Len(a)
    BY <1>1, <1>2, <2>1
  <2>2. CASE k - Len(a) \in 1 .. Len(b)
    <3>1. k = Len(a) + (k - Len(a)) /\ k \in 1 .. Len(x) /\ k - Len(a) \in 1 .. Len(y)
      BY <1>1, <2>2
    <3>2. p[k] = x[k] /\ x[k] = b[k - Len(a)]
      BY <1>1, <1>2, <2>2, <3>1
    <3>3. q[k] = y[k - Len(a)] /\ y[k - Len(a)] = b[k - Len(a)]
      BY <1>1, <1>2, <2>2, <3>1
    <3> QED BY <3>2, <3>3
  <2>3. CASE k - Len(x) \in 1 .. Len(c)
    <3>1. /\ k = Len(x) + (k - Len(x)) /\ k = Len(a) + (k - Len(a)) /\ k - Len(a) \in 1 .. Len(y)
          /\ k - Len(a) = Len(b) + (k - Len(x))
      BY <1>1, <2>3
    <3>2. p[k] = c[k - Len(x)]
      BY <1>2, <2>3, <3>1
    <3>3. q[k] = y[k - Len(a)] /\ y[k - Len(a)] = c[k - Len(x)]
      BY <1>1, <1>2, <2>3, <3>1
    <3> QED BY <3>2, <3>3
  <2> QED BY <1>1, <1>2, <2>1, <2>2, <2>3
<1>4. Len(p) = Len(q)
  BY <1>1, <1>2
<1>5. p = q
  <2>1. p \in [1 .. Len(p) -> S] /\ q \in [1 .. Len(q) -> S]
    BY <1>2
  <2> QED BY <1>3, <1>4, <2>1
<1> QED BY <1>5 DEF p, q, x, y

\* The fields of PLAYER_INFO behind the name.
RestNames == << "hair_dye", "hide_visuals", "hide_visuals2", "hide_misc", "hair_colour", "skin_colour",
                "eye_colour", "shirt_colour", "under_shirt_colour", "pants_colour", "shoe_colour",
                "difficulty" >>

LEMMA RestNamesDiffer ==
    /\ \A j \in 1 .. 12 : RestNames[j] \notin {"id", "skin_variant", "hair", "name"}
    /\ \A j, k \in 1 .. 12 : RestNames[j] = RestNames[k] => j = k
<1>1. \A j \in 1 .. 12 : RestNames[j] \notin {"id", "skin_variant", "hair", "name"}
  BY DEF RestNames
<1>2. \A j, k \in 1 .. 12 : RestNames[j] = RestNames[k] => j = k
  BY SMTT(30) DEF RestNames
<1> QED BY <1>1, <1>2

LEMMA EachIs ==
    ASSUME NEW S, NEW names \in Seq(S), NEW w \in Nat
    PROVE  /\ Each(w, names) \in Seq(FieldsNamed(S)) /\ Len(Each(w, names)) = Len(names)
           /\ \A k \in 1 .. Len(names) :
                 Each(w, names)[k] = [name |-> names[k], width |-> w, moves |-> w]
<1> DEFINE l == Each(w, names)
<1>1. DOMAIN names = 1 .. Len(names) /\ Len(names) \in Nat /\ \A k \in 1 .. Len(names) : names[k] \in S
  OBVIOUS
<1>2. l = [k \in 1 .. Len(names) |-> [name |-> names[k], width |-> w, moves |-> w]]
  BY <1>1 DEF Each, Plain
<1>3. \A k \in 1 .. Len(names) : [name |-> names[k], width |-> w, moves |-> w] \in FieldsNamed(S)
  BY <1>1 DEF FieldsNamed
<1> QED BY <1>1, <1>2, <1>3

\* The fields of PLAYER_INFO behind the name, and those up to it.
Rest == Each(1, << "hair_dye", "hide_visuals", "hide_visuals2", "hide_misc" >>)
        \o (Each(3, Colours) \o Field("difficulty", 1))

UpToName(width, moves) ==
    Each(1, << "id", "skin_variant", "hair" >>) \o << [name |-> "name", width |-> width, moves |-> moves] >>

InfoNames == {"id", "skin_variant", "hair", "name"} \cup {RestNames[k] : k \in 1 .. 12}

LEMMA RestIs ==
    /\ Rest \in Seq(FieldsNamed(InfoNames)) /\ Len(Rest) = 12
    /\ \A k \in 1 .. 12 : Rest[k].name = RestNames[k]
    /\ Each(1, << "hair_dye", "hide_visuals", "hide_visuals2", "hide_misc" >>) \in Seq(FieldsNamed(InfoNames))
    /\ Each(3, Colours) \in Seq(FieldsNamed(InfoNames))
    /\ Field("difficulty", 1) \in Seq(FieldsNamed(InfoNames))
<1> DEFINE F == FieldsNamed(InfoNames)
           bs == << "hair_dye", "hide_visuals", "hide_visuals2", "hide_misc" >>
           b == Each(1, bs)
           c == Each(3, Colours)
           d == Field("difficulty", 1)
<1>1. bs \in Seq(InfoNames) /\ Len(bs) = 4 /\ \A k \in 1 .. 4 : bs[k] = RestNames[k]
  <2>1. \A k \in 1 .. 4 : bs[k] = RestNames[k] /\ RestNames[k] \in InfoNames
    BY DEF RestNames, InfoNames
  <2> QED BY <2>1
<1>2. Colours \in Seq(InfoNames) /\ Len(Colours) = 7 /\ \A k \in 1 .. 7 : Colours[k] = RestNames[4 + k]
  <2>1. \A k \in 1 .. 7 : Colours[k] = RestNames[4 + k] /\ RestNames[4 + k] \in InfoNames
    BY DEF RestNames, InfoNames, Colours
  <2>2. Len(Colours) = 7
    BY DEF Colours
  <2>3. /\ "hair_colour" \in InfoNames /\ "skin_colour" \in InfoNames /\ "eye_colour" \in InfoNames
        /\ "shirt_colour" \in InfoNames /\ "under_shirt_colour" \in InfoNames
        /\ "pants_colour" \in InfoNames /\ "shoe_colour" \in InfoNames
    BY <2>1 DEF Colours
  <2>4. Colours \in Seq(InfoNames)
    BY <2>3 DEF Colours
  <2> QED BY <2>1, <2>2, <2>4
<1>3. /\ b \in Seq(F) /\ Len(b) = 4 /\ \A k \in 1 .. 4 : b[k].name = RestNames[k]
  <2> HIDE DEF bs
  <2>1. /\ b \in Seq(F) /\ Len(b) = Len(bs)
        /\ \A k \in 1 .. Len(bs) : b[k] = [name |-> bs[k], width |-> 1, moves |-> 1]
    BY <1>1, EachIs
  <2> HIDE DEF b
  <2> QED BY <1>1, <2>1
<1>4. c \in Seq(F) /\ Len(c) = 7 /\ \A k \in 1 .. 7 : c[k].name = RestNames[4 + k]
  <2>1. /\ c \in Seq(F) /\ Len(c) = Len(Colours)
        /\ \A k \in 1 .. Len(Colours) : c[k] = [name |-> Colours[k], width |-> 3, moves |-> 3]
    BY <1>2, EachIs
  <2> HIDE DEF c
  <2> QED BY <1>2, <2>1
<1>5. d \in Seq(F) /\ Len(d) = 1 /\ d[1].name = RestNames[12]
  <2>1. RestNames[12] = "difficulty" /\ RestNames[12] \in InfoNames
    BY DEF RestNames, InfoNames
  <2>2. Plain("difficulty", 1) \in F /\ Plain("difficulty", 1).name = "difficulty"
    BY <2>1 DEF Plain, FieldsNamed
  <2> HIDE DEF F
  <2> QED BY <2>1, <2>2 DEF Field
<1> HIDE DEF F, b, c, d
<1> DEFINE e == c \o d
           r == b \o e
<1>6. /\ e \in Seq(F) /\ Len(e) = Len(c) + Len(d)
      /\ \A k \in 1 .. Len(c) : e[k] = c[k]
      /\ \A k \in 1 .. Len(d) : e[Len(c) + k] = d[k]
  <2>1. c \in Seq(F) /\ d \in Seq(F)
    BY <1>4, <1>5
  <2>2. Joins(F, c, d, e)
    BY <2>1, JoinsIs
  <2> HIDE DEF e
  <2> QED BY <2>2 DEF Joins
<1> HIDE DEF e
<1>7. \A k \in 1 .. 8 : e[k].name = RestNames[4 + k]
  <2>1. ASSUME NEW k \in 1 .. 7 PROVE e[k].name = RestNames[4 + k]
    BY <1>4, <1>6
  <2>2. e[8].name = RestNames[12] /\ 4 + 8 = 12
    <3>1. 1 \in 1 .. Len(d) /\ Len(c) + 1 = 8
      BY <1>4, <1>5
    <3>2. e[Len(c) + 1] = d[1]
      BY <1>6, <3>1
    <3> QED BY <1>5, <3>1, <3>2
  <2>3. \A k \in 1 .. 8 : k \in 1 .. 7 \/ k = 8
    OBVIOUS
  <2> QED BY <2>1, <2>2, <2>3
<1>8. /\ r \in Seq(F) /\ Len(r) = Len(b) + Len(e)
      /\ \A k \in 1 .. Len(b) : r[k] = b[k]
      /\ \A k \in 1 .. Len(e) : r[Len(b) + k] = e[k]
  <2>1. b \in Seq(F) /\ e \in Seq(F)
    BY <1>3, <1>6
  <2>2. Joins(F, b, e, r)
    BY <2>1, JoinsIs
  <2> HIDE DEF r
  <2> QED BY <2>2 DEF Joins
<1> HIDE DEF r
<1>9. ASSUME NEW k \in 1 .. 12 PROVE r[k].name = RestNames[k]
  <2>1. CASE k \in 1 .. 4
    BY <1>3, <1>8, <2>1
  <2>2. CASE k - 4 \in 1 .. 8
    <3>1. k - 4 \in 1 .. Len(e) /\ Len(b) + (k - 4) = k /\ 4 + (k - 4) = k
      BY <1>3, <1>4, <1>5, <1>6, <2>2
    <3>2. r[k] = e[k - 4]
      BY <1>8, <3>1
    <3>3. e[k - 4].name = RestNames[4 + (k - 4)]
      BY <1>7, <2>2
    <3> QED BY <3>1, <3>2, <3>3
  <2> QED BY <2>1, <2>2
<1>10. Len(r) = 12
  BY <1>3, <1>4, <1>5, <1>6, <1>8
<1>11. Rest = r
  BY DEF Rest, b, c, d, e, r
<1>12. /\ Each(1, << "hair_dye", "hide_visuals", "hide_visuals2", "hide_misc" >>) = b
       /\ Each(3, Colours) = c /\ Field("difficulty", 1) = d
  BY DEF b, c, d
<1> QED BY <1>3, <1>4, <1>5, <1>8, <1>9, <1>10, <1>11, <1>12 DEF F

IsUpToName(h, width, moves) ==
    /\ h \in Seq(FieldsNamed(InfoNames)) /\ Len(h) = 4
    /\ h[1].name = "id" /\ h[2].name = "skin_variant" /\ h[3].name = "hair" /\ h[4].name = "name"
    /\ h[1].width = 1 /\ h[2].width = 1 /\ h[3].width = 1 /\ h[4].width = width
    /\ \A k \in 1 .. 4 : Position(h)[k - 1] = k - 1
    /\ Size(h) = 3 + moves

LEMMA UpToNameIs ==
    ASSUME NEW width \in Nat, NEW moves \in Nat
    PROVE  IsUpToName(UpToName(width, moves), width, moves)
<1> DEFINE F == FieldsNamed(InfoNames)
           as == << "id", "skin_variant", "hair" >>
           a == Each(1, as)
           f == [name |-> "name", width |-> width, moves |-> moves]
           n == << f >>
<1>1. as \in Seq(InfoNames) /\ Len(as) = 3
  BY DEF InfoNames
<1>2. /\ a \in Seq(F) /\ Len(a) = 3
      /\ a[1] = [name |-> "id", width |-> 1, moves |-> 1]
      /\ a[2] = [name |-> "skin_variant", width |-> 1, moves |-> 1]
      /\ a[3] = [name |-> "hair", width |-> 1, moves |-> 1]
  <2>1. /\ a \in Seq(F) /\ Len(a) = Len(as)
        /\ \A k \in 1 .. Len(as) : a[k] = [name |-> as[k], width |-> 1, moves |-> 1]
    <3>1. 1 \in Nat
      OBVIOUS
    <3> HIDE DEF as
    <3> QED BY Zenon, <1>1, <3>1, EachIs
  <2>2. 1 \in 1 .. Len(as) /\ 2 \in 1 .. Len(as) /\ 3 \in 1 .. Len(as)
        /\ as[1] = "id" /\ as[2] = "skin_variant" /\ as[3] = "hair"
    BY <1>1
  <2> HIDE DEF a, F
  <2> QED BY <1>1, <2>1, <2>2
<1>3. f \in F /\ n \in Seq(F) /\ Len(n) = 1 /\ n[1] = f
  <2>1. f \in F
    BY DEF InfoNames, FieldsNamed
  <2> HIDE DEF f, F
  <2> QED BY <2>1
<1> HIDE DEF F, a, n
<1> DEFINE h == a \o n
<1>4. /\ h \in Seq(F) /\ Len(h) = Len(a) + Len(n)
      /\ \A k \in 1 .. Len(a) : h[k] = a[k]
      /\ \A k \in 1 .. Len(n) : h[Len(a) + k] = n[k]
  <2>1. a \in Seq(F) /\ n \in Seq(F)
    BY <1>2, <1>3
  <2>2. Joins(F, a, n, h)
    BY <2>1, JoinsIs
  <2> HIDE DEF h
  <2> QED BY <2>2 DEF Joins
<1> HIDE DEF h
<1>5. Len(h) = 4 /\ h[1] = a[1] /\ h[2] = a[2] /\ h[3] = a[3] /\ h[4] = f
  <2>1. 1 \in 1 .. Len(a) /\ 2 \in 1 .. Len(a) /\ 3 \in 1 .. Len(a)
        /\ 1 \in 1 .. Len(n) /\ Len(a) + 1 = 4
    BY <1>2, <1>3
  <2>2. h[Len(a) + 1] = n[1]
    BY <1>4, <2>1
  <2> QED BY <1>2, <1>3, <1>4, <2>1, <2>2
<1>6. /\ Position(h)[0] = 0
      /\ \A k \in 1 .. 4 : Position(h)[k] = Position(h)[k - 1] + h[k].moves
  <2>1. /\ Position(h)[0] = 0
        /\ \A k \in 1 .. Len(h) : Position(h)[k] = Position(h)[k - 1] + h[k].moves
    <3>1. h \in Seq(FieldsNamed(InfoNames))
      BY <1>4 DEF F
    <3> QED BY <3>1, PositionSteps
  <2> QED BY <1>5, <2>1
<1>7. Position(h)[1] = 1
  BY <1>2, <1>5, <1>6
<1>8. Position(h)[2] = 2
  BY <1>2, <1>5, <1>6, <1>7
<1>9. Position(h)[3] = 3
  BY <1>2, <1>5, <1>6, <1>8
<1>10. Position(h)[4] = 3 + moves
  BY <1>5, <1>6, <1>9
<1>11. UpToName(width, moves) = h
  BY DEF UpToName, h, a, n
<1>12. \A k \in 1 .. 4 : Position(h)[k - 1] = k - 1
  BY <1>6, <1>7, <1>8, <1>9
<1>13. Size(h) = 3 + moves
  BY <1>5, <1>10 DEF Size
<1>14. /\ h[1].name = "id" /\ h[2].name = "skin_variant" /\ h[3].name = "hair" /\ h[4].name = "name"
       /\ h[1].width = 1 /\ h[2].width = 1 /\ h[3].width = 1 /\ h[4].width = width
  BY <1>2, <1>5
<1>15. IsUpToName(h, width, moves)
  BY <1>4, <1>5, <1>12, <1>13, <1>14 DEF F, IsUpToName
<1> QED BY <1>11, <1>15

\* What is written of a player, and what is read of it, differ in how far the
\* position moves over the name.
LEMMA InfoParts ==
    ASSUME NEW n \in Nat
    PROVE  LET w == LengthBytes(n) + n IN
           /\ player_info_write(n) = UpToName(w, w) \o Rest
           /\ player_info_fields(n) = UpToName(w, n + 1) \o Rest
<1> DEFINE F == FieldsNamed(InfoNames)
           w == LengthBytes(n) + n
           b == Each(1, << "hair_dye", "hide_visuals", "hide_visuals2", "hide_misc" >>)
           c == Each(3, Colours)
           d == Field("difficulty", 1)
<1>1. b \in Seq(F) /\ c \in Seq(F) /\ d \in Seq(F)
  BY RestIs
<1>2. w \in Nat
  BY LengthBytesIs
<1>3. ASSUME NEW m \in Nat PROVE UpToName(w, m) \in Seq(F)
  BY <1>2, UpToNameIs DEF IsUpToName
<1> HIDE DEF F, b, c, d, w
<1>4. ASSUME NEW u \in Seq(F) PROVE ((u \o b) \o c) \o d = u \o (b \o (c \o d))
  <2>1. u \o b \in Seq(F) /\ c \o d \in Seq(F)
    BY <1>1, JoinedSequence
  <2> DEFINE x == u \o b
             y == c \o d
  <2> HIDE DEF x
  <2>2. x \in Seq(F)
    BY <2>1 DEF x
  <2>3. (x \o c) \o d = x \o (c \o d)
    <3>1. c \in Seq(F) /\ d \in Seq(F)
      BY <1>1
    <3>2. \A r \in Seq(F) : \A s \in Seq(F) : \A t \in Seq(F) : (r \o s) \o t = r \o (s \o t)
      BY JoinedTwice
    <3> QED BY Zenon, <2>2, <3>1, <3>2
  <2> HIDE DEF y
  <2>4. y \in Seq(F)
    BY <2>1 DEF y
  <2>5. (u \o b) \o y = u \o (b \o y)
    <3>1. u \in Seq(F) /\ b \in Seq(F)
      BY <1>1
    <3>2. \A r \in Seq(F) : \A s \in Seq(F) : \A t \in Seq(F) : (r \o s) \o t = r \o (s \o t)
      BY JoinedTwice
    <3> QED BY Zenon, <2>4, <3>1, <3>2
  <2> QED BY <2>3, <2>5 DEF x, y
<1>5. player_info_write(n) = ((UpToName(w, w) \o b) \o c) \o d
  BY DEF player_info_write, UpToName, Text, Field, Plain, b, c, d, w
<1>6. player_info_fields(n) = ((UpToName(w, n + 1) \o b) \o c) \o d
  BY DEF player_info_fields, UpToName, ShortText, b, c, d, w
<1>7. Rest = b \o (c \o d)
  BY DEF Rest, b, c, d
<1>8. n + 1 \in Nat
  OBVIOUS
<1>9. player_info_write(n) = UpToName(w, w) \o Rest
  BY <1>2, <1>3, <1>4, <1>5, <1>7
<1>10. player_info_fields(n) = UpToName(w, n + 1) \o Rest
  BY <1>3, <1>4, <1>6, <1>7, <1>8
<1> QED BY <1>9, <1>10 DEF w

\* The fields of a player: the first four are at their numbers, and the others
\* behind the bytes that the position moved over the name.
PlacesAre(x, u, moves) ==
    /\ DOMAIN x = 1 .. 16
    /\ \A k \in 1 .. 4 : x[k] = u[k] /\ Position(x)[k - 1] = k - 1
    /\ \A j \in 1 .. 12 : /\ x[4 + j] = Rest[j]
                          /\ Position(x)[(4 + j) - 1] = (3 + moves) + Position(Rest)[j - 1]

LEMMA InfoPlaces ==
    ASSUME NEW width \in Nat, NEW moves \in Nat
    PROVE  PlacesAre(UpToName(width, moves) \o Rest, UpToName(width, moves), moves)
<1> DEFINE F == FieldsNamed(InfoNames)
           u == UpToName(width, moves)
           x == u \o Rest
<1>1. /\ u \in Seq(F) /\ Len(u) = 4 /\ Size(u) = 3 + moves
      /\ \A k \in 1 .. 4 : Position(u)[k - 1] = k - 1
  <2>1. IsUpToName(u, width, moves)
    BY UpToNameIs
  <2> HIDE DEF u
  <2> QED BY <2>1 DEF IsUpToName
<1>2. Rest \in Seq(F) /\ Len(Rest) = 12
  BY RestIs
<1> HIDE DEF u
<1>3. Joins(F, u, Rest, x)
  BY <1>1, <1>2, JoinsIs
<1>4. /\ \A k \in 0 .. Len(u) : Position(x)[k] = Position(u)[k]
      /\ \A k \in 0 .. Len(Rest) : Position(x)[Len(u) + k] = Size(u) + Position(Rest)[k]
  <2>1. u \in Seq(FieldsNamed(InfoNames)) /\ Rest \in Seq(FieldsNamed(InfoNames))
    BY <1>1, <1>2
  <2> HIDE DEF F
  <2> QED BY <2>1, PositionJoin
<1> HIDE DEF x, F
<1>5. ASSUME NEW k \in 1 .. 4 PROVE x[k] = u[k] /\ Position(x)[k - 1] = k - 1
  <2>1. k \in 1 .. Len(u) /\ k - 1 \in 0 .. Len(u)
    BY <1>1
  <2>2. x[k] = u[k]
    BY <1>3, <2>1 DEF Joins
  <2>3. Position(x)[k - 1] = Position(u)[k - 1]
    BY <1>4, <2>1
  <2> QED BY <1>1, <2>2, <2>3
<1>6. ASSUME NEW j \in 1 .. 12
      PROVE  x[4 + j] = Rest[j] /\ Position(x)[(4 + j) - 1] = (3 + moves) + Position(Rest)[j - 1]
  <2>1. j \in 1 .. Len(Rest) /\ j - 1 \in 0 .. Len(Rest) /\ (4 + j) - 1 = 4 + (j - 1)
    BY <1>2
  <2>2. x[Len(u) + j] = Rest[j]
    BY <1>3, <2>1 DEF Joins
  <2>3. Position(x)[Len(u) + (j - 1)] = Size(u) + Position(Rest)[j - 1]
    BY <1>4, <2>1
  <2> QED BY <1>1, <2>1, <2>2, <2>3
<1>7. DOMAIN x = 1 .. 16
  BY <1>1, <1>2, <1>3 DEF Joins
<1>8. PlacesAre(x, u, moves)
  BY <1>5, <1>6, <1>7 DEF PlacesAre
<1> QED BY <1>8 DEF x, u

\* Of a player whose name has a length of two bytes or more, only what is before
\* the end of the name is where its reader looks.
LEMMA InfoRead ==
    ASSUME NEW n \in Nat
    PROVE  /\ n < 128 => player_info_fields(n) = player_info_write(n)
           /\ n >= 128 => {f.name : f \in Placed(player_info_fields(n)) \cap Placed(player_info_write(n))}
                          = {"id", "skin_variant", "hair", "name"}
<1> DEFINE w == LengthBytes(n) + n
           First == {"id", "skin_variant", "hair", "name"}
           u == UpToName(w, w)
           z == UpToName(w, n + 1)
           x == u \o Rest
           y == z \o Rest
           place(l, k) == [name |-> l[k].name, width |-> l[k].width, at |-> Position(l)[k - 1]]
<1>1. w \in Nat /\ n + 1 \in Nat /\ (n < 128 => w = n + 1) /\ (n >= 128 => w > n + 1)
  BY LengthBytesIs
<1>2. player_info_write(n) = x /\ player_info_fields(n) = y
  BY InfoParts
<1> HIDE DEF w
<1>3. IsUpToName(u, w, w) /\ IsUpToName(z, w, n + 1)
  BY <1>1, UpToNameIs
<1>4. /\ u[1].name = "id" /\ u[2].name = "skin_variant" /\ u[3].name = "hair" /\ u[4].name = "name"
      /\ \A k \in 1 .. 4 : u[k].name = z[k].name /\ u[k].width = z[k].width
  <2> HIDE DEF u, z
  <2> QED BY <1>3 DEF IsUpToName
<1>5. PlacesAre(x, u, w) /\ PlacesAre(y, z, n + 1)
  BY <1>1, InfoPlaces
<1>6. /\ DOMAIN x = 1 .. 16 /\ DOMAIN y = 1 .. 16
      /\ \A k \in 1 .. 4 : /\ x[k] = u[k] /\ Position(x)[k - 1] = k - 1
                          /\ y[k] = z[k] /\ Position(y)[k - 1] = k - 1
      /\ \A j \in 1 .. 12 : /\ x[4 + j] = Rest[j]
                            /\ Position(x)[(4 + j) - 1] = (3 + w) + Position(Rest)[j - 1]
                            /\ y[4 + j] = Rest[j]
                            /\ Position(y)[(4 + j) - 1] = (3 + (n + 1)) + Position(Rest)[j - 1]
  <2> HIDE DEF u, z, x, y
  <2> QED BY <1>5 DEF PlacesAre
<1>7. \A j \in 1 .. 12 : Position(Rest)[j - 1] \in Nat
  <2>1. Rest \in Seq(FieldsNamed(InfoNames)) /\ Len(Rest) = 12
    BY RestIs
  <2>2. ASSUME NEW j \in 1 .. 12 PROVE j - 1 \in 0 .. Len(Rest)
    BY <2>1
  <2> QED BY <2>1, <2>2, PositionType
<1>8. CASE n < 128
  BY <1>1, <1>2, <1>8
<1>9. CASE n >= 128
  <2>2. \A k \in 1 .. 16 : k \in 1 .. 4 \/ (k - 4 \in 1 .. 12 /\ 4 + (k - 4) = k)
    OBVIOUS
  <2> HIDE DEF u, z, x, y
  <2>3. Placed(x) = {place(x, k) : k \in 1 .. 16} /\ Placed(y) = {place(y, k) : k \in 1 .. 16}
    BY <1>6 DEF Placed
  <2>4. ASSUME NEW k \in 1 .. 4 PROVE place(x, k) = place(y, k) /\ x[k].name \in First
    <3>1. u[k].name = z[k].name /\ u[k].width = z[k].width /\ u[k].name \in First
      BY <1>4
    <3> QED BY <1>6, <3>1
  <2>5. ASSUME NEW k \in 1 .. 16, NEW m \in 1 .. 16, place(x, k) = place(y, m)
        PROVE  x[k].name \in First
    <3> SUFFICES ASSUME x[k].name \notin First PROVE FALSE
      OBVIOUS
    <3>1. x[k].name = y[m].name /\ Position(x)[k - 1] = Position(y)[m - 1]
      BY <2>5
    <3>2. k - 4 \in 1 .. 12 /\ 4 + (k - 4) = k
      BY <2>2, <2>4
    <3>3. m - 4 \in 1 .. 12 /\ 4 + (m - 4) = m
      BY <2>2, <2>4, <3>1
    <3>4. x[k].name = RestNames[k - 4] /\ y[m].name = RestNames[m - 4]
      <4>1. x[k] = Rest[k - 4] /\ y[m] = Rest[m - 4]
        BY <1>6, <3>2, <3>3
      <4>2. \A j \in 1 .. 12 : Rest[j].name = RestNames[j]
        BY RestIs
      <4> QED BY <3>2, <3>3, <4>1, <4>2
    <3>5. k - 4 = m - 4
      BY <3>1, <3>2, <3>3, <3>4, RestNamesDiffer
    <3>6. /\ Position(x)[k - 1] = (3 + w) + Position(Rest)[(k - 4) - 1]
          /\ Position(y)[m - 1] = (3 + (n + 1)) + Position(Rest)[(m - 4) - 1]
      <4>1. /\ Position(x)[(4 + (k - 4)) - 1] = (3 + w) + Position(Rest)[(k - 4) - 1]
            /\ Position(y)[(4 + (m - 4)) - 1] = (3 + (n + 1)) + Position(Rest)[(m - 4) - 1]
        BY <1>6, <3>2, <3>3
      <4> QED BY <3>2, <3>3, <4>1
    <3>7. Position(Rest)[(k - 4) - 1] \in Nat
      BY <1>7, <3>2
    <3> DEFINE P == Position(Rest)[(k - 4) - 1]
    <3>8. (3 + w) + P = (3 + (n + 1)) + P
      BY Zenon, <3>1, <3>5, <3>6
    <3> HIDE DEF P
    <3>9. P \in Nat
      BY <3>7 DEF P
    <3> QED BY <1>1, <1>9, <3>8, <3>9
  <2> DEFINE common == Placed(y) \cap Placed(x)
  <2>6. ASSUME NEW f \in common PROVE f.name \in First
    <3>1. PICK k \in 1 .. 16, m \in 1 .. 16 : f = place(x, k) /\ f = place(y, m)
      BY Zenon, <2>3
    <3>2. x[k].name \in First
      BY <2>5, <3>1
    <3>3. f.name = x[k].name
      BY <3>1
    <3> QED BY Zenon, <3>2, <3>3
  <2>7. ASSUME NEW k \in 1 .. 4 PROVE u[k].name \in {f.name : f \in common}
    <3>1. place(x, k) \in common
      BY <2>3, <2>4
    <3>2. place(x, k).name = u[k].name
      BY <1>6
    <3> HIDE DEF common, place
    <3> QED BY <3>1, <3>2
  <2>8. {f.name : f \in common} = First
    <3>1. 1 \in 1 .. 4 /\ 2 \in 1 .. 4 /\ 3 \in 1 .. 4 /\ 4 \in 1 .. 4
      OBVIOUS
    <3>2. First \subseteq {f.name : f \in common}
      <4> HIDE DEF common
      <4> QED BY <1>4, <2>7, <3>1
    <3> HIDE DEF common, First
    <3> QED BY <2>6, <3>2
  <2> QED BY <1>2, <1>9, <2>8
<1> QED BY <1>8, <1>9

-----------------------------------------------------------------------------
(* The buffer of a message. *)

LEMMA BufferInitKeeps == MessageInit \/ MessageIdle => BufferIInv
<1>1. ASSUME MessageInit PROVE BufferIInv
  <2>1. /\ message.type \in HasRead \cup HasWrite /\ message.n \in Lengths /\ message.world \in Worlds
        /\ buffer = << >>
        /\ stage \in {"new"} \cup IF message.type \in HasRead THEN {"arriving"} ELSE {}
    BY <1>1 DEF MessageInit, MessageTypes, NotYet
  <2>2. message.n \in Nat /\ message.world \subseteq Loaded
    BY <2>1, MessagesAssumption, WorldsAssumption
  <2>3. stage = "new" \/ (stage = "arriving" /\ message.type \in HasRead)
    BY <2>1
  <2> QED BY <2>1, <2>2, <2>3 DEF BufferIInv
<1>2. ASSUME MessageIdle PROVE BufferIInv
  <2>1. message.type = STATUS /\ message.n = 0 /\ message.world = {} /\ buffer = << >> /\ stage = "none"
    BY <1>2 DEF MessageIdle, NotYet
  <2> QED BY <2>1 DEF BufferIInv, HasWrite
<1> QED BY <1>1, <1>2

\* The steps that leave the buffer, and all that was made of it, alone.
LEMMA BufferLeft ==
    ASSUME BufferIInv, UNCHANGED << message, buffer, bits, len, got, consumed >>,
           \/ stage' = stage
           \/ stage' \in {"made", "failed", "unwritten", "crashed", "freed"}
           \/ stage = "written" /\ stage' = "sent"
           \/ stage' = "arriving" /\ message.type \in HasRead
    PROVE  BufferIInv'
<1>1. Content' = Content
  BY DEF Content
<1>2. /\ stage' \in {"written", "sent"} => stage \in {"written", "sent"}
      /\ stage' \in {"arriving", "arrived", "read"} =>
           stage \in {"arriving", "arrived", "read"} \/ message.type \in HasRead
      /\ stage' \in {"arrived", "read"} => stage \in {"arrived", "read"}
      /\ stage' = "read" => stage = "read"
  OBVIOUS
<1> QED BY <1>1, <1>2 DEF BufferIInv

LEMMA packet_serializeKeeps == ASSUME BufferIInv, packet_serialize PROVE BufferIInv'
<1>1. /\ message.type \in HasWrite \ {TILE_SECTION} /\ stage' = "written" /\ message' = message
      /\ buffer' = WriteLayout(message.type, message.n)
      /\ bits' = (IF message.type = WORLD_INFO THEN __fill_world_info(message.world) ELSE {})
      /\ len' = (Size(buffer') + PACKET_HEADER_SIZE) % 65536
  BY DEF packet_serialize
<1>2. Content' = WriteLayout(message.type, message.n)
  BY <1>1 DEF Content
<1>3. Size(buffer)' = Size(buffer')
  BY DEF Size, Position
<1>4. message.type = WORLD_INFO => bits' = __fill_world_info(message'.world)
  BY <1>1
<1>5. message'.type \in HasRead \cup HasWrite /\ message'.n \in Nat /\ message'.world \subseteq Loaded
  BY <1>1 DEF BufferIInv
<1> QED BY <1>1, <1>2, <1>3, <1>4, <1>5 DEF BufferIInv

LEMMA ArriveFills == ASSUME BufferIInv, Arrive PROVE BufferIInv'
<1>1. stage = "arriving" /\ stage' \in {"failed", "arrived"} /\ message' = message /\ buffer' = Content
  BY DEF Arrive, Content
<1>2. Content' = Content
  BY <1>1 DEF Content
<1>3. message.type \in HasRead /\ message.type # TILE_SECTION
  BY <1>1 DEF BufferIInv, HasRead, CONNECT_REQUEST, PLAYER_INFO, INVENTORY_SLOT, GET_SECTION, CHAT_MESSAGE,
     PLAYER_HP, PLAYER_MANA, CLIENT_UUID, DISCONNECT, TILE_SECTION
<1> QED BY <1>1, <1>2, <1>3 DEF BufferIInv

LEMMA DeserializeTakes == ASSUME BufferIInv, Deserialize PROVE BufferIInv'
<1> DEFINE layout == ReadLayout(message.type, message.n)
           ok == packet_deserialize(heap, packet, message.type).res = "ok"
<1>1. /\ stage = "arrived" /\ UNCHANGED << message, buffer, bits, len >>
      /\ \/ /\ ok
            /\ got' = {f.name : f \in Placed(layout) \cap Placed(buffer)} /\ consumed' = Size(layout)
         \/ ~ ok /\ UNCHANGED << got, consumed >>
      /\ ok => stage' = "read"
  BY DEF Deserialize
<1>2. ~ ok => stage' \in {"failed", "crashed"}
  <2> DEFINE made == packet_deserialize(heap, packet, message.type)
  <2>1. stage' = CASE made.res = "ok" -> "read" [] made.res = "error" -> "failed"
                   [] made.res = "crash" -> "crashed"
    BY DEF Deserialize
  <2>2. \/ made.res = "error"
        \/ \E hasText \in BOOLEAN, noText \in {"error", "crash"} :
              made = ReadFunction(heap, packet, hasText, noText)
    BY DeserializeReads
  <2> HIDE DEF made
  <2>3. ASSUME NEW hasText \in BOOLEAN, NEW noText \in {"error", "crash"},
               made = ReadFunction(heap, packet, hasText, noText)
        PROVE  made.res \in {"ok", "error", "crash"}
    BY <2>3 DEF ReadFunction
  <2>4. made.res \in {"ok", "error", "crash"}
    BY <2>2, <2>3
  <2> QED BY <2>1, <2>4 DEF made
<1>3. Content' = Content
  BY <1>1 DEF Content
<1>4. message.type \in HasRead /\ buffer = Content
  BY <1>1 DEF BufferIInv
<1>5. CASE ok
  <2>1. ReadLayout(message.type, message.n)' = layout
    BY <1>1 DEF ReadLayout
  <2> QED BY <1>1, <1>3, <1>4, <1>5 DEF BufferIInv
<1>6. CASE ~ ok
  BY <1>1, <1>2, <1>6, BufferLeft
<1> QED BY <1>5, <1>6

LEMMA BufferInvariance == Spec => []BufferIInv
<1>1. Init => BufferIInv
  BY BufferInitKeeps DEF Init
<1>2. BufferIInv /\ [Next]_vars => BufferIInv'
  <2> SUFFICES ASSUME BufferIInv, [Next]_vars PROVE BufferIInv'
    OBVIOUS
  <2>1. CASE New
    BY <2>1, BufferLeft DEF New
  <2>2. CASE SerializeFails \/ SerializeCrashes \/ FreeReply
    BY <2>2, BufferLeft DEF SerializeFails, SerializeCrashes, FreeReply
  <2>3. CASE server_send
    BY <2>3, BufferLeft DEF server_send
  <2>4. CASE UNCHANGED messageVars
    BY <2>4, BufferLeft DEF messageVars
  <2> QED BY <2>1, <2>2, <2>3, <2>4, packet_serializeKeeps, ArriveFills, DeserializeTakes
          DEF Next, MessageNext, vars
<1> QED BY <1>1, <1>2, PTL DEF Spec

-----------------------------------------------------------------------------
(* The bits of a world. *)

FlagNames == {"day_info", "flags_1", "flags_2", "flags_3", "flags_4"}

LEMMA FlagRows ==
    /\ DOMAIN FlagTable = FlagNames
    /\ FlagTable["day_info"] = << "temp_day_time", "temp_blood_moon", "temp_eclipse" >>
    /\ FlagTable["flags_1"] =
          << "shadow_orb_smashed", "downed_boss_1", "downed_boss_2", "downed_boss_3",
             "hard_mode", "downed_clowns", "1", "downed_plant" >>
    /\ FlagTable["flags_2"] =
          << "downed_mech_1", "downed_mech_2", "downed_mech_3", "downed_mech_any",
             "cloud_bg_active", "crimson", "0", "0" >>
    /\ FlagTable["flags_3"] =
          << "expert_mode", "world.fast_forward_time", "0", "downed_slime_king",
             "downed_queen_bee", "downed_fishron", "downed_martians", "downed_ancient_cultist" >>
    /\ FlagTable["flags_4"] =
          << "downed_moonlord", "downed_halloween_king", "downed_halloween_tree",
             "downed_christmas_ice_queen", "downed_christmas_santank",
             "downed_christmas_tree", "downed_golem", "0" >>
BY DEF FlagTable, FlagNames

\* The number of the flags, and of the bit, that a condition has.
LEMMA FlagsDiffer ==
    ASSUME NEW f \in FlagNames, NEW g \in FlagNames,
           NEW j \in DOMAIN FlagTable[f], NEW k \in DOMAIN FlagTable[g],
           FlagTable[f][j] = FlagTable[g][k], FlagTable[f][j] # "0"
    PROVE  f = g /\ j = k
<1>1. CASE f = "day_info"
  BY <1>1, FlagRows, SMTT(30) DEF FlagNames
<1>2. CASE f = "flags_1"
  BY <1>2, FlagRows, SMTT(30) DEF FlagNames
<1>3. CASE f = "flags_2"
  BY <1>3, FlagRows, SMTT(30) DEF FlagNames
<1>4. CASE f = "flags_3"
  BY <1>4, FlagRows, SMTT(30) DEF FlagNames
<1>5. CASE f = "flags_4"
  BY <1>5, FlagRows, SMTT(30) DEF FlagNames
<1> QED BY <1>1, <1>2, <1>3, <1>4, <1>5 DEF FlagNames

\* Each condition of a world but the fast forward time has its own bit, and one
\* bit more is always set.
LEMMA FlagsCounted ==
    ASSUME NEW world \in SUBSET Loaded
    PROVE  Cardinality(__fill_world_info(world)) = 1 + Cardinality(world \ {"flags.fast_forward_time"})
<1> DEFINE B == __fill_world_info(world)
           C == world \ {"flags.fast_forward_time"}
           W == C \cup {"1"}
           g == [p \in B |-> FlagTable[p[1]][p[2]]]
<1>1. \A f \in FlagNames : /\ DOMAIN FlagTable[f] \subseteq 1 .. 8
                           /\ \A k \in DOMAIN FlagTable[f] : FlagTable[f][k] # "flags.fast_forward_time"
  BY FlagRows DEF FlagNames
<1>2. "0" \notin world /\ "1" \notin world
  <2> DEFINE X == UNION {ToSet(FlagTable[f]) : f \in DOMAIN FlagTable}
  <2>1. Loaded = (X \ {"0", "1", "world.fast_forward_time"}) \cup {"flags.fast_forward_time"}
    BY DEF Loaded
  <2> HIDE DEF X
  <2>2. "0" \notin Loaded /\ "1" \notin Loaded
    BY <2>1
  <2> QED BY <2>2
<1>3. ASSUME NEW p \in B
      PROVE  \E f \in FlagNames : \E k \in DOMAIN FlagTable[f] : p = << f, k >> /\ FlagTable[f][k] \in W
  <2>1. PICK f \in FlagNames :
           p \in {<< f, k >> : k \in {j \in DOMAIN FlagTable[f] : FlagTable[f][j] \in world \cup {"1"}}}
    BY FlagRows DEF __fill_world_info
  <2>2. PICK k \in DOMAIN FlagTable[f] : p = << f, k >> /\ FlagTable[f][k] \in world \cup {"1"}
    BY <2>1
  <2> QED BY <1>1, <2>2
<1>4. ASSUME NEW f \in FlagNames, NEW k \in DOMAIN FlagTable[f], FlagTable[f][k] \in W
      PROVE  << f, k >> \in B
  <2>1. << f, k >> \in {<< f, m >> : m \in {j \in DOMAIN FlagTable[f] : FlagTable[f][j] \in world \cup {"1"}}}
    BY <1>4
  <2> QED BY <2>1, FlagRows DEF __fill_world_info
<1> HIDE DEF B
<1>5. IsFiniteSet(B)
  <2>1. IsFiniteSet(1 .. 8)
    <3>1. 1 \in Int /\ 8 \in Int
      OBVIOUS
    <3> QED BY <3>1, FS_Interval
  <2>2. IsFiniteSet(FlagNames)
    <3>1. \A S, x : IsFiniteSet(S) => IsFiniteSet(S \cup {x})
      BY FS_AddElement
    <3>2. IsFiniteSet((((({} \cup {"day_info"}) \cup {"flags_1"}) \cup {"flags_2"})
                       \cup {"flags_3"}) \cup {"flags_4"})
      BY <3>1, FS_EmptySet
    <3> QED BY <3>2 DEF FlagNames
  <2>3. IsFiniteSet(FlagNames \X (1 .. 8))
    BY <2>1, <2>2, FS_Product
  <2>4. B \in SUBSET (FlagNames \X (1 .. 8))
    BY <1>1, <1>3
  <2> QED BY <2>3, <2>4, FS_Subset
<1>6. ASSUME NEW p \in B PROVE g[p] \in W
  <2>1. PICK f \in FlagNames : \E k \in DOMAIN FlagTable[f] : p = << f, k >> /\ FlagTable[f][k] \in W
    BY <1>3
  <2>2. PICK k \in DOMAIN FlagTable[f] : p = << f, k >> /\ FlagTable[f][k] \in W
    BY <2>1
  <2>3. g[p] = FlagTable[p[1]][p[2]] /\ p[1] = f /\ p[2] = k
    BY <2>2
  <2> QED BY <2>2, <2>3
<1>7. ASSUME NEW w \in W PROVE \E p \in B : g[p] = w
  <2>1. \E f \in FlagNames : \E k \in DOMAIN FlagTable[f] : FlagTable[f][k] = w
    <3>1. CASE w = "1"
      BY <3>1, FlagRows DEF FlagNames
    <3>2. CASE w # "1"
      <4>1. w \in UNION {ToSet(FlagTable[f]) : f \in DOMAIN FlagTable}
        BY <3>2 DEF Loaded
      <4>2. PICK f \in FlagNames : w \in ToSet(FlagTable[f])
        BY <4>1, FlagRows
      <4> QED BY <4>2 DEF ToSet
    <3> QED BY <3>1, <3>2
  <2>2. PICK f \in FlagNames : \E k \in DOMAIN FlagTable[f] : FlagTable[f][k] = w
    BY <2>1
  <2>3. PICK k \in DOMAIN FlagTable[f] : FlagTable[f][k] = w
    BY <2>2
  <2>4. << f, k >> \in B
    BY <1>4, <2>3
  <2>5. g[<< f, k >>] = w
    BY <2>3, <2>4
  <2> QED BY <2>4, <2>5
<1>8. ASSUME NEW p \in B, NEW q \in B, g[p] = g[q] PROVE p = q
  <2>1. PICK f \in FlagNames : \E k \in DOMAIN FlagTable[f] : p = << f, k >> /\ FlagTable[f][k] \in W
    BY <1>3
  <2>2. PICK k \in DOMAIN FlagTable[f] : p = << f, k >> /\ FlagTable[f][k] \in W
    BY <2>1
  <2>3. PICK h \in FlagNames : \E j \in DOMAIN FlagTable[h] : q = << h, j >> /\ FlagTable[h][j] \in W
    BY <1>3
  <2>4. PICK j \in DOMAIN FlagTable[h] : q = << h, j >> /\ FlagTable[h][j] \in W
    BY <2>3
  <2>5. g[p] = FlagTable[f][k] /\ g[q] = FlagTable[h][j]
    BY <2>2, <2>4
  <2>6. FlagTable[f][k] # "0"
    BY <1>2, <2>2
  <2>7. f = h /\ k = j
    BY <1>8, <2>5, <2>6, FlagsDiffer
  <2> QED BY <2>2, <2>4, <2>7
<1>9. g \in Surjection(B, W) /\ g \in Injection(B, W)
  <2>1. g \in [B -> W]
    BY <1>6
  <2>2. IsInjective(g)
    <3>1. DOMAIN g = B
      OBVIOUS
    <3> HIDE DEF g
    <3> QED BY <1>8, <3>1 DEF IsInjective
  <2> HIDE DEF g, W
  <2> QED BY <1>7, <2>1, <2>2 DEF Surjection, Injection
<1>10. IsFiniteSet(W) /\ Cardinality(W) = Cardinality(B)
  <2> HIDE DEF g, W
  <2> QED BY <1>5, <1>9, FS_Surjection
<1>11. IsFiniteSet(C) /\ "1" \notin C
  <2>1. C \in SUBSET W
    OBVIOUS
  <2> HIDE DEF W
  <2>2. IsFiniteSet(C)
    BY <1>10, <2>1, FS_Subset
  <2> QED BY <1>2, <2>2
<1>12. Cardinality(C \cup {"1"}) = Cardinality(C) + 1 /\ Cardinality(C) \in Nat
  <2> HIDE DEF C
  <2> QED BY <1>11, FS_AddElement, FS_CardinalityType
<1> QED BY <1>10, <1>12 DEF B

-----------------------------------------------------------------------------
(* The layouts of the types. *)

\* The bytes of the text of a type, with those of its length.
TextBytes(type, n) == IF type \in HasText THEN LengthBytes(n) + n ELSE 0

LEMMA TextsAre ==
    /\ \A type \in {CONNECT_REQUEST, DISCONNECT, PLAYER_INFO, WORLD_INFO, STATUS, CHAT_MESSAGE, CLIENT_UUID} :
          type \in HasText
    /\ \A type \in {INVENTORY_SLOT, GET_SECTION, SECTION_TILE_FRAME, CONTINUE_CONNECTING, PLAYER_HP,
                    PLAYER_MANA, CONNECTION_COMPLETE} : type \notin HasText
    /\ PACKET_LEN(PLAYER_INFO) = 29 /\ PACKET_LEN(INVENTORY_SLOT) = 7 /\ PACKET_LEN(GET_SECTION) = 8
    /\ PACKET_LEN(STATUS) = 4 /\ PACKET_LEN(SECTION_TILE_FRAME) = 8 /\ PACKET_LEN(CONTINUE_CONNECTING) = 1
    /\ PACKET_LEN(PLAYER_HP) = 5 /\ PACKET_LEN(PLAYER_MANA) = 5 /\ PACKET_LEN(CONNECTION_COMPLETE) = 0
    /\ PACKET_LEN(DISCONNECT) = 0
BY TypesAre DEF HasText, PACKET_LEN

\* Every type that is written has the members of its body in its message, and the
\* length that is declared for it.
LEMMA WriteLayouts ==
    ASSUME NEW type \in HasWrite \ {TILE_SECTION}, NEW n \in Nat
    PROVE  \E size \in Nat :
              /\ IsLayout(WriteLayout(type, n), Sent(type), size)
              /\ type \notin {CHAT_MESSAGE, WORLD_INFO} => size = PACKET_LEN(type) + TextBytes(type, n)
<1> DEFINE L == WriteLayout(type, n)
<1>1. LengthBytes(n) \in Nat
  BY LengthBytesIs
<1>2. type \in {PLAYER_INFO, CHAT_MESSAGE, DISCONNECT, STATUS, CONTINUE_CONNECTING, CONNECTION_COMPLETE,
                SECTION_TILE_FRAME, WORLD_INFO}
  BY DEF HasWrite
<1>3. /\ type = PLAYER_INFO => L = player_info_write(n)
      /\ type = CHAT_MESSAGE => L = chat_message_write(n)
      /\ type = DISCONNECT => L = disconnect_write(n)
      /\ type = STATUS => L = status_write(n)
      /\ type = CONTINUE_CONNECTING => L = continue_connecting_write
      /\ type = CONNECTION_COMPLETE => L = connection_complete_write
      /\ type = SECTION_TILE_FRAME => L = section_tile_frame_write
      /\ type = WORLD_INFO => L = __fill_world_info_buffer(n)
  BY TypesAre DEF WriteLayout
<1> HIDE DEF L
<1>4. CASE type = PLAYER_INFO
  <2>1. IsLayout(L, Sent(type), 29 + LengthBytes(n) + n)
    BY <1>3, <1>4, PlayerInfoLayouts
  <2>2. 29 + LengthBytes(n) + n \in Nat /\ 29 + LengthBytes(n) + n = PACKET_LEN(type) + TextBytes(type, n)
    BY <1>1, <1>4, TextsAre DEF TextBytes
  <2> QED BY <2>1, <2>2 DEF L
<1>5. CASE type = CHAT_MESSAGE
  <2>1. IsLayout(L, Sent(type), 1 + 3 + (LengthBytes(n) + n))
    BY <1>3, <1>5, SmallLayouts
  <2>2. 1 + 3 + (LengthBytes(n) + n) \in Nat
    BY <1>1
  <2> QED BY <1>5, <2>1, <2>2 DEF L
<1>6. CASE type = DISCONNECT
  <2>1. IsLayout(L, Sent(type), LengthBytes(n) + n)
    BY <1>3, <1>6, SmallLayouts
  <2>2. LengthBytes(n) + n \in Nat /\ LengthBytes(n) + n = PACKET_LEN(type) + TextBytes(type, n)
    BY <1>1, <1>6, TextsAre DEF TextBytes
  <2> QED BY <2>1, <2>2 DEF L
<1>7. CASE type = STATUS
  <2>1. IsLayout(L, Sent(type), 4 + (LengthBytes(n) + n))
    BY <1>3, <1>7, SmallLayouts
  <2>2. 4 + (LengthBytes(n) + n) \in Nat /\ 4 + (LengthBytes(n) + n) = PACKET_LEN(type) + TextBytes(type, n)
    BY <1>1, <1>7, TextsAre DEF TextBytes
  <2> QED BY <2>1, <2>2 DEF L
<1>8. CASE type = CONTINUE_CONNECTING
  <2>1. IsLayout(L, Sent(type), 1)
    BY <1>3, <1>8, SmallLayouts
  <2>2. 1 = PACKET_LEN(type) + TextBytes(type, n)
    BY <1>8, TextsAre DEF TextBytes
  <2> QED BY <2>1, <2>2 DEF L
<1>9. CASE type = CONNECTION_COMPLETE
  <2>1. IsLayout(L, Sent(type), 0)
    BY <1>3, <1>9, SmallLayouts
  <2>2. 0 = PACKET_LEN(type) + TextBytes(type, n)
    BY <1>9, TextsAre DEF TextBytes
  <2> QED BY <2>1, <2>2 DEF L
<1>10. CASE type = SECTION_TILE_FRAME
  <2>1. IsLayout(L, Sent(type), 8)
    BY <1>3, <1>10, SmallLayouts
  <2>2. 8 = PACKET_LEN(type) + TextBytes(type, n)
    BY <1>10, TextsAre DEF TextBytes
  <2> QED BY <2>1, <2>2 DEF L
<1>11. CASE type = WORLD_INFO
  BY <1>3, <1>11, WorldInfoLayout DEF L
<1> QED BY <1>2, <1>4, <1>5, <1>6, <1>7, <1>8, <1>9, <1>10, <1>11

\* So has every type that is read; its reader takes one byte for the length of a
\* player's name, and otherwise what is written.
LEMMA ReadLayouts ==
    ASSUME NEW type \in HasRead, NEW n \in Nat
    PROVE  /\ \E size \in Nat : /\ IsLayout(ReadLayout(type, n), Sent(type), size)
                                /\ type \notin HasText => size = PACKET_LEN(type)
                                /\ type = PLAYER_INFO => size = PACKET_LEN(type) + n + 1
           /\ type \in HasWrite /\ type # PLAYER_INFO => ReadLayout(type, n) = WriteLayout(type, n)
<1> DEFINE L == ReadLayout(type, n)
<1>1. LengthBytes(n) \in Nat
  BY LengthBytesIs
<1>2. type \in {CONNECT_REQUEST, PLAYER_INFO, INVENTORY_SLOT, GET_SECTION, CHAT_MESSAGE, PLAYER_HP,
                PLAYER_MANA, CLIENT_UUID, DISCONNECT}
  BY DEF HasRead
<1>3. /\ type = CONNECT_REQUEST => L = connect_request_fields(n)
      /\ type = PLAYER_INFO => L = player_info_fields(n)
      /\ type = INVENTORY_SLOT => L = inventory_slot_fields
      /\ type = GET_SECTION => L = get_section_fields
      /\ type = CHAT_MESSAGE => L = chat_message_fields(n)
      /\ type = PLAYER_HP => L = player_hp_fields
      /\ type = PLAYER_MANA => L = player_mana_fields
      /\ type = CLIENT_UUID => L = client_uuid_fields(n)
      /\ type = DISCONNECT => L = disconnect_fields(n)
  BY TypesAre DEF ReadLayout
<1>4. type \in HasWrite /\ type # PLAYER_INFO => L = WriteLayout(type, n)
  <2>1. type \in HasWrite /\ type # PLAYER_INFO => type \in {CHAT_MESSAGE, DISCONNECT}
    BY <1>2, TypesAre DEF HasWrite
  <2>2. WriteLayout(CHAT_MESSAGE, n) = chat_message_write(n) /\ WriteLayout(DISCONNECT, n) = disconnect_write(n)
    BY TypesAre DEF WriteLayout
  <2>3. chat_message_fields(n) = chat_message_write(n) /\ disconnect_fields(n) = disconnect_write(n)
    BY DEF chat_message_fields, chat_message_write, disconnect_fields, disconnect_write
  <2> HIDE DEF L
  <2> QED BY <1>3, <2>1, <2>2, <2>3
<1> HIDE DEF L
<1>5. CASE type = PLAYER_INFO
  <2>1. IsLayout(L, Sent(type), 29 + n + 1)
    BY <1>3, <1>5, PlayerInfoLayouts
  <2>2. 29 + n + 1 \in Nat /\ 29 + n + 1 = PACKET_LEN(type) + n + 1 /\ type \in HasText
    BY <1>5, TextsAre
  <2> QED BY <1>4, <2>1, <2>2 DEF L
<1>6. CASE type \in {CONNECT_REQUEST, CLIENT_UUID, DISCONNECT}
  <2>1. IsLayout(L, Sent(type), LengthBytes(n) + n)
    <3>1. type = DISCONNECT => L = disconnect_write(n)
      BY <1>3 DEF disconnect_fields, disconnect_write
    <3> QED BY <1>3, <1>6, <3>1, SmallLayouts
  <2>2. LengthBytes(n) + n \in Nat /\ type \in HasText /\ type # PLAYER_INFO
    BY <1>1, <1>6, TextsAre, TypesAre
  <2> QED BY <1>4, <2>1, <2>2 DEF L
<1>7. CASE type = CHAT_MESSAGE
  <2>1. IsLayout(L, Sent(type), 1 + 3 + (LengthBytes(n) + n))
    <3>1. L = chat_message_write(n)
      BY <1>3, <1>7 DEF chat_message_fields, chat_message_write
    <3> QED BY <1>7, <3>1, SmallLayouts
  <2>2. 1 + 3 + (LengthBytes(n) + n) \in Nat /\ type \in HasText /\ type # PLAYER_INFO
    BY <1>1, <1>7, TextsAre, TypesAre
  <2> QED BY <1>4, <2>1, <2>2 DEF L
<1>8. CASE type \in {INVENTORY_SLOT, GET_SECTION, PLAYER_HP, PLAYER_MANA}
  <2>1. /\ IsLayout(L, Sent(INVENTORY_SLOT), 7) \/ type # INVENTORY_SLOT
        /\ IsLayout(L, Sent(GET_SECTION), 8) \/ type # GET_SECTION
        /\ IsLayout(L, Sent(PLAYER_HP), 5) \/ type # PLAYER_HP
        /\ IsLayout(L, Sent(PLAYER_MANA), 5) \/ type # PLAYER_MANA
    BY <1>3, SmallLayouts
  <2>2. IsLayout(L, Sent(type), PACKET_LEN(type)) /\ PACKET_LEN(type) \in Nat /\ type # PLAYER_INFO
    BY <1>8, <2>1, TextsAre, TypesAre
  <2> QED BY <1>4, <2>2 DEF L
<1> QED BY <1>2, <1>5, <1>6, <1>7, <1>8

\* What is in the buffer of a message has the members of its body.
LEMMA ContentIs ==
    ASSUME BufferIInv, message.type # TILE_SECTION
    PROVE  \E size \in Nat : IsLayout(Content, Sent(message.type), size)
<1>1. message.type \in HasRead \cup HasWrite /\ message.n \in Nat
  BY DEF BufferIInv
<1>2. CASE message.type \in HasWrite
  BY <1>1, <1>2, WriteLayouts DEF Content
<1>3. CASE message.type \notin HasWrite
  BY <1>1, <1>3, ReadLayouts DEF Content
<1> QED BY <1>2, <1>3

\* What is read of a message is what was written, and each condition of a world has
\* its bit (player_info.c:154, world_info.c:199 and :246, world.c:881).
THEOREM WhatIsWrittenIsRead == Spec => []ReadsWhatWasWritten
<1>1. BufferIInv => ReadsWhatWasWritten
  <2> SUFFICES ASSUME BufferIInv PROVE ReadsWhatWasWritten
    OBVIOUS
  <2>1. message.n \in Nat /\ message.world \in SUBSET Loaded
    BY DEF BufferIInv
  <2>2. ASSUME buffer # << >>
        PROVE  {buffer[k].name : k \in DOMAIN buffer} = Members(message.type) \ NotSent
    <3>1. buffer = Content /\ message.type # TILE_SECTION
      BY <2>2 DEF BufferIInv
    <3> QED BY <3>1, ContentIs DEF IsLayout, Sent
  <2>3. ASSUME stage = "read"
        PROVE  IF message.type = PLAYER_INFO /\ message.n >= 128
               THEN got = {"id", "skin_variant", "hair", "name"}
               ELSE got = {buffer[k].name : k \in DOMAIN buffer}
    <3> DEFINE layout == ReadLayout(message.type, message.n)
    <3>1. /\ message.type \in HasRead /\ buffer = Content
          /\ got = {f.name : f \in Placed(layout) \cap Placed(buffer)}
      BY <2>3 DEF BufferIInv
    <3>2. CASE message.type = PLAYER_INFO
      <4>1. layout = player_info_fields(message.n) /\ buffer = player_info_write(message.n)
        <5>1. PLAYER_INFO \in HasWrite
          BY DEF HasWrite
        <5> QED BY <3>1, <3>2, <5>1, TypesAre DEF Content, ReadLayout, WriteLayout
      <4> HIDE DEF layout
      <4>2. CASE message.n >= 128
        <5>1. got = {"id", "skin_variant", "hair", "name"}
          BY <2>1, <3>1, <4>1, <4>2, InfoRead
        <5> QED BY <3>2, <4>2, <5>1
      <4>3. CASE message.n < 128
        <5>1. layout = buffer
          BY <2>1, <4>1, <4>3, InfoRead
        <5>2. got = {buffer[k].name : k \in DOMAIN buffer}
          BY <3>1, <5>1, AllRead
        <5>3. ~ (message.n >= 128)
          BY <2>1, <4>3
        <5> QED BY <5>2, <5>3
      <4> QED BY <2>1, <4>2, <4>3
    <3>3. CASE message.type # PLAYER_INFO
      <4>1. layout = buffer
        BY <2>1, <3>1, <3>3, ReadLayouts DEF Content
      <4> HIDE DEF layout
      <4>2. got = {buffer[k].name : k \in DOMAIN buffer}
        BY <3>1, <4>1, AllRead
      <4> QED BY <3>3, <4>2
    <3> QED BY <3>2, <3>3
  <2>4. stage \in {"written", "sent"} /\ message.type = WORLD_INFO =>
           Cardinality(bits) = 1 + Cardinality(message.world \ {"flags.fast_forward_time"})
    BY <2>1, FlagsCounted DEF BufferIInv
  <2> QED BY <2>2, <2>3, <2>4 DEF ReadsWhatWasWritten
<1> QED BY <1>1, BufferInvariance, PTL

\* The length of a message is that of its fields, of its declaration and of what its
\* reader takes, and fits where it is said to (binary_writer.c:72, packet.c:185).
THEOREM LengthsAreAsWritten == Spec => []LengthAsWritten
<1>1. BufferIInv /\ LengthIsCounted => LengthAsWritten
  <2> SUFFICES ASSUME BufferIInv, LengthIsCounted PROVE LengthAsWritten
    OBVIOUS
  <2>1. message.n \in Nat
    BY DEF BufferIInv
  <2>2. ASSUME stage \in {"written", "sent"}
        PROVE  /\ len = Size(buffer) + 3 <=> Size(buffer) < 65533
               /\ message.type \notin {CHAT_MESSAGE, WORLD_INFO} =>
                    Size(buffer) = PACKET_LEN(message.type) + TextBytes(message.type, message.n)
    <3>1. /\ message.type \in HasWrite \ {TILE_SECTION}
          /\ buffer = WriteLayout(message.type, message.n)
          /\ len = (Size(buffer) + 3) % 65536
      BY <2>2 DEF BufferIInv, Content, PACKET_HEADER_SIZE
    <3>2. PICK size \in Nat :
             /\ IsLayout(buffer, Sent(message.type), size)
             /\ message.type \notin {CHAT_MESSAGE, WORLD_INFO} =>
                  size = PACKET_LEN(message.type) + TextBytes(message.type, message.n)
      BY <2>1, <3>1, WriteLayouts
    <3>3. Size(buffer) = size
      BY <3>2 DEF IsLayout
    <3>4. (size + 3) % 65536 = size + 3 <=> size < 65533
      OBVIOUS
    <3> QED BY <3>1, <3>2, <3>3, <3>4
  <2>3. ASSUME stage = "read"
        PROVE  consumed = IF message.type \notin HasText THEN PACKET_LEN(message.type)
                          ELSE IF message.type = PLAYER_INFO THEN PACKET_LEN(PLAYER_INFO) + message.n + 1
                          ELSE Size(buffer)
    <3> DEFINE layout == ReadLayout(message.type, message.n)
    <3>1. message.type \in HasRead /\ buffer = Content /\ consumed = Size(layout)
      BY <2>3 DEF BufferIInv
    <3>2. PICK size \in Nat : /\ IsLayout(layout, Sent(message.type), size)
                              /\ message.type \notin HasText => size = PACKET_LEN(message.type)
                              /\ message.type = PLAYER_INFO => size = PACKET_LEN(message.type) + message.n + 1
      BY <2>1, <3>1, ReadLayouts
    <3>3. consumed = size
      BY <3>1, <3>2 DEF IsLayout
    <3>4. message.type # PLAYER_INFO => layout = buffer
      BY <2>1, <3>1, ReadLayouts DEF Content
    <3> QED BY <3>1, <3>2, <3>3, <3>4
  <2> QED BY <2>2, <2>3 DEF LengthAsWritten, TextBytes
<1> QED BY <1>1, BufferInvariance, LengthsAreCounted, PTL

=============================================================================
