-------------------------------- MODULE Codec --------------------------------
(***************************************************************************)
(* Strings in messages and in the world file: a length in up to five       *)
(* bytes, seven bits each, the lowest first, and then the characters       *)
(* (src/binary_writer.c, src/binary_reader.c).  A behaviour writes a       *)
(* string, and reads it back from the buffer it was written to and from a  *)
(* file that may end early.  Each round of a loop is a step.               *)
(*                                                                         *)
(* An int is the set of the numbers of its bits that are one, and a byte   *)
(* likewise: all 32 bits of a length are there.                            *)
(***************************************************************************)
EXTENDS Integers, Sequences, FiniteSets

CONSTANTS Values,       \* the integers and lengths that are written
          Garbage       \* what an uninitialised byte may hold

Bits == 0 .. 31

ASSUME CodecAssumption == /\ Values \subseteq SUBSET Bits
                          /\ Garbage \subseteq SUBSET (0 .. 7)

VARIABLES
    value,      \* the int that is written, strlen(src) for a string
    pc,         \* "write", "buffer", "file" or "done"
    v,          \* what is left of it, v of binary_writer_write_7bit_int
    bytes,      \* the bytes that were written before the characters
    inFile,     \* how many of these are in the file,
    whole,      \* and whether it has all characters, or not the last one
    memory,     \* whether there is memory for the string that is read
    count, shift, byte, pos,    \* the locals of the readers
    outValue,   \* *out_value of the reader of buffers, or NoResult
    val         \* the length of the string read from the file, or NoResult

stringVars ==
    << value, pc, v, bytes, inFile, whole, memory, count, shift, byte, pos, outValue, val >>

NoResult == {-1}

Start == /\ v = value
         /\ bytes = << >>
         /\ inFile = 0 /\ whole = FALSE
         /\ count = {} /\ shift = 0 /\ byte = {} /\ pos = 0
         /\ outValue = NoResult
         /\ val = NoResult

StringInit == pc = "write" /\ value \in Values /\ memory \in BOOLEAN /\ Start

\* Nothing is written.
StringIdle == pc = "done" /\ value = {} /\ memory = FALSE /\ Start

-----------------------------------------------------------------------------
(* binary_writer.c.                                                        *)

\* v >= 0x80, and the shifts; bits above the 32nd are lost.
Large(w)        == w \ (0 .. 6) # {}
Low7(w)         == w \cap (0 .. 6)
ShiftRight7(w)  == {b - 7 : b \in w \ (0 .. 6)}
ShiftLeft(w, n) == {b + n : b \in w} \cap Bits

\* A loop of its own over the bits: one, and one more for each shift by seven
\* that leaves something.
binary_writer_7bit_len(w) == Cardinality({k \in 1 .. 4 : w \ (0 .. 7 * k - 1) # {}}) + 1

\* A round of the loop of binary_writer_write_7bit_int.
WriteByte ==
    /\ pc = "write"
    /\ Large(v)
    /\ bytes' = Append(bytes, Low7(v) \cup {7})
    /\ v' = ShiftRight7(v)
    /\ UNCHANGED << value, pc, inFile, whole, memory, count, shift, byte, pos, outValue, val >>

\* The byte after the loop, and the characters.  All of the string gets into
\* the file, or all but the last character, or some of the bytes of the length.
WriteLast ==
    /\ pc = "write"
    /\ ~ Large(v)
    /\ bytes' = Append(bytes, v)
    /\ pc' = "buffer"
    /\ inFile' \in 0 .. Len(bytes')
    /\ whole' \in IF inFile' < Len(bytes') THEN {FALSE} ELSE {TRUE, value = {}}
    /\ UNCHANGED << value, v, memory, count, shift, byte, pos, outValue, val >>

-----------------------------------------------------------------------------
(* The readers: __read_7_bit_int for files and binary_reader_read_7bit_int *)
(* for buffers are the same loop over different bytes.                     *)

Again == shift = 0 \/ 7 \in byte

Take(b) == /\ byte' = b
           /\ count' = count \cup ShiftLeft(Low7(b), shift)
           /\ shift' = shift + 7

ReadBuffer ==
    /\ pc = "buffer"
    /\ Again
    /\ shift # 35
    /\ Take(bytes[pos + 1])
    /\ pos' = pos + 1
    /\ UNCHANGED << value, pc, v, bytes, inFile, whole, memory, outValue, val >>

\* The buffer's reader returns, and the file's begins.
BufferDone ==
    /\ pc = "buffer"
    /\ ~ Again
    /\ outValue' = count
    /\ pc' = "file"
    /\ count' = {} /\ shift' = 0 /\ byte' = {} /\ pos' = 0
    /\ UNCHANGED << value, v, bytes, inFile, whole, memory, val >>

\* At the end of the file binary_reader_read_byte succeeds and leaves the byte
\* as it was: uninitialised, or the one before.
ReadFile ==
    /\ pc = "file"
    /\ Again
    /\ shift # 35
    /\ \/ /\ pos < inFile
          /\ Take(bytes[pos + 1])
          /\ pos' = pos + 1
       \/ /\ pos >= inFile
          /\ \E b \in IF shift = 0 THEN Garbage ELSE {byte} : Take(b)
          /\ pos' = pos
    /\ UNCHANGED << value, pc, v, bytes, inFile, whole, memory, outValue, val >>

\* Five bytes were read, and none was the last.
TooLong ==
    /\ pc \in {"buffer", "file"}
    /\ Again
    /\ shift = 35
    /\ pc' = IF pc = "buffer" THEN "file" ELSE "done"
    /\ count' = {} /\ shift' = 0 /\ byte' = {} /\ pos' = 0
    /\ UNCHANGED << value, v, bytes, inFile, whole, memory, outValue, val >>

Less(w, x) == LET d == (w \cup x) \ (w \cap x) IN
              \E b \in d : b \in x /\ \A c \in d : c <= b

\* A mutant of fread whose result is not looked at.
fread_unchecked(n) == TRUE

\* fread(val, n, 1, fp) = 1, behind the bytes of the length: it is 0 for n = 0,
\* and when there are fewer than n characters.
fread(n) == /\ n # {}
            /\ pos = Len(bytes)
            /\ Less(n, value) \/ (whole /\ n = value)

\* The rest of binary_reader_read_string.  The string is freed when its
\* characters cannot be read.
ReadString ==
    /\ pc = "file"
    /\ ~ Again
    /\ val' = IF memory /\ fread(count) THEN count ELSE NoResult
    /\ pc' = "done"
    /\ UNCHANGED << value, v, bytes, inFile, whole, memory, count, shift, byte, pos, outValue >>

StringNext ==
    WriteByte \/ WriteLast \/ ReadBuffer \/ BufferDone \/ ReadFile \/ TooLong \/ ReadString

-----------------------------------------------------------------------------
(* Properties.                                                             *)

StringTypeOK == /\ value \in Values \cup {{}}
                /\ pc \in {"write", "buffer", "file", "done"}
                /\ v \subseteq Bits
                /\ bytes \in Seq(SUBSET (0 .. 7)) /\ Len(bytes) <= 5
                /\ inFile \in 0 .. 5 /\ whole \in BOOLEAN /\ memory \in BOOLEAN
                /\ count \subseteq Bits /\ shift \in 0 .. 35 /\ byte \subseteq 0 .. 7
                /\ pos \in 0 .. 5
                /\ {outValue, val} \subseteq (SUBSET Bits) \cup {NoResult}

\* The buffer's reader returns what was written, negative numbers included, and
\* the file's reader nothing else: a string is read from a file if it is there,
\* whole, and has a character; never a part of it, and never one whose length
\* came from garbage (binary_writer.c:43-56, binary_reader.c:369-390, :141-145
\* and :286-292).
RoundTrip ==
    /\ StringTypeOK
    /\ pc = "file" => outValue = value
    /\ pc = "done" /\ bytes # << >> => outValue = value
    /\ pc = "done" => val = IF memory /\ whole /\ value # {} THEN value ELSE NoResult

\* The count of the bytes of a length is a loop of its own
\* (binary_writer.c:29-41).
LengthIsCounted ==
    pc # "write" /\ bytes # << >> => Len(bytes) = binary_writer_7bit_len(value)

StringSpec == (StringInit \/ StringIdle) /\ [][StringNext]_stringVars

-----------------------------------------------------------------------------
(* The inductive invariant of MessageProofs.                               *)

\* The seven bits of w that are the k-th byte's, and all of the k-th byte of n.
Chunk(w, k)      == {b \in 0 .. 6 : b + 7 * (k - 1) \in w}
Chopped(w, k, n) == Chunk(w, k) \cup IF k < n THEN {7} ELSE {}

\* The bits of w that the first k bytes have.
LowPart(w, k) == {b \in w : b < 7 * k}

\* The bytes of w: as many as it takes.
BytesOf(w, s) ==
    /\ s \in Seq(SUBSET (0 .. 7))
    /\ Len(s) \in 1 .. 5
    /\ \A k \in 1 .. Len(s) : s[k] = Chopped(w, k, Len(s))
    /\ \A b \in w : b < 7 * Len(s)
    /\ \A k \in 1 .. Len(s) - 1 : \E b \in w : b >= 7 * k

\* The writer has made the first bytes, and v is what they leave.
Writing ==
    /\ value \in SUBSET Bits
    /\ Len(bytes) <= 4
    /\ \A k \in 1 .. Len(bytes) : bytes[k] = Chunk(value, k) \cup {7}
    /\ v = {b \in Bits : b + 7 * Len(bytes) \in value}
    /\ \A k \in 1 .. Len(bytes) : \E b \in value : b >= 7 * k
    /\ outValue = NoResult /\ val = NoResult
    /\ pos = 0 /\ shift = 0 /\ count = {} /\ byte = {}

\* A reader has of w what the first bytes say.
Reads(w, s) ==
    /\ pos \in 0 .. Len(s) /\ shift = 7 * pos
    /\ count = LowPart(w, pos)
    /\ pos > 0 => byte = s[pos]
    /\ pos = 0 => byte = {}

\* The reader of a file that ends within the length.
Lost == pos = inFile /\ inFile < Len(bytes) /\ \E n \in 1 .. 5 : shift = 7 * n

Written ==
    /\ BytesOf(value, bytes)
    /\ inFile <= Len(bytes)
    /\ whole => inFile = Len(bytes)
    /\ pc = "buffer" => Reads(value, bytes) /\ {outValue, val} = {NoResult}
    /\ pc \in {"file", "done"} => outValue = value
    /\ pc = "file" => /\ pos <= inFile /\ val = NoResult
                      /\ Reads(value, bytes) \/ Lost
    /\ pc = "done" => val = IF memory /\ whole /\ value # {} THEN value ELSE NoResult

StringIInv ==
    /\ StringTypeOK
    /\ pc = "write" => Writing
    /\ pc \in {"buffer", "file"} => bytes # << >>
    /\ pc = "done" /\ bytes = << >> => value = {} /\ val = NoResult
    /\ bytes # << >> /\ pc # "write" => Written

=============================================================================
