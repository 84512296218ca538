------------------------------- MODULE MCCodec -------------------------------
(***************************************************************************)
(* Codec for the least and the greatest int of each number of bits, and    *)
(* for ints with bits in the first, a middle and the last byte.  Messages  *)
(* with texts on both sides of each number of length bytes, and of what    *)
(* fits the length of a message; worlds of no condition, of one and of     *)
(* all; and every number of free cells.                                    *)
(***************************************************************************)
EXTENDS Messages

Ints == {{}} \cup {{k} : k \in Bits} \cup {0 .. k : k \in Bits}
        \cup {{0, 7, 13}, {6, 14, 30}, {0, 20, 21, 28}}

AnyByte == {{}, {0}, {7}, {3, 7}, 0 .. 6, 0 .. 7}

TextLengths == {0, 1, 36, 127, 128, 200, 16383, 16384, 65520, 65526, 65527, 65530}

OneAndAll == {{}, Loaded} \cup {{c} : c \in Loaded}

EachNumber == {CHOOSE t \in SUBSET Cells : Cardinality(t) = k : k \in 0 .. Cardinality(Cells)}
=============================================================================
