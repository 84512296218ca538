------------------------------- MODULE Bitmap -------------------------------
(***************************************************************************)
(* The word bitmaps of include/bitmap.h.  A bitmap is a function from word *)
(* indices to words, and a word is the set of its bits that are one, so    *)
(* `|' is \cup, `& ~' is \ and `& (1 << b)' is a membership test.          *)
(***************************************************************************)
EXTENDS Integers

\* enum { BITS_PER_WORD = sizeof(word_t) * CHAR_BIT }, word_t is uint32_t.
BitsPerWord == 32

Bit == 0 .. BitsPerWord - 1

\* The bitmaps that have n words.
Bitmaps(n) == [0 .. n - 1 -> SUBSET Bit]

Zeroed(n) == [w \in 0 .. n - 1 |-> {}]

WordOffset(b) == b \div BitsPerWord
BitOffset(b)  == b % BitsPerWord

BitmapSet(words, n) ==
    [words EXCEPT ![WordOffset(n)] = @ \cup {BitOffset(n)}]

BitmapClear(words, n) ==
    [words EXCEPT ![WordOffset(n)] = @ \ {BitOffset(n)}]

BitmapGet(words, n) == BitOffset(n) \in words[WordOffset(n)]

=============================================================================
