----------------------------- MODULE DataProofs -----------------------------
(***************************************************************************)
(* The facts about data that the other proofs cite: induction and          *)
(* recursion; what the operations of Bitmap do, stated bit by bit, for     *)
(* bitmaps of any size; and for any number of cells what a subtree of the  *)
(* memory of messages holds, that all memory stays in the tree, and what   *)
(* the Read and new functions of PacketMemory leave of a heap, whichever   *)
(* of their allocations fails; and that the lists of siblings talloc keeps *)
(* the tree in stay whole and stand for it.                                *)
(***************************************************************************)
EXTENDS Bitmap, PacketMemory, Sequences, FiniteSetTheorems, WellFoundedInduction, TLAPS

-----------------------------------------------------------------------------
(* Induction and recursion without operators as parameters: every set of   *)
(* natural numbers that has an element has a least one, and a step that    *)
(* stays in a set can be repeated any number of times.  The recursive      *)
(* functions of the models are what their definitions say by these two.    *)

\* Induction: a statement about natural numbers that is wrong somewhere has a
\* least number for which it is wrong.
LEMMA LeastNatural ==
    ASSUME NEW S \in SUBSET Nat, S # {}
    PROVE  \E x \in S : \A y \in S : x <= y
<1> DEFINE Below == {0 .. n - 1 : n \in S}
<1>1. Below \subseteq FiniteSubsetsOf(Nat)
  <2> SUFFICES ASSUME NEW n \in S PROVE 0 .. n - 1 \in FiniteSubsetsOf(Nat)
    OBVIOUS
  <2>1. IsFiniteSet(0 .. n - 1)
    BY FS_Interval
  <2> QED BY <2>1 DEF FiniteSubsetsOf
<1>2. PICK T \in Below : \A U \in Below : ~ (<< U, T >> \in StrictSubsetOrdering(Nat))
  <2>1. IsWellFoundedOn(StrictSubsetOrdering(Nat), FiniteSubsetsOf(Nat))
    BY FS_StrictSubsetOrderingWellFounded
  <2>2. Below # {}
    OBVIOUS
  <2> HIDE DEF Below
  <2> QED BY <1>1, <2>1, <2>2, WFMin
<1>3. PICK x \in S : T = 0 .. x - 1
  OBVIOUS
<1>4. ASSUME NEW y \in S, y < x PROVE FALSE
  <2>1. /\ 0 .. y - 1 \in SUBSET Nat
        /\ 0 .. x - 1 \in SUBSET Nat
        /\ 0 .. y - 1 \subseteq 0 .. x - 1
        /\ y \in 0 .. x - 1
        /\ y \notin 0 .. y - 1
    BY <1>4
  <2>2. << 0 .. y - 1, 0 .. x - 1 >> \in StrictSubsetOrdering(Nat)
    BY <2>1 DEF StrictSubsetOrdering
  <2>3. 0 .. y - 1 \in Below
    OBVIOUS
  <2> QED BY <1>2, <1>3, <2>2, <2>3
<1> QED BY <1>4

\* f is the base, and then what the step makes of it again and again.
Repeats(f, S, base, step) == /\ f \in [Nat -> S]
                             /\ f[0] = base
                             /\ \A n \in Nat : f[n + 1] = step[<< n, f[n] >>]

\* Recursion: from a first value, a step can be repeated for ever.
LEMMA PrimitiveRecursion ==
    ASSUME NEW S, NEW base \in S, NEW step \in [Nat \X S -> S]
    PROVE  \E f : Repeats(f, S, base, step)
<1> DEFINE Upto(n) == {f \in [0 .. n -> S] : /\ f[0] = base
                                             /\ \A k \in 0 .. n - 1 : f[k + 1] = step[<< k, f[k] >>]}
<1>1. ASSUME NEW m \in Nat, NEW n \in Nat, m <= n, NEW f \in Upto(m), NEW g \in Upto(n)
      PROVE  \A k \in 0 .. m : f[k] = g[k]
  <2> DEFINE Differ == {k \in 0 .. m : f[k] # g[k]}
  <2> SUFFICES ASSUME Differ # {} PROVE FALSE
    OBVIOUS
  <2>1. Differ \in SUBSET Nat
    OBVIOUS
  <2>2. PICK k \in Differ : \A j \in Differ : k <= j
    <3> HIDE DEF Differ
    <3> QED BY <2>1, LeastNatural
  <2>3. k # 0
    OBVIOUS
  <2>4. k - 1 \in 0 .. m - 1 /\ k - 1 \in 0 .. n - 1 /\ k - 1 \notin Differ
    BY <1>1, <2>2, <2>3
  <2>5. f[k - 1] = g[k - 1] /\ (k - 1) + 1 = k
    BY <2>4
  <2> QED BY <2>4, <2>5
<1>2. \A n \in Nat : Upto(n) # {}
  <2> DEFINE Missing == {n \in Nat : Upto(n) = {}}
  <2> SUFFICES ASSUME Missing # {} PROVE FALSE
    OBVIOUS
  <2>1. PICK n \in Missing : \A j \in Missing : n <= j
    <3>1. Missing \in SUBSET Nat
      OBVIOUS
    <3> HIDE DEF Missing
    <3> QED BY <3>1, LeastNatural
  <2>2. CASE n = 0
    <3>1. [k \in 0 .. 0 |-> base] \in Upto(0)
      OBVIOUS
    <3> QED BY <2>2, <3>1
  <2>3. CASE n # 0
    <3>1. n - 1 \in Nat /\ n - 1 \notin Missing
      BY SMTT(30), <2>1, <2>3
    <3>2. PICK f : f \in Upto(n - 1)
      BY <3>1
    <3> DEFINE g == [k \in 0 .. n |-> IF k = n THEN step[<< n - 1, f[n - 1] >>] ELSE f[k]]
    <3>3. g \in [0 .. n -> S] /\ g[0] = base
      BY <2>3, <3>1, <3>2
    <3>4. ASSUME NEW k \in 0 .. n - 1 PROVE g[k + 1] = step[<< k, g[k] >>]
      <4>1. CASE k = n - 1
        <5>1. k \in 0 .. n /\ k + 1 = n /\ k # n /\ n \in 0 .. n
          BY <3>1, <4>1
        <5>2. g[k + 1] = step[<< n - 1, f[n - 1] >>] /\ g[k] = f[k]
          BY <5>1
        <5> QED BY <4>1, <5>2
      <4>2. CASE k # n - 1
        <5>1. k \in 0 .. (n - 1) - 1 /\ k \in 0 .. n /\ k + 1 \in 0 .. n /\ k + 1 # n /\ k # n
          BY <4>2
        <5> QED BY <3>2, <5>1
      <4> QED BY <4>1, <4>2
    <3>5. g \in Upto(n)
      BY <3>3, <3>4
    <3> QED BY <3>5
  <2> QED BY <2>2, <2>3
<1> DEFINE h == [n \in Nat |-> (CHOOSE e : e \in Upto(n))[n]]
<1>3. ASSUME NEW n \in Nat PROVE (CHOOSE e : e \in Upto(n)) \in Upto(n)
  BY <1>2
<1>4. h \in [Nat -> S]
  <2>1. ASSUME NEW n \in Nat PROVE h[n] \in S
    <3>1. PICK f : f \in Upto(n) /\ h[n] = f[n]
      BY <1>3
    <3> QED BY <3>1
  <2> QED BY <2>1
<1>5. h[0] = base
  BY <1>3
<1>6. ASSUME NEW n \in Nat PROVE h[n + 1] = step[<< n, h[n] >>]
  <2>1. PICK f : f \in Upto(n) /\ h[n] = f[n]
    BY <1>3
  <2>2. PICK g : g \in Upto(n + 1) /\ h[n + 1] = g[n + 1]
    <3>1. n + 1 \in Nat
      OBVIOUS
    <3>2. (CHOOSE e : e \in Upto(n + 1)) \in Upto(n + 1)
      BY <1>3, <3>1
    <3>3. h[n + 1] = (CHOOSE e : e \in Upto(n + 1))[n + 1]
      BY <3>1
    <3> HIDE DEF Upto, h
    <3> QED BY <3>2, <3>3
  <2>3. g[n + 1] = step[<< n, g[n] >>]
    BY <2>2
  <2>4. f[n] = g[n]
    <3> HIDE DEF Upto
    <3> QED BY <1>1, <2>1, <2>2
  <2> QED BY <2>1, <2>2, <2>3, <2>4
<1>7. Repeats(h, S, base, step)
  <2> HIDE DEF h
  <2> QED BY <1>4, <1>5, <1>6 DEF Repeats
<1> QED BY <1>7

LEMMA ElementOfSequence ==
    ASSUME NEW S, NEW s \in Seq(S), NEW i \in 1 .. Len(s)
    PROVE  s[i] \in S
OBVIOUS

-----------------------------------------------------------------------------
(* Bitmaps. *)

\* Two bit numbers with the same word and the same offset in it are equal
\* (WORD_OFFSET and BIT_OFFSET, bitmap.h:35-36).
LEMMA OffsetsIdentify ==
    ASSUME NEW m \in Nat, NEW n \in Nat,
           WordOffset(m) = WordOffset(n),
           BitOffset(m) = BitOffset(n)
    PROVE  m = n
BY SMT DEF WordOffset, BitOffset, BitsPerWord

\* A bit number below the capacity of k words lies in one of them.
LEMMA OffsetsInRange ==
    ASSUME NEW k \in Nat, NEW n \in Nat, n < k * BitsPerWord
    PROVE  /\ WordOffset(n) \in 0 .. k - 1
           /\ BitOffset(n) \in Bit
BY SMT DEF WordOffset, BitOffset, BitsPerWord, Bit

\* bitmap_set sets the bit it names and no other one, and yields a bitmap.
THEOREM SetSetsOneBit ==
    ASSUME NEW k \in Nat, NEW words \in Bitmaps(k),
           NEW n \in Nat, n < k * BitsPerWord
    PROVE  /\ BitmapSet(words, n) \in Bitmaps(k)
           /\ \A m \in Nat : m < k * BitsPerWord =>
                (BitmapGet(BitmapSet(words, n), m) <=> m = n \/ BitmapGet(words, m))
<1>1. WordOffset(n) \in 0 .. k - 1 /\ BitOffset(n) \in Bit
  BY OffsetsInRange
<1>2. BitmapSet(words, n) \in Bitmaps(k)
  BY <1>1 DEF BitmapSet, Bitmaps
<1>3. ASSUME NEW m \in Nat, m < k * BitsPerWord
      PROVE  BitmapGet(BitmapSet(words, n), m) <=> m = n \/ BitmapGet(words, m)
  <2>1. WordOffset(m) \in 0 .. k - 1
    BY <1>3, OffsetsInRange
  <2>2. CASE WordOffset(m) = WordOffset(n)
    <3>1. BitmapSet(words, n)[WordOffset(m)] = words[WordOffset(m)] \cup {BitOffset(n)}
      BY <1>1, <2>1, <2>2 DEF BitmapSet, Bitmaps
    <3>2. BitOffset(m) = BitOffset(n) <=> m = n
      BY <2>2, OffsetsIdentify
    <3> QED BY <3>1, <3>2 DEF BitmapGet
  <2>3. CASE WordOffset(m) # WordOffset(n)
    BY <1>1, <2>1, <2>3 DEF BitmapSet, BitmapGet, Bitmaps
  <2> QED BY <2>2, <2>3
<1> QED BY <1>2, <1>3

\* bitmap_clear clears the bit it names and no other one.
THEOREM ClearClearsOneBit ==
    ASSUME NEW k \in Nat, NEW words \in Bitmaps(k),
           NEW n \in Nat, n < k * BitsPerWord
    PROVE  /\ BitmapClear(words, n) \in Bitmaps(k)
           /\ \A m \in Nat : m < k * BitsPerWord =>
                (BitmapGet(BitmapClear(words, n), m) <=> m # n /\ BitmapGet(words, m))
<1>1. WordOffset(n) \in 0 .. k - 1 /\ BitOffset(n) \in Bit
  BY OffsetsInRange
<1>2. BitmapClear(words, n) \in Bitmaps(k)
  BY <1>1 DEF BitmapClear, Bitmaps
<1>3. ASSUME NEW m \in Nat, m < k * BitsPerWord
      PROVE  BitmapGet(BitmapClear(words, n), m) <=> m # n /\ BitmapGet(words, m)
  <2>1. WordOffset(m) \in 0 .. k - 1
    BY <1>3, OffsetsInRange
  <2>2. CASE WordOffset(m) = WordOffset(n)
    <3>1. BitmapClear(words, n)[WordOffset(m)] = words[WordOffset(m)] \ {BitOffset(n)}
      BY <1>1, <2>1, <2>2 DEF BitmapClear, Bitmaps
    <3>2. BitOffset(m) = BitOffset(n) <=> m = n
      BY <2>2, OffsetsIdentify
    <3> QED BY <3>1, <3>2 DEF BitmapGet
  <2>3. CASE WordOffset(m) # WordOffset(n)
    BY <1>1, <2>1, <2>3 DEF BitmapClear, BitmapGet, Bitmaps
  <2> QED BY <2>2, <2>3
<1> QED BY <1>2, <1>3

\* A zeroed bitmap has no bit set.
LEMMA ZeroedHasNoBit ==
    ASSUME NEW k \in Nat
    PROVE  /\ Zeroed(k) \in Bitmaps(k)
           /\ \A m \in Nat : m < k * BitsPerWord => ~ BitmapGet(Zeroed(k), m)
BY OffsetsInRange DEF Zeroed, Bitmaps, BitmapGet

-----------------------------------------------------------------------------
(* Subtrees. *)

LEMMA SubtreeHasRoot ==
    ASSUME NEW h, NEW p
    PROVE  p \in Subtree(h, p)
BY DEF Subtree

LEMMA SubtreeHasChildren ==
    ASSUME NEW h, NEW p, NEW c \in Cells,
           h[c].is # "free", h[c].in \in Subtree(h, p)
    PROVE  c \in Subtree(h, p)
<1> DEFINE live == {d \in Cells : h[d].is # "free"}
           Closed(S) == \A d \in live : h[d].in \in S \cup {p} => d \in S
<1>1. Subtree(h, p) = {p} \cup {d \in live : \A S \in SUBSET live : Closed(S) => d \in S}
  BY DEF Subtree
<1>2. ASSUME NEW S \in SUBSET live, Closed(S) PROVE c \in S
  <2>1. h[c].in \in S \cup {p}
    BY <1>1, <1>2
  <2> QED BY <1>2, <2>1
<1> QED BY <1>1, <1>2

\* S holds, but for p, what lies below p, and nothing else.
Below(h, p, S) == /\ S \subseteq Subtree(h, p)
                  /\ \A d \in Cells : h[d].is # "free" /\ h[d].in \in S \cup {p} => d \in S \cup {p}

LEMMA SubtreeIs ==
    ASSUME NEW h, NEW p, NEW S, Below(h, p, S)
    PROVE  Subtree(h, p) = S \cup {p}
<1> DEFINE live == {d \in Cells : h[d].is # "free"}
           Closed(T) == \A d \in live : h[d].in \in T \cup {p} => d \in T
<1>1. Subtree(h, p) = {p} \cup {d \in live : \A T \in SUBSET live : Closed(T) => d \in T}
  BY DEF Subtree
<1>2. (S \cup {p}) \cap live \in SUBSET live /\ Closed((S \cup {p}) \cap live)
  BY DEF Below
<1>3. Subtree(h, p) \subseteq S \cup {p}
  BY <1>1, <1>2
<1> QED BY <1>3, SubtreeHasRoot DEF Below

LEMMA FreeIs ==
    ASSUME NEW h, NEW p, NEW S, Below(h, p, S)
    PROVE  TallocFree(h, p) = [c \in Cells |-> IF c \in S \cup {p} THEN Free ELSE h[c]]
BY SubtreeIs DEF TallocFree

\* The heap g is h with t and the cells of S, which were free, in use; they lie
\* below t.  Freeing t takes it back.
Adds(g, h, t, S) == /\ h \in Heaps /\ t \in Cells /\ S \subseteq Cells
                    /\ \A c \in S \cup {t} : h[c] = Free
                    /\ \A d \in Cells : h[d].is # "free" => h[d].in \notin S \cup {t}
                    /\ \A d \in Cells \ (S \cup {t}) : g[d] = h[d]
                    /\ S \subseteq Subtree(g, t)

LEMMA FreeUndoes ==
    ASSUME NEW h, NEW g, NEW t, NEW S, Adds(g, h, t, S)
    PROVE  TallocFree(g, t) = h
<1> USE DEF Adds
<1>1. Below(g, t, S)
  BY DEF Below
<1>2. TallocFree(g, t) = [c \in Cells |-> IF c \in S \cup {t} THEN Free ELSE g[c]]
  BY <1>1, FreeIs
<1>3. \A c \in Cells : h[c] = IF c \in S \cup {t} THEN Free ELSE g[c]
  OBVIOUS
<1>4. h = [c \in Cells |-> h[c]]
  BY DEF Heaps
<1> QED BY <1>2, <1>3, <1>4

-----------------------------------------------------------------------------
(* Heaps in which no allocation lies below freed memory, and free cells say *)
(* nothing.                                                                 *)

Sound(h) == /\ h \in Heaps
            /\ \A c \in Cells : h[c].is = "free" => h[c] = Free
            /\ \A c \in Cells : h[c].is # "free" =>
                  h[c].in \notin Cells \/ h[h[c].in].is # "free"

LEMMA HeapCell ==
    ASSUME NEW h \in Heaps, NEW c \in Cells
    PROVE  /\ h[c] \in [is : Kinds, in : Cells \cup {"player", "server", "top"}]
           /\ h[c].is \in Kinds
           /\ h[c] = [is |-> h[c].is, in |-> h[c].in]
BY DEF Heaps

\* What talloc gives: a free cell, or NULL if there is none.
Gives(new, h, kind, p) ==
    \/ /\ new.cell = NoCell /\ new.heap = h
       /\ \A c \in Cells : h[c].is # "free"
    \/ \E c \in Cells : /\ new.cell = c /\ c # NoCell /\ h[c].is = "free"
                      /\ new.heap = [h EXCEPT ![c] = [is |-> kind, in |-> p]]

LEMMA TallocNewGives ==
    ASSUME NEW h, NEW kind, NEW p
    PROVE  Gives(TallocNew(h, kind, p), h, kind, p)
<1> USE DEF Gives
<1>1. CASE \E c \in Cells : h[c].is = "free"
  <2>1. PICK c \in Cells : /\ c = CHOOSE d \in Cells : h[d].is = "free"
                           /\ h[c].is = "free"
    BY <1>1
  <2>2. TallocNew(h, kind, p) = [heap |-> [h EXCEPT ![c] = [is |-> kind, in |-> p]], cell |-> c]
    BY <1>1, <2>1 DEF TallocNew
  <2>3. c # NoCell
    BY TallocAssumption
  <2>4. /\ TallocNew(h, kind, p).cell = c
        /\ TallocNew(h, kind, p).heap = [h EXCEPT ![c] = [is |-> kind, in |-> p]]
    BY <2>2
  <2> QED BY <2>1, <2>3, <2>4
<1>2. CASE ~ \E c \in Cells : h[c].is = "free"
  BY <1>2 DEF TallocNew
<1> QED BY <1>1, <1>2

LEMMA StealCell ==
    ASSUME NEW h \in Heaps, NEW c \in Cells, NEW p \in Cells \cup {"player", "server", "top"}
    PROVE  /\ TallocSteal(h, p, c) \in Heaps
           /\ \A d \in Cells : TallocSteal(h, p, c)[d] =
                 IF d = c THEN [is |-> h[c].is, in |-> p] ELSE h[d]
<1>1. [h[c] EXCEPT !.in = p] = [is |-> h[c].is, in |-> p]
  BY DEF Heaps
<1>2. TallocSteal(h, p, c) = [h EXCEPT ![c] = [is |-> h[c].is, in |-> p]]
  BY <1>1 DEF TallocSteal
<1> QED BY <1>2 DEF Heaps

\* Nothing lies below a free cell.
LEMMA FreeHasNoChildren ==
    ASSUME NEW h, Sound(h), NEW t \in Cells, h[t].is = "free", NEW c \in Cells, h[c].is # "free"
    PROVE  h[c].in # t /\ c # t
BY DEF Sound

-----------------------------------------------------------------------------
(* The tree of all memory. *)

\* Memory that is in use is below the player, the server or NULL, at any depth.
Rooted(h, c) == \E r \in {"player", "server", "top"} : c \in Subtree(h, r)

Forest(h) == h \in Heaps /\ \A c \in Cells : h[c].is # "free" => Rooted(h, c)

\* What is below r stays there when only the cells of gone change, and none of
\* the others is below them.
LEMMA SubtreeCarries ==
    ASSUME NEW h, NEW g, NEW r, NEW gone,
           \A d \in Cells : h[d].is # "free" /\ h[d].in \in gone => d \in gone,
           \A d \in Cells : h[d].is # "free" /\ d \notin gone => g[d] = h[d],
           NEW x \in Subtree(h, r), x \notin gone
    PROVE  x \in Subtree(g, r)
<1> DEFINE was == {d \in Cells : h[d].is # "free"}
           is  == {d \in Cells : g[d].is # "free"}
<1>1. CASE x = r
  BY <1>1, SubtreeHasRoot
<1>2. CASE x # r
  <2>1. x \in was /\ \A S \in SUBSET was : (\A d \in was : h[d].in \in S \cup {r} => d \in S) => x \in S
    BY <1>2 DEF Subtree
  <2>2. ASSUME NEW S \in SUBSET is, \A d \in is : g[d].in \in S \cup {r} => d \in S
        PROVE  x \in S
    <3> DEFINE T == (S \cup gone) \cap was
    <3>1. ASSUME NEW d \in was, h[d].in \in T \cup {r} PROVE d \in T
      <4>1. CASE d \in gone
        BY <4>1
      <4>2. CASE d \notin gone
        <5>1. g[d] = h[d] /\ h[d].in \notin gone
          BY <4>2
        <5>2. d \in is /\ g[d].in \in S \cup {r}
          BY <3>1, <5>1
        <5> QED BY <2>2, <5>2
      <4> QED BY <4>1, <4>2
    <3>2. x \in T
      <4>1. T \in SUBSET was
        OBVIOUS
      <4> HIDE DEF T
      <4> QED BY <2>1, <3>1, <4>1
    <3> QED BY <3>2
  <2>3. x \in is
    BY <2>1
  <2> QED BY <2>2, <2>3 DEF Subtree
<1> QED BY <1>1, <1>2

\* After talloc_free every chunk that is still in use is in the tree: what lay
\* below the chunk that was freed has gone with it, at any depth, and nothing
\* else has (talloc.c:937).
THEOREM FreeKeepsTheTree ==
    ASSUME NEW h, Forest(h), NEW p
    PROVE  /\ Forest(TallocFree(h, p))
           /\ \A c \in Cells : TallocFree(h, p)[c].is # "free" <=>
                 h[c].is # "free" /\ ~ (c \in Subtree(h, p))
<1> DEFINE gone == Subtree(h, p)
           g == TallocFree(h, p)
<1>1. \A c \in Cells : g[c] = IF c \in gone THEN Free ELSE h[c]
  BY DEF TallocFree
<1>2. \A c \in Cells : g[c].is # "free" <=> h[c].is # "free" /\ c \notin gone
  BY <1>1 DEF Free
<1>3. g \in Heaps
  <2>1. Free \in [is : Kinds, in : Cells \cup {"player", "server", "top"}]
    BY DEF Free, Kinds
  <2> QED BY <2>1 DEF TallocFree, Forest, Heaps
<1>4. ASSUME NEW c \in Cells, g[c].is # "free" PROVE Rooted(g, c)
  <2>1. h[c].is # "free" /\ c \notin gone
    BY <1>2, <1>4
  <2>2. PICK r \in {"player", "server", "top"} : c \in Subtree(h, r)
    BY <2>1 DEF Forest, Rooted
  <2>3. \A d \in Cells : h[d].is # "free" /\ h[d].in \in gone => d \in gone
    BY SubtreeHasChildren
  <2>4. \A d \in Cells : h[d].is # "free" /\ d \notin gone => g[d] = h[d]
    BY <1>1
  <2> HIDE DEF gone, g
  <2>5. c \in Subtree(g, r)
    BY <2>1, <2>2, <2>3, <2>4, SubtreeCarries
  <2> QED BY <2>5 DEF Rooted
<1> QED BY <1>2, <1>3, <1>4 DEF Forest

\* talloc_steal moves a chunk with all that is below it, and nothing gets lost,
\* whatever the new parent is, but for a chunk below the one that is moved
\* (talloc.c:1063).
THEOREM StealMovesTheTree ==
    ASSUME NEW h, Forest(h), NEW c \in Cells, h[c].is # "free",
           NEW p \in Cells \cup {"player", "server", "top"},
           p \in Cells => h[p].is # "free", p \notin Subtree(h, c)
    PROVE  /\ Forest(TallocSteal(h, p, c))
           /\ Subtree(TallocSteal(h, p, c), c) = Subtree(h, c)
<1> DEFINE g == TallocSteal(h, p, c)
           moved == Subtree(h, c)
<1>1. g \in Heaps /\ \A d \in Cells : g[d] = IF d = c THEN [is |-> h[c].is, in |-> p] ELSE h[d]
  BY StealCell DEF Forest
<1>2. \A d \in Cells : g[d].is = h[d].is /\ (d # c => g[d] = h[d])
  BY <1>1
<1>3. g[c].in = p /\ g[c].is # "free" /\ c \in moved
  BY <1>1, SubtreeHasRoot
<1> HIDE DEF g
<1>4. \A d \in Cells : h[d].is # "free" /\ h[d].in \in moved => d \in moved
  BY SubtreeHasChildren
<1>5. ASSUME NEW d, Rooted(h, d), d \notin moved PROVE Rooted(g, d)
  <2>1. PICK r \in {"player", "server", "top"} : d \in Subtree(h, r)
    BY <1>5 DEF Rooted
  <2>2. \A e \in Cells : h[e].is # "free" /\ e \notin moved => g[e] = h[e]
    BY <1>2, <1>3
  <2> HIDE DEF moved
  <2>3. d \in Subtree(g, r)
    BY <1>4, <1>5, <2>1, <2>2, SubtreeCarries
  <2> QED BY <2>3 DEF Rooted
<1>6. moved \subseteq Subtree(g, c)
  <2> SUFFICES ASSUME NEW x \in moved PROVE x \in Subtree(g, c)
    OBVIOUS
  <2>1. CASE x = c
    BY <2>1, SubtreeHasRoot
  <2>2. CASE x # c
    <3> DEFINE was == {d \in Cells : h[d].is # "free"}
               S == {d \in was : d \in Subtree(g, c)}
    <3>1. \A T \in SUBSET was : (\A d \in was : h[d].in \in T \cup {c} => d \in T) => x \in T
      BY <2>2 DEF Subtree
    <3>2. ASSUME NEW d \in was, h[d].in \in S \cup {c} PROVE d \in S
      <4>1. CASE d = c
        BY <4>1, SubtreeHasRoot
      <4>2. CASE d # c
        <5>1. g[d] = h[d] /\ g[d].is # "free" /\ g[d].in \in Subtree(g, c)
          BY <1>2, <3>2, <4>2, SubtreeHasRoot
        <5>2. d \in Subtree(g, c)
          BY <5>1, SubtreeHasChildren
        <5> QED BY <5>2
      <4> QED BY <4>1, <4>2
    <3>3. S \in SUBSET was
      OBVIOUS
    <3> HIDE DEF S
    <3>4. x \in S
      BY <3>1, <3>2, <3>3
    <3> QED BY <3>4 DEF S
  <2> QED BY <2>1, <2>2
<1>7. Subtree(g, c) = moved
  <2>1. ASSUME NEW d \in Cells, g[d].is # "free", g[d].in \in moved \cup {c} PROVE d \in moved \cup {c}
    <3>1. CASE d = c
      BY <3>1
    <3>2. CASE d # c
      <4> HIDE DEF moved
      <4>1. h[d].is # "free" /\ h[d].in \in moved
        BY <1>2, <1>3, <2>1, <3>2
      <4> QED BY <1>4, <4>1
    <3> QED BY <3>1, <3>2
  <2> HIDE DEF moved
  <2>2. Below(g, c, moved)
    BY <1>6, <2>1 DEF Below
  <2>3. Subtree(g, c) = moved \cup {c}
    BY <2>2, SubtreeIs
  <2> QED BY <1>3, <2>3
<1>8. PICK r \in {"player", "server", "top"} : c \in Subtree(g, r)
  <2>1. p \notin Cells => \E r \in {"player", "server", "top"} : p \in Subtree(g, r)
    BY SubtreeHasRoot
  <2>2. p \in Cells => \E r \in {"player", "server", "top"} : p \in Subtree(g, r)
    BY <1>5 DEF Forest, Rooted
  <2>3. PICK r \in {"player", "server", "top"} : p \in Subtree(g, r)
    BY <2>1, <2>2
  <2>4. c \in Subtree(g, r)
    BY <1>3, <2>3, SubtreeHasChildren
  <2> QED BY <2>4
<1>9. ASSUME NEW x \in moved PROVE x \in Subtree(g, r)
  <2> DEFINE was == {d \in Cells : h[d].is # "free"}
             S == {d \in was : d \in Subtree(g, r)}
  <2>1. CASE x = c
    BY <1>8, <2>1
  <2>2. CASE x # c
    <3>1. \A T \in SUBSET was : (\A d \in was : h[d].in \in T \cup {c} => d \in T) => x \in T
      BY <2>2 DEF Subtree
    <3>2. ASSUME NEW d \in was, h[d].in \in S \cup {c} PROVE d \in S
      <4>1. CASE d = c
        BY <1>8, <4>1
      <4>2. CASE d # c
        <5>1. g[d] = h[d] /\ g[d].is # "free" /\ g[d].in \in Subtree(g, r)
          BY <1>2, <1>8, <3>2, <4>2
        <5>2. d \in Subtree(g, r)
          BY <5>1, SubtreeHasChildren
        <5> QED BY <5>2
      <4> QED BY <4>1, <4>2
    <3>3. S \in SUBSET was
      OBVIOUS
    <3> HIDE DEF S
    <3>4. x \in S
      BY <3>1, <3>2, <3>3
    <3> QED BY <3>4 DEF S
  <2> QED BY <2>1, <2>2
<1>10. ASSUME NEW d \in Cells, g[d].is # "free" PROVE Rooted(g, d)
  <2>1. CASE d \in moved
    BY <1>9, <2>1 DEF Rooted
  <2>2. CASE d \notin moved
    <3>1. Rooted(h, d)
      BY <1>2, <1>10 DEF Forest
    <3> QED BY <1>5, <2>2, <3>1
  <2> QED BY <2>1, <2>2
<1>11. Forest(g)
  BY <1>1, <1>10 DEF Forest
<1> QED BY <1>7, <1>11 DEF g

\* A new chunk is in the tree if its parent is, and moves nothing; without memory
\* nothing changes (talloc.c:651).
THEOREM NewStaysInTheTree ==
    ASSUME NEW h, Forest(h), NEW kind \in Kinds \ {"free"},
           NEW p \in Cells \cup {"player", "server", "top"}, p \in Cells => h[p].is # "free"
    PROVE  Forest(TallocNew(h, kind, p).heap)
<1> DEFINE new == TallocNew(h, kind, p)
           g == new.heap
<1>1. Gives(new, h, kind, p)
  BY TallocNewGives
<1> HIDE DEF new
<1>2. ASSUME g = h PROVE Forest(g)
  BY <1>2
<1>3. ASSUME \E c \in Cells : h[c].is = "free" /\ g = [h EXCEPT ![c] = [is |-> kind, in |-> p]]
      PROVE  Forest(g)
  <2>1. PICK c \in Cells : h[c].is = "free" /\ g = [h EXCEPT ![c] = [is |-> kind, in |-> p]]
    BY <1>3
  <2>2. /\ g \in Heaps /\ g[c] = [is |-> kind, in |-> p]
        /\ \A d \in Cells : h[d].is # "free" => g[d] = h[d]
        /\ \A d \in Cells : d # c => g[d] = h[d]
    BY <2>1 DEF Forest, Heaps
  <2> HIDE DEF g
  <2>3. ASSUME NEW d, Rooted(h, d) PROVE Rooted(g, d)
    <3>1. PICK r \in {"player", "server", "top"} : d \in Subtree(h, r)
      BY <2>3 DEF Rooted
    <3> DEFINE gone == {}
    <3>2. /\ \A e \in Cells : h[e].is # "free" /\ h[e].in \in gone => e \in gone
          /\ \A e \in Cells : h[e].is # "free" /\ e \notin gone => g[e] = h[e]
          /\ d \notin gone
      BY <2>2
    <3> HIDE DEF gone
    <3>3. d \in Subtree(g, r)
      BY <3>1, <3>2, SubtreeCarries
    <3> QED BY <3>3 DEF Rooted
  <2>4. Rooted(g, c)
    <3>1. \E r \in {"player", "server", "top"} : p \in Subtree(g, r)
      <4>1. CASE p \in Cells
        BY <2>3, <4>1 DEF Forest, Rooted
      <4>2. CASE p \notin Cells
        BY <4>2, SubtreeHasRoot
      <4> QED BY <4>1, <4>2
    <3>2. PICK r \in {"player", "server", "top"} : p \in Subtree(g, r)
      BY <3>1
    <3>3. g[c].is # "free" /\ g[c].in = p
      BY <2>2
    <3>4. c \in Subtree(g, r)
      BY <3>2, <3>3, SubtreeHasChildren
    <3> QED BY <3>4 DEF Rooted
  <2>5. \A d \in Cells : g[d].is # "free" => Rooted(g, d)
    BY <2>2, <2>3, <2>4 DEF Forest
  <2> QED BY <2>2, <2>5 DEF Forest
<1>4. g = h \/ \E c \in Cells : h[c].is = "free" /\ g = [h EXCEPT ![c] = [is |-> kind, in |-> p]]
  BY <1>1 DEF Gives
<1> QED BY <1>2, <1>3, <1>4 DEF new

-----------------------------------------------------------------------------
(* The Read functions. *)

\* What a Read function leaves of a heap h when it succeeds: the body b below the
\* packet, and the text x below the body.
WithBody(h, packet, b) == [h EXCEPT ![b] = [is |-> "body", in |-> packet]]

WithText(h, packet, b, x) ==
    [h EXCEPT ![b] = [is |-> "body", in |-> packet], ![x] = [is |-> "text", in |-> b]]

\* A Read function leaves the body, and the text, below the packet, or leaves the
\* heap as it was, whichever of its allocations failed: its temporary context is
\* freed on every path (the out: labels of src/packets).
THEOREM ReadFunctionLeaves ==
    ASSUME NEW h, Sound(h), NEW packet \in Cells, h[packet].is # "free",
           NEW hasText \in BOOLEAN, NEW noText,
           NEW r, r = ReadFunction(h, packet, hasText, noText)
    PROVE  \/ r.res \in {"error", noText} /\ r.heap = h
           \/ /\ r.res = "ok" /\ ~ hasText /\ r.text = NoCell
              /\ \E b \in Cells : h[b] = Free /\ r.heap = WithBody(h, packet, b)
           \/ /\ r.res = "ok" /\ hasText
              /\ \E b, x \in Cells : /\ b # x /\ h[b] = Free /\ h[x] = Free /\ r.text = x
                                    /\ r.heap = WithText(h, packet, b, x)
<1> DEFINE temp == TallocNew(h, "temp", "top")
           body == TallocNew(temp.heap, "body", temp.cell)
           text == TallocNew(body.heap, "text", temp.cell)
           full == IF hasText
                   THEN TallocSteal(TallocSteal(text.heap, body.cell, text.cell), packet, body.cell)
                   ELSE TallocSteal(body.heap, packet, body.cell)
<1>1. h \in Heaps /\ \A c \in Cells : h[c].is = "free" => h[c] = Free
  BY DEF Sound
<1>2. r = CASE temp.cell = NoCell -> [res |-> "error", heap |-> h]
            [] temp.cell # NoCell /\ body.cell = NoCell ->
                  [res |-> "error", heap |-> TallocFree(temp.heap, temp.cell)]
            [] body.cell # NoCell /\ hasText /\ text.cell = NoCell ->
                  [res |-> noText, heap |-> TallocFree(body.heap, temp.cell)]
            [] OTHER -> [res  |-> "ok", heap |-> TallocFree(full, temp.cell),
                         text |-> IF hasText THEN text.cell ELSE NoCell]
  BY DEF ReadFunction
<1>3. /\ Gives(temp, h, "temp", "top") /\ Gives(body, temp.heap, "body", temp.cell)
      /\ Gives(text, body.heap, "text", temp.cell)
  BY TallocNewGives
<1> HIDE DEF temp, body, text
<1>4. CASE temp.cell = NoCell
  <2>1. body.cell = NoCell
    BY <1>3, <1>4 DEF Gives
  <2>2. r = [res |-> "error", heap |-> h]
    BY <1>2, <1>4, <2>1
  <2> QED BY <2>2
<1>5. CASE temp.cell # NoCell
  <2>1. PICK t \in Cells : /\ t = temp.cell /\ h[t].is = "free"
                          /\ temp.heap = [h EXCEPT ![t] = [is |-> "temp", in |-> "top"]]
    BY <1>3, <1>5 DEF Gives
  <2>2. /\ h[t] = Free
        /\ \A d \in Cells : h[d].is # "free" => h[d].in # t
    BY <1>1, <2>1, FreeHasNoChildren
  <2>3. CASE body.cell = NoCell
    <3>1. r = [res |-> "error", heap |-> TallocFree(temp.heap, t)]
      BY <1>2, <1>5, <2>1, <2>3
    <3>2. Adds(temp.heap, h, t, {})
      BY <1>1, <2>1, <2>2 DEF Adds, Heaps
    <3> QED BY <3>1, <3>2, FreeUndoes
  <2>4. CASE body.cell # NoCell
    <3>1. PICK b \in Cells : /\ b = body.cell /\ temp.heap[b].is = "free"
                            /\ body.heap = [temp.heap EXCEPT ![b] = [is |-> "body", in |-> t]]
      BY <1>3, <2>1, <2>4 DEF Gives
    <3>2. b # t
      BY <1>1, <2>1, <3>1 DEF Heaps
    <3>3. h[b] = Free /\ \A d \in Cells : h[d].is # "free" => h[d].in # b
      BY <1>1, <2>1, <3>1, <3>2, FreeHasNoChildren DEF Heaps
    <3>4. body.heap = [h EXCEPT ![t] = [is |-> "temp", in |-> "top"],
                                ![b] = [is |-> "body", in |-> t]]
      BY <2>1, <3>1
    <3>5. CASE hasText /\ text.cell = NoCell
      <4>1. r = [res |-> noText, heap |-> TallocFree(body.heap, t)]
        BY <1>2, <1>5, <2>1, <2>4, <3>5
      <4>2. Adds(body.heap, h, t, {b})
        <5>1. body.heap[b].is # "free" /\ body.heap[b].in = t
          BY <1>1, <3>4 DEF Heaps
        <5>2. b \in Subtree(body.heap, t)
          BY <5>1, SubtreeHasRoot, SubtreeHasChildren
        <5> QED BY <1>1, <2>2, <3>3, <3>4, <5>2 DEF Adds, Heaps
      <4> QED BY <4>1, <4>2, FreeUndoes
    <3>6. CASE ~ hasText
      <4>1. r = [res |-> "ok", heap |-> TallocFree(full, t), text |-> NoCell]
        BY <1>2, <1>5, <2>1, <2>4, <3>6
      <4>2. full = [h EXCEPT ![t] = [is |-> "temp", in |-> "top"],
                             ![b] = [is |-> "body", in |-> packet]]
        <5>1. full = [body.heap EXCEPT ![b].in = packet]
          BY <3>1, <3>6 DEF TallocSteal
        <5>2. body.heap[b] = [is |-> "body", in |-> t]
          BY <1>1, <3>4 DEF Heaps
        <5>3. full = [body.heap EXCEPT ![b] = [is |-> "body", in |-> packet]]
          BY <5>1, <5>2
        <5> QED BY <1>1, <3>2, <3>4, <5>3 DEF Heaps
      <4>3. Adds(full, WithBody(h, packet, b), t, {})
        <5> DEFINE W == WithBody(h, packet, b)
        <5>1. W \in Heaps
          BY <1>1 DEF Heaps, WithBody, Kinds
        <5>2. \A d \in Cells : W[d] = IF d = b THEN [is |-> "body", in |-> packet] ELSE h[d]
          BY <1>1 DEF Heaps, WithBody
        <5>3. \A d \in Cells \ {t} : full[d] = W[d]
          BY <1>1, <4>2, <5>2 DEF Heaps
        <5>4. packet # t
          BY <2>1
        <5> HIDE DEF W
        <5> QED BY <2>2, <3>2, <5>1, <5>2, <5>3, <5>4 DEF Adds, W
      <4> QED BY <3>3, <3>6, <4>1, <4>3, FreeUndoes
    <3>7. CASE hasText /\ text.cell # NoCell
      <4>1. PICK x \in Cells : /\ x = text.cell /\ body.heap[x].is = "free"
                              /\ text.heap = [body.heap EXCEPT ![x] = [is |-> "text", in |-> t]]
        BY <1>3, <2>1, <3>7 DEF Gives
      <4>2. x # t /\ x # b
        BY <1>1, <3>2, <3>4, <4>1 DEF Heaps
      <4>3. h[x] = Free /\ \A d \in Cells : h[d].is # "free" => h[d].in # x
        BY <1>1, <3>4, <4>1, <4>2, FreeHasNoChildren DEF Heaps
      <4>4. r = [res |-> "ok", heap |-> TallocFree(full, t), text |-> x]
        BY <1>2, <1>5, <2>1, <2>4, <3>7, <4>1
      <4>5. full = [h EXCEPT ![t] = [is |-> "temp", in |-> "top"],
                             ![b] = [is |-> "body", in |-> packet],
                             ![x] = [is |-> "text", in |-> b]]
        BY <1>1, <3>1, <3>2, <3>4, <3>7, <4>1, <4>2 DEF TallocSteal, Heaps
      <4>6. Adds(full, WithText(h, packet, b, x), t, {})
        <5> DEFINE W == WithText(h, packet, b, x)
        <5>1. W \in Heaps
          BY <1>1 DEF Heaps, WithText, Kinds
        <5>2. \A d \in Cells : W[d] = IF d = b THEN [is |-> "body", in |-> packet]
                                     ELSE IF d = x THEN [is |-> "text", in |-> b] ELSE h[d]
          BY <1>1, <4>2 DEF Heaps, WithText
        <5>3. \A d \in Cells \ {t} : full[d] = W[d]
          BY <1>1, <4>2, <4>5, <5>2 DEF Heaps
        <5>4. packet # t
          BY <2>1
        <5> HIDE DEF W
        <5> QED BY <2>2, <3>2, <4>2, <5>1, <5>2, <5>3, <5>4 DEF Adds, W
      <4>7. r.res = "ok" /\ r.text = x /\ r.heap = WithText(h, packet, b, x)
        BY <4>4, <4>6, FreeUndoes
      <4> QED BY <3>3, <3>7, <4>2, <4>3, <4>7
    <3> QED BY <3>5, <3>6, <3>7
  <2> QED BY <2>3, <2>4
<1> QED BY <1>4, <1>5

\* packet_deserialize calls the Read function of the type, if there is one.
LEMMA DeserializeReads ==
    ASSUME NEW g, NEW k, NEW type,
           NEW r, r = packet_deserialize(g, k, type)
    PROVE  \/ r.res = "error" /\ r.heap = g
           \/ \E hasText \in BOOLEAN, noText \in {"error", "crash"} :
                 /\ r = ReadFunction(g, k, hasText, noText)
                 /\ type = CLIENT_UUID => hasText
                 /\ noText = "crash" => type = PLAYER_INFO
<1> USE DEF packet_deserialize, HasRead, CONNECT_REQUEST, PLAYER_INFO, INVENTORY_SLOT,
            GET_SECTION, CHAT_MESSAGE, PLAYER_HP, PLAYER_MANA, CLIENT_UUID, DISCONNECT
<1>1. type = CONNECT_REQUEST => r = ReadFunction(g, k, TRUE, "error")
  BY DEF connect_request_read
<1>2. type = PLAYER_INFO => r = ReadFunction(g, k, TRUE, "crash")
  BY DEF player_info_read
<1>3. type = INVENTORY_SLOT => r = ReadFunction(g, k, FALSE, "error")
  BY DEF inventory_slot_read
<1>4. type = GET_SECTION => r = ReadFunction(g, k, FALSE, "error")
  BY DEF get_section_read
<1>5. type = CHAT_MESSAGE => r = ReadFunction(g, k, TRUE, "error")
  BY DEF chat_message_read
<1>6. type = PLAYER_HP => r = ReadFunction(g, k, FALSE, "error")
  BY DEF player_hp_read
<1>7. type = PLAYER_MANA => r = ReadFunction(g, k, FALSE, "error")
  BY DEF player_mana_read
<1>8. type = CLIENT_UUID => r = ReadFunction(g, k, TRUE, "error")
  BY DEF client_uuid_read
<1>9. type = DISCONNECT => r = ReadFunction(g, k, TRUE, "error")
  BY DEF disconnect_read
<1>10. type \notin HasRead => r = [res |-> "error", heap |-> g]
  OBVIOUS
<1>11. type \in HasRead =>
          type \in {CONNECT_REQUEST, PLAYER_INFO, INVENTORY_SLOT, GET_SECTION, CHAT_MESSAGE,
                   PLAYER_HP, PLAYER_MANA, CLIENT_UUID, DISCONNECT}
  OBVIOUS
<1>12. type = CLIENT_UUID => type \notin {INVENTORY_SLOT, GET_SECTION, PLAYER_HP, PLAYER_MANA}
  OBVIOUS
<1> QED BY <1>1, <1>2, <1>3, <1>4, <1>5, <1>6, <1>7, <1>8, <1>9, <1>10, <1>11, <1>12

-----------------------------------------------------------------------------
(* The new functions. *)

\* The heap g is h with the temporary context t and the cells of S in it.
InTemp(g, h, t, S) == /\ g \in Heaps /\ t \in Cells /\ S \subseteq Cells /\ t \notin S
                      /\ g[t] = [is |-> "temp", in |-> "top"]
                      /\ \A c \in S \cup {t} : h[c] = Free
                      /\ \A c \in S : g[c].is # "free" /\ g[c].in = t
                      /\ \A c \in Cells \ (S \cup {t}) : g[c] = h[c]

LEMMA MakeTemp ==
    ASSUME NEW h, Sound(h), NEW new, Gives(new, h, "temp", "top")
    PROVE  \/ /\ new.cell = NoCell /\ new.heap = h
              /\ \A c \in Cells : h[c].is # "free"
           \/ new.cell \in Cells /\ new.cell # NoCell /\ InTemp(new.heap, h, new.cell, {})
<1>1. h \in Heaps /\ \A c \in Cells : h[c].is = "free" => h[c] = Free
  BY DEF Sound
<1>2. CASE new.cell = NoCell
  BY <1>2 DEF Gives
<1>3. CASE new.cell # NoCell
  <2>1. PICK t \in Cells : /\ new.cell = t /\ h[t].is = "free"
                          /\ new.heap = [h EXCEPT ![t] = [is |-> "temp", in |-> "top"]]
    BY <1>3 DEF Gives
  <2>2. new.heap \in Heaps
    BY <1>1, <2>1 DEF Heaps, Kinds
  <2>3. \A d \in Cells : new.heap[d] = IF d = t THEN [is |-> "temp", in |-> "top"] ELSE h[d]
    BY <1>1, <2>1 DEF Heaps
  <2>4. InTemp(new.heap, h, t, {})
    BY <1>1, <2>1, <2>2, <2>3 DEF InTemp
  <2> QED BY <1>3, <2>1, <2>4
<1> QED BY <1>2, <1>3

LEMMA MakeInTemp ==
    ASSUME NEW h, Sound(h), NEW g, NEW t, NEW S, InTemp(g, h, t, S),
           NEW kind \in Kinds \ {"free"}, NEW new, Gives(new, g, kind, t)
    PROVE  \/ new.cell = NoCell /\ new.heap = g
           \/ /\ new.cell \in Cells /\ new.cell # NoCell /\ new.cell \notin S \cup {t}
              /\ h[new.cell] = Free
              /\ new.heap = [g EXCEPT ![new.cell] = [is |-> kind, in |-> t]]
              /\ InTemp(new.heap, h, t, S \cup {new.cell})
<1> USE DEF InTemp
<1>1. h \in Heaps /\ \A c \in Cells : h[c].is = "free" => h[c] = Free
  BY DEF Sound
<1>2. CASE new.cell = NoCell
  BY <1>2 DEF Gives
<1>3. CASE new.cell # NoCell
  <2>1. PICK c \in Cells : /\ new.cell = c /\ g[c].is = "free"
                          /\ new.heap = [g EXCEPT ![c] = [is |-> kind, in |-> t]]
    BY <1>3 DEF Gives
  <2>2. c \notin S \cup {t}
    BY <2>1
  <2>3. h[c] = Free
    BY <1>1, <2>1, <2>2
  <2>4. new.heap \in Heaps
    BY <2>1 DEF Heaps
  <2>5. \A d \in Cells : new.heap[d] = IF d = c THEN [is |-> kind, in |-> t] ELSE g[d]
    BY <2>1 DEF Heaps
  <2>6. InTemp(new.heap, h, t, S \cup {c})
    BY <2>2, <2>3, <2>4, <2>5
  <2> QED BY <1>3, <2>1, <2>2, <2>3, <2>6
<1> QED BY <1>2, <1>3

LEMMA FreeTemp ==
    ASSUME NEW h, Sound(h), NEW g, NEW t, NEW S, InTemp(g, h, t, S)
    PROVE  TallocFree(g, t) = h
<1> USE DEF InTemp
<1>1. S \subseteq Subtree(g, t)
  BY SubtreeHasRoot, SubtreeHasChildren
<1>2. \A d \in Cells : h[d].is # "free" => h[d].in \notin S \cup {t}
  BY FreeHasNoChildren DEF Free
<1>3. Adds(g, h, t, S)
  BY <1>1, <1>2 DEF Adds, Sound
<1> QED BY <1>3, FreeUndoes

\* talloc_free(NULL).
LEMMA FreeNull ==
    ASSUME NEW h \in Heaps
    PROVE  TallocFree(h, NoCell) = h
<1>1. \A d \in Cells : h[d].in # NoCell /\ d # NoCell
  BY HeapCell, TallocAssumption
<1>2. Below(h, NoCell, {})
  BY <1>1 DEF Below
<1>3. TallocFree(h, NoCell) = [c \in Cells |-> IF c \in {} \cup {NoCell} THEN Free ELSE h[c]]
  BY <1>2, FreeIs
<1> QED BY <1>1, <1>3 DEF Heaps

\* What a new function makes of a heap h: the packet p below the context of the
\* caller, the body b below it, and the text x below one of the two.  Without a
\* body b is p, and without a text x is NULL.
WithReply(h, ctx, p, b, x, textIn) ==
    [c \in Cells |-> IF c = p THEN [is |-> "reply", in |-> ctx]
                     ELSE IF c = b THEN [is |-> "body", in |-> p]
                     ELSE IF c = x THEN [is |-> "text", in |-> IF textIn = "body" THEN b ELSE p]
                     ELSE h[c]]

\* r is nothing, and h is as it was, or a packet with all its parts.
WholeOrNothing(r, h, ctx, hasBody, textIn, checked) ==
    \/ r.ok = FALSE /\ r.heap = h
    \/ /\ r.ok = TRUE
       /\ \E p, b \in Cells, x \in Cells \cup {NoCell} :
             /\ h[p] = Free /\ h[b] = Free /\ (x # NoCell => h[x] = Free)
             /\ x # p /\ x # b
             /\ hasBody <=> b # p
             /\ textIn = "none" => x = NoCell
             /\ checked /\ textIn # "none" => x # NoCell
             /\ r.reply = p /\ r.text = x
             /\ r.heap = WithReply(h, ctx, p, b, x, textIn)

\* A new function makes a packet with its body and its text, or leaves the heap as
\* it was, whichever of its allocations failed: its temporary context is freed on
\* every path (the out: labels of src/packets).
THEOREM NewFunctionLeaves ==
    ASSUME NEW h, Sound(h), NEW ctx \in {"player", "server", "top"},
           NEW hasBody \in BOOLEAN, NEW textIn \in {"none", "body", "reply"},
           textIn = "body" => hasBody, NEW checked \in BOOLEAN,
           NEW r, r = NewFunction(h, ctx, hasBody, textIn, checked)
    PROVE  WholeOrNothing(r, h, ctx, hasBody, textIn, checked)
<1> USE DEF WholeOrNothing
<1> DEFINE temp    == TallocNew(h, "temp", "top")
           reply   == TallocNew(temp.heap, "reply", temp.cell)
           body    == IF hasBody THEN TallocNew(reply.heap, "body", temp.cell) ELSE reply
           text    == IF textIn = "none" THEN [body EXCEPT !.cell = NoCell]
                      ELSE TallocNew(body.heap, "text", temp.cell)
           lacking == \/ NoCell \in {temp.cell, reply.cell, body.cell}
                      \/ checked /\ textIn # "none" /\ text.cell = NoCell
           owner   == IF textIn = "body" THEN body.cell ELSE reply.cell
           owned   == IF text.cell = NoCell THEN text.heap
                      ELSE TallocSteal(text.heap, owner, text.cell)
           whole   == IF hasBody THEN TallocSteal(owned, reply.cell, body.cell) ELSE owned
<1>1. h \in Heaps /\ \A c \in Cells : h[c].is = "free" => h[c] = Free
  BY SMTT(30) DEF Sound
<1>2. r = IF lacking
          THEN [ok |-> FALSE, heap |-> TallocFree(text.heap, temp.cell)]
          ELSE [ok |-> TRUE, heap |-> TallocFree(TallocSteal(whole, ctx, reply.cell), temp.cell),
                reply |-> reply.cell, text |-> text.cell]
  BY DEF NewFunction
<1>3. /\ Gives(temp, h, "temp", "top")
      /\ Gives(reply, temp.heap, "reply", temp.cell)
      /\ hasBody => Gives(body, reply.heap, "body", temp.cell)
      /\ ~ hasBody => body = reply
  BY TallocNewGives
<1>4. textIn # "none" => Gives(text, body.heap, "text", temp.cell)
  BY TallocNewGives
<1>5. textIn = "none" => text.cell = NoCell /\ text.heap = body.heap
  <2>1. body = [heap |-> body.heap, cell |-> body.cell]
    BY DEF TallocNew
  <2> QED BY SMTT(30), <2>1
<1> HIDE DEF temp, reply, body, text
<1>6. CASE temp.cell = NoCell
  <2>1. temp.heap = h /\ \A c \in Cells : h[c].is # "free"
    BY <1>3, <1>6 DEF Gives
  <2>2. reply.heap = h
    BY <1>3, <2>1 DEF Gives
  <2>3. body.heap = h
    BY <1>3, <2>1, <2>2 DEF Gives
  <2>4. text.heap = h
    BY <1>4, <1>5, <2>1, <2>3 DEF Gives
  <2> QED BY <1>1, <1>2, <1>6, <2>4, FreeNull
<1>7. CASE temp.cell # NoCell
  <2>1. PICK t \in Cells : t = temp.cell /\ InTemp(temp.heap, h, t, {})
    BY <1>3, <1>7, MakeTemp DEF Gives
  <2>2. \/ reply.cell = NoCell /\ reply.heap = temp.heap
        \/ /\ reply.cell \in Cells /\ reply.cell # NoCell /\ reply.cell \notin {} \cup {t}
           /\ h[reply.cell] = Free
           /\ reply.heap = [temp.heap EXCEPT ![reply.cell] = [is |-> "reply", in |-> t]]
           /\ InTemp(reply.heap, h, t, {} \cup {reply.cell})
    BY <1>3, <2>1, MakeInTemp DEF Kinds
  <2>3. PICK S1 : InTemp(reply.heap, h, t, S1) /\ (reply.cell # NoCell => S1 = {reply.cell})
    BY <2>1, <2>2
  <2>4. hasBody => \/ body.cell = NoCell /\ body.heap = reply.heap
                   \/ /\ body.cell \in Cells /\ body.cell # NoCell /\ body.cell \notin S1 \cup {t}
                      /\ h[body.cell] = Free
                      /\ body.heap = [reply.heap EXCEPT ![body.cell] = [is |-> "body", in |-> t]]
                      /\ InTemp(body.heap, h, t, S1 \cup {body.cell})
    BY <1>3, <2>1, <2>3, MakeInTemp DEF Kinds
  <2>5. PICK S2 : /\ InTemp(body.heap, h, t, S2)
                  /\ reply.cell # NoCell /\ body.cell # NoCell => S2 = {reply.cell, body.cell}
    BY <1>3, <2>3, <2>4
  <2>6. textIn # "none" =>
           \/ text.cell = NoCell /\ text.heap = body.heap
           \/ /\ text.cell \in Cells /\ text.cell # NoCell /\ text.cell \notin S2 \cup {t}
              /\ h[text.cell] = Free
              /\ text.heap = [body.heap EXCEPT ![text.cell] = [is |-> "text", in |-> t]]
              /\ InTemp(text.heap, h, t, S2 \cup {text.cell})
    BY <1>4, <2>1, <2>5, MakeInTemp DEF Kinds
  <2>7. PICK S3 : InTemp(text.heap, h, t, S3)
    BY <1>5, <2>5, <2>6
  <2>8. CASE lacking
    <3>1. TallocFree(text.heap, t) = h
      BY <2>7, FreeTemp
    <3> QED BY <1>2, <2>1, <2>8, <3>1
  <2>9. CASE ~ lacking
    <3>1. PICK p \in Cells, b \in Cells :
             /\ p = reply.cell /\ b = body.cell /\ p # t /\ b # t
             /\ h[p] = Free /\ h[b] = Free /\ (hasBody <=> b # p)
      <4>1. reply.cell # NoCell /\ body.cell # NoCell
        BY <2>9
      <4>2. /\ reply.cell \in Cells /\ reply.cell # t /\ h[reply.cell] = Free
            /\ S1 = {reply.cell}
        BY <2>2, <2>3, <4>1
      <4>3. CASE hasBody
        BY <2>4, <4>1, <4>2, <4>3
      <4>4. CASE ~ hasBody
        BY <1>3, <4>2, <4>4
      <4> QED BY <4>3, <4>4
    <3>2. reply.heap = [temp.heap EXCEPT ![p] = [is |-> "reply", in |-> t]]
      BY <2>2, <3>1, TallocAssumption
    <3>3. \A d \in Cells : body.heap[d] =
             IF d = b /\ hasBody THEN [is |-> "body", in |-> t]
             ELSE IF d = p THEN [is |-> "reply", in |-> t]
             ELSE IF d = t THEN [is |-> "temp", in |-> "top"] ELSE h[d]
      <4>1. \A d \in Cells : temp.heap[d] = IF d = t THEN [is |-> "temp", in |-> "top"] ELSE h[d]
        BY <2>1 DEF InTemp
      <4>2. \A d \in Cells : reply.heap[d] = IF d = p THEN [is |-> "reply", in |-> t] ELSE temp.heap[d]
        BY <2>1, <3>2 DEF InTemp, Heaps
      <4>3. hasBody => body.heap = [reply.heap EXCEPT ![b] = [is |-> "body", in |-> t]]
        BY <2>4, <3>1, TallocAssumption
      <4>4. \A d \in Cells : body.heap[d] =
               IF d = b /\ hasBody THEN [is |-> "body", in |-> t] ELSE reply.heap[d]
        BY <1>3, <2>3, <4>3 DEF InTemp, Heaps
      <4> QED BY <4>1, <4>2, <4>4
    <3>4. PICK x \in Cells \cup {NoCell} :
             /\ x = text.cell /\ x # p /\ x # b /\ x # t /\ (x # NoCell => h[x] = Free)
             /\ textIn = "none" => x = NoCell
             /\ checked /\ textIn # "none" => x # NoCell
             /\ \A d \in Cells : text.heap[d] = IF d = x THEN [is |-> "text", in |-> t] ELSE body.heap[d]
      <4>1. S2 = {p, b}
        BY <2>5, <3>1, TallocAssumption
      <4>2. checked /\ textIn # "none" => text.cell # NoCell
        BY <2>9
      <4>3. CASE text.cell = NoCell
        BY <1>5, <2>6, <3>1, <4>2, <4>3, TallocAssumption
      <4>4. CASE text.cell # NoCell
        <5>1. /\ text.cell \in Cells /\ text.cell \notin {p, b, t} /\ h[text.cell] = Free
              /\ text.heap = [body.heap EXCEPT ![text.cell] = [is |-> "text", in |-> t]]
              /\ textIn # "none"
          BY <1>5, <2>6, <4>1, <4>4
        <5> QED BY <2>5, <4>2, <5>1 DEF InTemp, Heaps
      <4> QED BY <4>3, <4>4
    <3> DEFINE W == WithReply(h, ctx, p, b, x, textIn)
               final == TallocSteal(whole, ctx, p)
    <3>5. /\ owned \in Heaps
          /\ \A d \in Cells : owned[d] =
                IF d = x THEN [is |-> "text", in |-> IF textIn = "body" THEN b ELSE p]
                ELSE text.heap[d]
      <4>1. CASE x = NoCell
        BY <2>7, <3>4, <4>1, TallocAssumption DEF InTemp
      <4>2. CASE x # NoCell
        <5> DEFINE o == IF textIn = "body" THEN b ELSE p
        <5>1. x \in Cells /\ owned = TallocSteal(text.heap, o, x) /\ o \in Cells
          BY <3>1, <3>4, <4>2
        <5>2. text.heap \in Heaps /\ text.heap[x].is = "text"
          BY <2>7, <3>4, <5>1 DEF InTemp
        <5> HIDE DEF o, owned
        <5>3. /\ owned \in Heaps
              /\ \A d \in Cells : owned[d] =
                    IF d = x THEN [is |-> text.heap[x].is, in |-> o] ELSE text.heap[d]
          BY <5>1, <5>2, StealCell
        <5> QED BY <5>2, <5>3 DEF o
      <4> QED BY <4>1, <4>2
    <3>6. /\ whole \in Heaps
          /\ \A d \in Cells : whole[d] =
                IF d = b /\ hasBody THEN [is |-> "body", in |-> p] ELSE owned[d]
      <4> HIDE DEF owned
      <4>1. CASE hasBody
        <5>1. owned[b].is = "body"
          BY <3>1, <3>3, <3>4, <3>5, <4>1
        <5>2. whole = TallocSteal(owned, p, b)
          BY <3>1, <4>1
        <5> HIDE DEF whole
        <5> QED BY <3>5, <4>1, <5>1, <5>2, StealCell
      <4>2. CASE ~ hasBody
        BY <3>5, <4>2
      <4> QED BY <4>1, <4>2
    <3> HIDE DEF owned, whole
    <3>7. \A d \in Cells : final[d] = IF d = p THEN [is |-> "reply", in |-> ctx] ELSE whole[d]
      <4>1. whole[p].is = "reply"
        BY <3>1, <3>3, <3>4, <3>5, <3>6
      <4> QED BY <3>6, <4>1, StealCell
    <3>8. r.ok = TRUE /\ r.heap = TallocFree(final, t) /\ r.reply = p /\ r.text = x
      BY <1>2, <2>1, <2>9, <3>1, <3>4
    <3> HIDE DEF final
    <3>9. \A d \in Cells : W[d] = IF d = t THEN Free ELSE final[d]
      <4>1. h[t] = Free
        BY <2>1 DEF InTemp
      <4>2. ASSUME NEW d \in Cells, d # t PROVE W[d] = final[d]
        BY <3>1, <3>3, <3>4, <3>5, <3>6, <3>7, <4>2 DEF WithReply
      <4> QED BY <3>1, <3>4, <4>1, <4>2 DEF WithReply
    <3>10. W \in Heaps
      BY <1>1, <3>1, <3>4 DEF WithReply, Heaps, Kinds
    <3>11. \A d \in Cells : W[d].is # "free" => W[d].in # t
      <4>1. \A d \in Cells : h[d].is # "free" => h[d].in # t
        BY <2>1, FreeHasNoChildren DEF InTemp, Free
      <4>2. t \notin {"player", "server", "top"}
        BY TallocAssumption
      <4> QED BY <3>1, <4>1, <4>2 DEF WithReply
    <3> HIDE DEF W
    <3>12. Adds(final, W, t, {})
      BY <3>9, <3>10, <3>11 DEF Adds
    <3>13. r.heap = W
      BY <3>8, <3>12, FreeUndoes
    <3> QED BY <3>1, <3>4, <3>8, <3>13 DEF W
  <2> QED BY <2>8, <2>9
<1> QED BY <1>6, <1>7

-----------------------------------------------------------------------------
(* The lists of siblings that talloc keeps the tree in (TallocLists): what *)
(* each operation on their pointers leaves of the lists and of the parent  *)
(* of every chunk, and that it is an operation of the tree above.          *)

Lists == INSTANCE TallocLists WITH Chunks <- Cells, NULL <- NoCell

Pointers == {"next", "prev", "parent", "child"}

\* A record with a chunk for each address; a chunk has pointers and other fields.
IsMemory(h) ==
    /\ h = [x \in DOMAIN h |-> h[x]] /\ "chunk" \in DOMAIN h
    /\ h.chunk = [c \in Cells |-> h.chunk[c]]
    /\ \A c \in Cells : /\ h.chunk[c] = [f \in DOMAIN h.chunk[c] |-> h.chunk[c][f]]
                        /\ Pointers \subseteq DOMAIN h.chunk[c]
                        /\ \A f \in Pointers : h.chunk[c][f] \in Cells \cup {NoCell}

\* One pointer changes.
LEMMA PutChanges ==
    ASSUME NEW h, IsMemory(h), NEW c \in Cells \cup {NoCell}, NEW f \in Pointers,
           NEW v \in Cells \cup {NoCell}
    PROVE  /\ IsMemory(Lists!Put(h, c, f, v))
           /\ \A d \in Cells : \A x \in Pointers :
                 Lists!Put(h, c, f, v).chunk[d][x] = IF d = c /\ x = f THEN v ELSE h.chunk[d][x]
<1>1. NoCell \notin Cells
  BY TallocAssumption
<1>2. CASE c = NoCell
  BY <1>1, <1>2 DEF Lists!Put
<1>3. CASE c \in Cells
  <2> DEFINE m == h.chunk
             r == m[c]
             n == [m EXCEPT ![c] = [@ EXCEPT ![f] = v]]
             g == [h EXCEPT !.chunk = n]
  <2>1. Lists!Put(h, c, f, v) = g
    BY <1>1, <1>3 DEF Lists!Put
  <2>2. g.chunk = n /\ g = [x \in DOMAIN g |-> g[x]] /\ "chunk" \in DOMAIN g
    BY DEF IsMemory
  <2>3. DOMAIN m = Cells
    BY DEF IsMemory
  <2>4. /\ n = [d \in Cells |-> n[d]]
        /\ n[c] = [r EXCEPT ![f] = v] /\ \A d \in Cells \ {c} : n[d] = m[d]
    BY <1>3, <2>3
  <2>5. [r EXCEPT ![f] = v] = [x \in DOMAIN r |-> IF x = f THEN v ELSE r[x]]
    BY <1>3 DEF IsMemory
  <2>6. /\ Pointers \subseteq DOMAIN r
        /\ \A x \in Pointers : r[x] \in Cells \cup {NoCell}
        /\ \A d \in Cells \ {c} : /\ m[d] = [x \in DOMAIN m[d] |-> m[d][x]]
                                  /\ Pointers \subseteq DOMAIN m[d]
                                  /\ \A x \in Pointers : m[d][x] \in Cells \cup {NoCell}
    BY <1>3 DEF IsMemory
  <2> HIDE DEF m, r
  <2>7. DOMAIN n[c] = DOMAIN r /\ n[c] = [x \in DOMAIN n[c] |-> n[c][x]]
    BY <2>4, <2>5
  <2>8. \A x \in Pointers : n[c][x] = IF x = f THEN v ELSE r[x]
    BY <2>4, <2>5, <2>6
  <2> HIDE DEF n
  <2>9. \A d \in Cells : /\ n[d] = [x \in DOMAIN n[d] |-> n[d][x]]
                         /\ Pointers \subseteq DOMAIN n[d]
                         /\ \A x \in Pointers : n[d][x] \in Cells \cup {NoCell}
    <3>1. \A x \in Pointers : n[c][x] \in Cells \cup {NoCell}
      BY <2>6, <2>8
    <3>2. Pointers \subseteq DOMAIN n[c]
      BY <2>6, <2>7
    <3>3. ASSUME NEW d \in Cells \ {c} PROVE n[d] = m[d]
      BY <2>4
    <3> QED BY <2>6, <2>7, <3>1, <3>2, <3>3
  <2>10. IsMemory(g)
    <3> HIDE DEF g
    <3> QED BY <2>2, <2>4, <2>9 DEF IsMemory
  <2>11. \A d \in Cells : \A x \in Pointers :
            n[d][x] = IF d = c /\ x = f THEN v ELSE m[d][x]
    BY <1>3, <2>4, <2>8 DEF r
  <2> HIDE DEF g
  <2> QED BY <2>1, <2>2, <2>10, <2>11 DEF m
<1> QED BY <1>2, <1>3

\* The pointers of a chunk.
NextOf(h, d)   == h.chunk[d].next
PrevOf(h, d)   == h.chunk[d].prev
ParentOf(h, d) == h.chunk[d].parent
ChildOf(h, d)  == h.chunk[d].child

LEMMA PointersOf ==
    ASSUME NEW h, IsMemory(h)
    PROVE  \A d \in Cells :
              {NextOf(h, d), PrevOf(h, d), ParentOf(h, d), ChildOf(h, d)} \subseteq Cells \cup {NoCell}
BY DEF IsMemory, Pointers, NextOf, PrevOf, ParentOf, ChildOf

\* g is h, but for one pointer of a chunk.
NextSet(g, h, c, v) ==
    \A d \in Cells : /\ NextOf(g, d) = IF d = c THEN v ELSE NextOf(h, d)
                     /\ PrevOf(g, d) = PrevOf(h, d)
                     /\ ParentOf(g, d) = ParentOf(h, d)
                     /\ ChildOf(g, d) = ChildOf(h, d)

LEMMA PutNext ==
    ASSUME NEW h, IsMemory(h), NEW c \in Cells \cup {NoCell}, NEW v \in Cells \cup {NoCell}
    PROVE  IsMemory(Lists!Put(h, c, "next", v)) /\ NextSet(Lists!Put(h, c, "next", v), h, c, v)
BY PutChanges DEF NextSet, Pointers, NextOf, PrevOf, ParentOf, ChildOf

PrevSet(g, h, c, v) ==
    \A d \in Cells : /\ NextOf(g, d) = NextOf(h, d)
                     /\ PrevOf(g, d) = IF d = c THEN v ELSE PrevOf(h, d)
                     /\ ParentOf(g, d) = ParentOf(h, d)
                     /\ ChildOf(g, d) = ChildOf(h, d)

LEMMA PutPrev ==
    ASSUME NEW h, IsMemory(h), NEW c \in Cells \cup {NoCell}, NEW v \in Cells \cup {NoCell}
    PROVE  IsMemory(Lists!Put(h, c, "prev", v)) /\ PrevSet(Lists!Put(h, c, "prev", v), h, c, v)
BY PutChanges DEF PrevSet, Pointers, NextOf, PrevOf, ParentOf, ChildOf

ParentSet(g, h, c, v) ==
    \A d \in Cells : /\ NextOf(g, d) = NextOf(h, d)
                     /\ PrevOf(g, d) = PrevOf(h, d)
                     /\ ParentOf(g, d) = IF d = c THEN v ELSE ParentOf(h, d)
                     /\ ChildOf(g, d) = ChildOf(h, d)

LEMMA PutParent ==
    ASSUME NEW h, IsMemory(h), NEW c \in Cells \cup {NoCell}, NEW v \in Cells \cup {NoCell}
    PROVE  IsMemory(Lists!Put(h, c, "parent", v)) /\ ParentSet(Lists!Put(h, c, "parent", v), h, c, v)
BY PutChanges DEF ParentSet, Pointers, NextOf, PrevOf, ParentOf, ChildOf

ChildSet(g, h, c, v) ==
    \A d \in Cells : /\ NextOf(g, d) = NextOf(h, d)
                     /\ PrevOf(g, d) = PrevOf(h, d)
                     /\ ParentOf(g, d) = ParentOf(h, d)
                     /\ ChildOf(g, d) = IF d = c THEN v ELSE ChildOf(h, d)

LEMMA PutChild ==
    ASSUME NEW h, IsMemory(h), NEW c \in Cells \cup {NoCell}, NEW v \in Cells \cup {NoCell}
    PROVE  IsMemory(Lists!Put(h, c, "child", v)) /\ ChildSet(Lists!Put(h, c, "child", v), h, c, v)
<1> DEFINE g == Lists!Put(h, c, "child", v)
           field == "child"
<1>1. /\ field \in Pointers /\ "next" \in Pointers /\ "prev" \in Pointers /\ "parent" \in Pointers
      /\ field \notin {"next", "prev", "parent"}
  BY DEF Pointers
<1> HIDE DEF field
<1>2. /\ IsMemory(Lists!Put(h, c, field, v))
      /\ \A d \in Cells : \A x \in Pointers : Lists!Put(h, c, field, v).chunk[d][x]
            = IF d = c /\ x = field THEN v ELSE h.chunk[d][x]
  BY <1>1, PutChanges
<1>3. g = Lists!Put(h, c, field, v)
  BY DEF field
<1> HIDE DEF g
<1> QED BY <1>1, <1>2, <1>3 DEF ChildSet, NextOf, PrevOf, ParentOf, ChildOf, g, field

\* The first of a list is found by going back.
LEMMA FirstIs ==
    ASSUME NEW h, IsMemory(h), NEW c \in Cells
    PROVE  Lists!First(h, c) = IF PrevOf(h, c) = NoCell THEN c ELSE Lists!First(h, PrevOf(h, c))
<1> DEFINE Ahead(d) == {e \in Cells : /\ PrevOf(h, e) = NoCell
                                      /\ \A X \in SUBSET Cells :
                                            /\ e \in X
                                            /\ \A x \in Cells : PrevOf(h, x) \in X => x \in X
                                            => d \in X}
           G(f) == [d \in Cells |-> IF h.chunk[d].prev = NoCell THEN d ELSE f[h.chunk[d].prev]]
           F    == CHOOSE f : f = G(f)
           w    == [d \in Cells |-> CHOOSE e : e \in Ahead(d)]
<1>1. NoCell \notin Cells /\ \A d \in Cells : PrevOf(h, d) \in Cells \cup {NoCell}
  BY TallocAssumption, PointersOf
<1>2. ASSUME NEW d \in Cells, PrevOf(h, d) = NoCell PROVE w[d] = d
  <2>1. d \in Ahead(d)
    BY <1>2
  <2>2. ASSUME NEW e \in Ahead(d), e # d PROVE FALSE
    <3>1. Cells \ {d} \in SUBSET Cells /\ e \in Cells \ {d}
      BY <2>2
    <3>2. \A x \in Cells : PrevOf(h, x) \in Cells \ {d} => x \in Cells \ {d}
      BY <1>1, <1>2
    <3> QED BY <2>2, <3>1, <3>2
  <2>3. Ahead(d) = {d}
    BY <2>1, <2>2
  <2> HIDE DEF Ahead
  <2> QED BY <2>3
<1>3. ASSUME NEW d \in Cells, PrevOf(h, d) # NoCell PROVE w[d] = w[PrevOf(h, d)]
  <2> DEFINE p == PrevOf(h, d)
  <2>1. p \in Cells
    BY <1>1, <1>3
  <2>2. ASSUME NEW e \in Ahead(p) PROVE e \in Ahead(d)
    BY <2>1, <2>2
  <2>3. ASSUME NEW e \in Ahead(d) PROVE e \in Ahead(p)
    <3>1. ASSUME NEW X \in SUBSET Cells, e \in X, \A x \in Cells : PrevOf(h, x) \in X => x \in X, p \notin X
          PROVE  FALSE
      <4>1. X \ {d} \in SUBSET Cells /\ e \in X \ {d}
        BY <1>3, <2>3, <3>1
      <4>2. \A x \in Cells : PrevOf(h, x) \in X \ {d} => x \in X \ {d}
        BY <3>1
      <4> QED BY <2>3, <4>1, <4>2
    <3> QED BY <2>3, <3>1
  <2>4. Ahead(d) = Ahead(p)
    BY <2>2, <2>3
  <2> HIDE DEF Ahead
  <2> QED BY <2>1, <2>4
<1> HIDE DEF Ahead
<1>4. w = G(w)
  <2>1. \A d \in Cells : w[d] = IF h.chunk[d].prev = NoCell THEN d ELSE w[h.chunk[d].prev]
    BY <1>2, <1>3 DEF PrevOf
  <2>2. w = [d \in Cells |-> w[d]]
    OBVIOUS
  <2> HIDE DEF w
  <2>3. G(w) = [d \in Cells |-> w[d]]
    BY <2>1
  <2> QED BY <2>2, <2>3
<1>5. F = G(F)
  <2> HIDE DEF G, w
  <2> QED BY <1>4
<1>6. \A d \in Cells : Lists!First(h, d) = F[d]
  BY DEF Lists!First
<1> HIDE DEF F
<1>7. F[c] = IF PrevOf(h, c) = NoCell THEN c ELSE F[PrevOf(h, c)]
  BY <1>5 DEF PrevOf
<1> QED BY <1>1, <1>6, <1>7

LEMMA ParentStep ==
    ASSUME NEW h, IsMemory(h), NEW c \in Cells
    PROVE  Lists!Parent(h, c) = IF PrevOf(h, c) = NoCell THEN ParentOf(h, c)
                                ELSE Lists!Parent(h, PrevOf(h, c))
<1>1. c # NoCell
  BY TallocAssumption
<1> QED BY <1>1, FirstIs DEF Lists!Parent, ParentOf


\* What Linked says, pointer by pointer.
ChainedAt(h, used, c) ==
    /\ {NextOf(h, c), PrevOf(h, c), ParentOf(h, c), ChildOf(h, c)} \subseteq used \cup {NoCell}
    /\ NextOf(h, c) # NoCell => PrevOf(h, NextOf(h, c)) = c
    /\ PrevOf(h, c) # NoCell => NextOf(h, PrevOf(h, c)) = c /\ ParentOf(h, c) = NoCell
    /\ ChildOf(h, c) # NoCell => PrevOf(h, ChildOf(h, c)) = NoCell /\ ParentOf(h, ChildOf(h, c)) = c
    /\ ParentOf(h, c) # NoCell => ChildOf(h, ParentOf(h, c)) = c

Chained(h, used) == \A c \in used : ChainedAt(h, used, c)

HasFirst(h, used) == \A some \in (SUBSET used) \ {{}} : \E c \in some : PrevOf(h, c) \notin some

Apart(h, used) == \A c \in used : Lists!Parent(h, c) # c

LEMMA LinkedIs ==
    ASSUME NEW h, NEW used
    PROVE  Lists!Linked(h, used) <=> Chained(h, used) /\ HasFirst(h, used) /\ Apart(h, used)
BY DEF Lists!Linked, Chained, ChainedAt, HasFirst, Apart, NextOf, PrevOf, ParentOf, ChildOf

LEMMA NoLoops ==
    ASSUME NEW h, IsMemory(h), NEW used \in SUBSET Cells, Lists!Linked(h, used), NEW c \in used
    PROVE  c \notin {NextOf(h, c), PrevOf(h, c), ParentOf(h, c), ChildOf(h, c)}
<1>1. Chained(h, used) /\ HasFirst(h, used) /\ Apart(h, used)
  BY LinkedIs
<1>2. NoCell \notin Cells
  BY TallocAssumption
<1>4. ParentOf(h, c) # c
  <2>1. Lists!Parent(h, c) = IF PrevOf(h, c) = NoCell THEN ParentOf(h, c) ELSE Lists!Parent(h, PrevOf(h, c))
    BY ParentStep
  <2> QED BY <1>1, <1>2, <2>1 DEF Chained, ChainedAt, Apart
<1>3. PrevOf(h, c) # c
  <2>1. {c} \in (SUBSET used) \ {{}}
    OBVIOUS
  <2> QED BY <1>1, <2>1 DEF HasFirst
<1> QED BY <1>1, <1>2, <1>3, <1>4 DEF Chained, ChainedAt

\* The parents of chunks are what the first of each list says.
LEMMA ParentsAre ==
    ASSUME NEW h, IsMemory(h), NEW used \in SUBSET Cells, Chained(h, used), HasFirst(h, used), NEW own,
           \A d \in used : own[d] = IF PrevOf(h, d) = NoCell THEN ParentOf(h, d) ELSE own[PrevOf(h, d)]
    PROVE  \A d \in used : Lists!Parent(h, d) = own[d]
<1> DEFINE wrong == {d \in used : Lists!Parent(h, d) # own[d]}
<1> SUFFICES ASSUME wrong # {} PROVE FALSE
  OBVIOUS
<1>2. PICK d \in wrong : PrevOf(h, d) \notin wrong
  <2>1. wrong \in (SUBSET used) \ {{}}
    OBVIOUS
  <2> HIDE DEF wrong
  <2> QED BY <2>1 DEF HasFirst
<1>3. d \in used /\ d \in Cells /\ Lists!Parent(h, d) # own[d]
  OBVIOUS
<1>4. Lists!Parent(h, d) = IF PrevOf(h, d) = NoCell THEN ParentOf(h, d) ELSE Lists!Parent(h, PrevOf(h, d))
  BY <1>3, ParentStep
<1>5. PrevOf(h, d) # NoCell => PrevOf(h, d) \in used
  BY <1>3 DEF Chained, ChainedAt
<1> QED BY <1>2, <1>3, <1>4, <1>5

\* A parent is in use.
LEMMA ParentInUse ==
    ASSUME NEW h, IsMemory(h), NEW used \in SUBSET Cells, Lists!Linked(h, used), NEW c \in used
    PROVE  Lists!Parent(h, c) \in used \cup {NoCell}
<1> DEFINE lost == {d \in used : Lists!Parent(h, d) \notin used \cup {NoCell}}
<1> SUFFICES ASSUME lost # {} PROVE FALSE
  OBVIOUS
<1>1. Chained(h, used) /\ HasFirst(h, used)
  BY LinkedIs
<1>2. PICK d \in lost : PrevOf(h, d) \notin lost
  <2>1. lost \in (SUBSET used) \ {{}}
    OBVIOUS
  <2> HIDE DEF lost
  <2> QED BY <1>1, <2>1 DEF HasFirst
<1>3. d \in used /\ d \in Cells /\ Lists!Parent(h, d) \notin used \cup {NoCell}
  OBVIOUS
<1>4. Lists!Parent(h, d) = IF PrevOf(h, d) = NoCell THEN ParentOf(h, d) ELSE Lists!Parent(h, PrevOf(h, d))
  BY <1>3, ParentStep
<1>5. {PrevOf(h, d), ParentOf(h, d)} \subseteq used \cup {NoCell}
  BY <1>1, <1>3 DEF Chained, ChainedAt
<1> QED BY <1>2, <1>3, <1>4, <1>5

LEMMA UnlinkGives ==
    ASSUME NEW h, IsMemory(h), NEW used \in SUBSET Cells, Lists!Linked(h, used), NEW c \in used
    PROVE  LET g == Lists!Unlink(h, c) IN
           /\ IsMemory(g)
           /\ \A d \in Cells :
                 /\ NextOf(g, d) = IF d = c THEN NoCell
                                   ELSE IF d = PrevOf(h, c) THEN NextOf(h, c) ELSE NextOf(h, d)
                 /\ PrevOf(g, d) = IF d = c THEN NoCell
                                   ELSE IF d = NextOf(h, c) THEN PrevOf(h, c) ELSE PrevOf(h, d)
                 /\ ParentOf(g, d) = IF d = NextOf(h, c) THEN ParentOf(h, c) ELSE ParentOf(h, d)
                 /\ ChildOf(g, d) = IF d = ParentOf(h, c) THEN NextOf(h, c) ELSE ChildOf(h, d)
<1> DEFINE n == NextOf(h, c)
           p == PrevOf(h, c)
           u == ParentOf(h, c)
<1>1. Chained(h, used) /\ NoCell \notin Cells /\ c \in Cells
  BY LinkedIs, TallocAssumption
<1>2. c \notin {n, p, u}
  BY NoLoops
<1>3. /\ {n, p, u} \subseteq Cells \cup {NoCell}
      /\ n \in Cells => PrevOf(h, n) = c /\ ParentOf(h, n) = NoCell
      /\ u \in Cells => p = NoCell
  BY <1>1 DEF Chained, ChainedAt
<1>10. n \in Cells \cup {NoCell} /\ p \in Cells \cup {NoCell} /\ u \in Cells \cup {NoCell}
       /\ NoCell \in Cells \cup {NoCell}
  BY <1>3
<1>4. n = h.chunk[c].next /\ p = h.chunk[c].prev /\ u = h.chunk[c].parent
  BY DEF NextOf, PrevOf, ParentOf
<1> HIDE DEF n, p, u
<1> DEFINE gap == IF u # NoCell
                  THEN Lists!Put(Lists!Put(Lists!Put(h, u, "child", n), n, "prev", NoCell), n, "parent", u)
                  ELSE Lists!Put(Lists!Put(h, p, "next", n), n, "prev", p)
<1>5. Lists!Unlink(h, c) = Lists!Put(Lists!Put(gap, c, "next", NoCell), c, "prev", NoCell)
  BY <1>4 DEF Lists!Unlink
<1>6. /\ IsMemory(gap)
      /\ \A d \in Cells :
            /\ NextOf(gap, d) = IF d = p THEN n ELSE NextOf(h, d)
            /\ PrevOf(gap, d) = IF d = n THEN p ELSE PrevOf(h, d)
            /\ ParentOf(gap, d) = IF d = n THEN u ELSE ParentOf(h, d)
            /\ ChildOf(gap, d) = IF d = u THEN n ELSE ChildOf(h, d)
  <2>1. CASE u # NoCell
    <3> DEFINE g1 == Lists!Put(h, u, "child", n)
               g2 == Lists!Put(g1, n, "prev", NoCell)
               g3 == Lists!Put(g2, n, "parent", u)
    <3>1. IsMemory(g1) /\ ChildSet(g1, h, u, n)
      BY <1>10, PutChild
    <3> HIDE DEF g1
    <3>2. IsMemory(g2) /\ PrevSet(g2, g1, n, NoCell)
      BY <1>10, <3>1, PutPrev
    <3> HIDE DEF g2
    <3>3. IsMemory(g3) /\ ParentSet(g3, g2, n, u)
      BY <1>10, <3>2, PutParent
    <3> HIDE DEF g3
    <3>4. gap = g3
      BY <2>1 DEF g1, g2, g3
    <3> HIDE DEF gap
    <3> QED BY <1>1, <1>3, <2>1, <3>1, <3>2, <3>3, <3>4 DEF ChildSet, PrevSet, ParentSet
  <2>2. CASE u = NoCell
    <3> DEFINE g1 == Lists!Put(h, p, "next", n)
               g2 == Lists!Put(g1, n, "prev", p)
    <3>1. IsMemory(g1) /\ NextSet(g1, h, p, n)
      BY <1>10, PutNext
    <3> HIDE DEF g1
    <3>2. IsMemory(g2) /\ PrevSet(g2, g1, n, p)
      BY <1>10, <3>1, PutPrev
    <3> HIDE DEF g2
    <3>3. gap = g2
      BY <2>2 DEF g1, g2
    <3> HIDE DEF gap
    <3> QED BY <1>1, <1>3, <2>2, <3>1, <3>2, <3>3 DEF NextSet, PrevSet
  <2> QED BY <2>1, <2>2
<1> HIDE DEF gap
<1> DEFINE g1 == Lists!Put(gap, c, "next", NoCell)
           g2 == Lists!Put(g1, c, "prev", NoCell)
<1>7. IsMemory(g1) /\ NextSet(g1, gap, c, NoCell)
  BY <1>1, <1>6, PutNext
<1> HIDE DEF g1
<1>8. IsMemory(g2) /\ PrevSet(g2, g1, c, NoCell)
  BY <1>1, <1>7, PutPrev
<1> HIDE DEF g2
<1>9. Lists!Unlink(h, c) = g2
  BY <1>5 DEF g1, g2
<1> QED BY <1>2, <1>6, <1>7, <1>8, <1>9 DEF n, p, u, NextSet, PrevSet

\* A chunk that is in no list.
Unlisted(h, c) == NextOf(h, c) = NoCell /\ PrevOf(h, c) = NoCell /\ ParentOf(h, c) = NoCell

LEMMA DetachGives ==
    ASSUME NEW h, IsMemory(h), NEW used \in SUBSET Cells, Lists!Linked(h, used), NEW c \in used
    PROVE  LET g == Lists!Put(Lists!Unlink(h, c), c, "parent", NoCell) IN
           /\ IsMemory(g) /\ Lists!Linked(g, used) /\ Unlisted(g, c) /\ ChildOf(g, c) = ChildOf(h, c)
           /\ \A d \in used : Lists!Parent(g, d) = IF d = c THEN NoCell ELSE Lists!Parent(h, d)
<1> DEFINE n == NextOf(h, c)
           p == PrevOf(h, c)
           u == ParentOf(h, c)
           f == Lists!Unlink(h, c)
           g == Lists!Put(f, c, "parent", NoCell)
<1>1. Chained(h, used) /\ HasFirst(h, used) /\ Apart(h, used) /\ NoCell \notin Cells /\ c \in Cells
  BY LinkedIs, TallocAssumption
<1>2. c \notin {n, p, u}
  BY NoLoops
<1>3. IsMemory(f) /\ \A d \in Cells :
        /\ NextOf(f, d) = IF d = c THEN NoCell ELSE IF d = p THEN n ELSE NextOf(h, d)
        /\ PrevOf(f, d) = IF d = c THEN NoCell ELSE IF d = n THEN p ELSE PrevOf(h, d)
        /\ ParentOf(f, d) = IF d = n THEN u ELSE ParentOf(h, d)
        /\ ChildOf(f, d) = IF d = u THEN n ELSE ChildOf(h, d)
  BY UnlinkGives
<1> HIDE DEF f
<1>4. IsMemory(g) /\ ParentSet(g, f, c, NoCell)
  BY <1>1, <1>3, PutParent
<1> HIDE DEF g
<1>5. \A d \in Cells :
        /\ NextOf(g, d) = IF d = c THEN NoCell ELSE IF d = p THEN n ELSE NextOf(h, d)
        /\ PrevOf(g, d) = IF d = c THEN NoCell ELSE IF d = n THEN p ELSE PrevOf(h, d)
        /\ ParentOf(g, d) = IF d = c THEN NoCell ELSE IF d = n THEN u ELSE ParentOf(h, d)
        /\ ChildOf(g, d) = IF d = u THEN n ELSE ChildOf(h, d)
  BY <1>3, <1>4 DEF ParentSet
<1>6. /\ {n, p, u} \subseteq used \cup {NoCell}
      /\ n # NoCell => PrevOf(h, n) = c /\ ParentOf(h, n) = NoCell
      /\ p # NoCell => NextOf(h, p) = c /\ u = NoCell
      /\ u # NoCell => ChildOf(h, u) = c
  BY <1>1 DEF Chained, ChainedAt
<1> HIDE DEF n, p, u
<1>7. Unlisted(g, c) /\ ChildOf(g, c) = ChildOf(h, c)
  BY <1>1, <1>2, <1>5 DEF Unlisted
<1>8. Chained(g, used)
  <2> SUFFICES ASSUME NEW d \in used PROVE ChainedAt(g, used, d)
    BY DEF Chained
  <2>1. /\ {NextOf(h, d), PrevOf(h, d), ParentOf(h, d), ChildOf(h, d)} \subseteq used \cup {NoCell}
        /\ NextOf(h, d) # NoCell => PrevOf(h, NextOf(h, d)) = d
        /\ PrevOf(h, d) # NoCell => NextOf(h, PrevOf(h, d)) = d /\ ParentOf(h, d) = NoCell
        /\ ChildOf(h, d) # NoCell => PrevOf(h, ChildOf(h, d)) = NoCell /\ ParentOf(h, ChildOf(h, d)) = d
        /\ ParentOf(h, d) # NoCell => ChildOf(h, ParentOf(h, d)) = d
    BY <1>1 DEF Chained, ChainedAt
  <2>2. n = NextOf(h, c) /\ p = PrevOf(h, c) /\ u = ParentOf(h, c)
    BY DEF n, p, u
  <2>3. {NextOf(g, d), PrevOf(g, d), ParentOf(g, d), ChildOf(g, d)} \subseteq used \cup {NoCell}
    BY <1>5, <1>6, <2>1
  <2>4. NextOf(g, d) # NoCell => PrevOf(g, NextOf(g, d)) = d
    BY <1>1, <1>2, <1>5, <1>6, <2>1, <2>2, <2>3
  <2>5. PrevOf(g, d) # NoCell => NextOf(g, PrevOf(g, d)) = d /\ ParentOf(g, d) = NoCell
    BY <1>1, <1>2, <1>5, <1>6, <2>1, <2>2, <2>3
  <2>6. ChildOf(g, d) # NoCell => PrevOf(g, ChildOf(g, d)) = NoCell /\ ParentOf(g, ChildOf(g, d)) = d
    BY <1>1, <1>2, <1>5, <1>6, <2>1, <2>2, <2>3
  <2>7. ParentOf(g, d) # NoCell => ChildOf(g, ParentOf(g, d)) = d
    <3>1. CASE d = c
      BY <1>1, <1>5, <3>1
    <3>2. CASE d # c /\ d = n
      <4>1. ParentOf(g, d) = u /\ n # NoCell
        BY <1>1, <1>5, <3>2
      <4>2. u # NoCell => u \in Cells /\ ChildOf(g, u) = n
        BY <1>5, <1>6
      <4> QED BY <3>2, <4>1, <4>2
    <3>3. CASE d # c /\ d # n
      <4>1. ParentOf(g, d) = ParentOf(h, d)
        BY <1>5, <3>3
      <4>2. ParentOf(h, d) # NoCell => ParentOf(h, d) # u /\ ParentOf(h, d) \in Cells
        BY <1>6, <2>1, <3>3
      <4> QED BY <1>5, <2>1, <4>1, <4>2
    <3> QED BY <3>1, <3>2, <3>3
  <2> QED BY <2>3, <2>4, <2>5, <2>6, <2>7 DEF ChainedAt
<1>9. HasFirst(g, used)
  <2> SUFFICES ASSUME NEW some \in (SUBSET used) \ {{}} PROVE \E d \in some : PrevOf(g, d) \notin some
    BY DEF HasFirst
  <2>1. CASE c \in some
    BY <1>1, <1>5, <2>1
  <2>2. CASE c \notin some /\ n \notin some
    <3>1. PICK d \in some : PrevOf(h, d) \notin some
      BY <1>1 DEF HasFirst
    <3> QED BY <1>5, <2>2, <3>1
  <2>3. CASE c \notin some /\ n \in some
    <3>1. some \cup {c} \in (SUBSET used) \ {{}}
      OBVIOUS
    <3>2. PICK d \in some \cup {c} : PrevOf(h, d) \notin some \cup {c}
      BY <1>1, <3>1 DEF HasFirst
    <3>3. CASE d = c
      <4>1. n \in Cells /\ n # c /\ PrevOf(g, n) = p
        BY <1>5, <2>3
      <4> QED BY <2>3, <3>2, <3>3, <4>1 DEF p
    <3>4. CASE d # c
      <4>1. d \in some /\ d \in Cells /\ d # n
        BY <1>1, <1>6, <2>3, <3>2, <3>4
      <4> QED BY <1>5, <3>2, <3>4, <4>1
    <3> QED BY <3>3, <3>4
  <2> QED BY <2>1, <2>2, <2>3
<1> DEFINE own == [d \in used |-> IF d = c THEN NoCell ELSE Lists!Parent(h, d)]
<1>11. ASSUME NEW d \in used
       PROVE own[d] = IF PrevOf(g, d) = NoCell THEN ParentOf(g, d) ELSE own[PrevOf(g, d)]
  <2>1. Lists!Parent(h, d) = IF PrevOf(h, d) = NoCell THEN ParentOf(h, d) ELSE Lists!Parent(h, PrevOf(h, d))
    BY ParentStep
  <2>2. Lists!Parent(h, c) = IF p = NoCell THEN u ELSE Lists!Parent(h, p)
    BY <1>1, ParentStep DEF p, u
  <2>3. /\ PrevOf(h, d) \in used \cup {NoCell}
        /\ PrevOf(h, d) # NoCell => NextOf(h, PrevOf(h, d)) = d
    BY <1>1 DEF Chained, ChainedAt
  <2>4. n = NextOf(h, c)
    BY DEF n
  <2>5. CASE d = c
    BY <1>1, <1>5, <2>5
  <2>6. CASE d # c /\ d = n
    <3>1. PrevOf(h, d) = c /\ PrevOf(g, d) = p /\ ParentOf(g, d) = u
      BY <1>1, <1>5, <1>6, <2>6
    <3>2. own[d] = Lists!Parent(h, c)
      BY <1>1, <2>1, <2>6, <3>1
    <3>3. p # NoCell => own[p] = Lists!Parent(h, p)
      BY <1>2, <1>6
    <3> QED BY <2>2, <3>1, <3>2, <3>3
  <2>7. CASE d # c /\ d # n
    <3>1. PrevOf(g, d) = PrevOf(h, d) /\ ParentOf(g, d) = ParentOf(h, d)
      BY <1>5, <2>7
    <3>2. PrevOf(h, d) # c
      BY <1>1, <2>3, <2>4, <2>7
    <3> HIDE DEF own
    <3>3. own[d] = Lists!Parent(h, d)
      BY <2>7 DEF own
    <3>4. PrevOf(h, d) # NoCell => own[PrevOf(h, d)] = Lists!Parent(h, PrevOf(h, d))
      BY <2>3, <3>2 DEF own
    <3> QED BY <2>1, <3>1, <3>3, <3>4
  <2> QED BY <2>5, <2>6, <2>7
<1>12. \A d \in used : Lists!Parent(g, d) = own[d]
  <2> HIDE DEF own
  <2> QED BY <1>4, <1>8, <1>9, <1>11, ParentsAre
<1>13. Lists!Linked(g, used)
  BY <1>1, <1>8, <1>9, <1>12, LinkedIs DEF Apart
<1> QED BY <1>4, <1>7, <1>12, <1>13 DEF g, f

\* Chunk c becomes the first child of p.
Adopts(g, h, p, c) ==
    \A d \in Cells :
        /\ NextOf(g, d) = IF d = c THEN ChildOf(h, p) ELSE NextOf(h, d)
        /\ PrevOf(g, d) = IF d = c THEN NoCell ELSE IF d = ChildOf(h, p) THEN c ELSE PrevOf(h, d)
        /\ ParentOf(g, d) = IF d = c THEN p ELSE IF d = ChildOf(h, p) THEN NoCell ELSE ParentOf(h, d)
        /\ ChildOf(g, d) = IF d = p THEN c ELSE ChildOf(h, d)

LEMMA PutFirstGives ==
    ASSUME NEW h, IsMemory(h), NEW p \in Cells, NEW c \in Cells, p # c, ChildOf(h, p) # c
    PROVE  IsMemory(Lists!PutFirst(h, p, c)) /\ Adopts(Lists!PutFirst(h, p, c), h, p, c)
<1> DEFINE old == ChildOf(h, p)
           g1 == Lists!Put(h, old, "parent", NoCell)
           g2 == Lists!Put(g1, old, "prev", c)
           g3 == Lists!Put(g2, c, "parent", p)
           g4 == Lists!Put(g3, c, "prev", NoCell)
           g5 == Lists!Put(g4, c, "next", old)
           g6 == Lists!Put(g5, p, "child", c)
<1>1. /\ old \in Cells \cup {NoCell} /\ c \in Cells \cup {NoCell} /\ p \in Cells \cup {NoCell}
      /\ NoCell \in Cells \cup {NoCell} /\ NoCell \notin Cells
  BY PointersOf, TallocAssumption
<1>2. Lists!PutFirst(h, p, c) = g6
  BY DEF Lists!PutFirst, ChildOf
<1> HIDE DEF old
<1>3. IsMemory(g1) /\ ParentSet(g1, h, old, NoCell)
  BY <1>1, PutParent
<1> HIDE DEF g1
<1>4. IsMemory(g2) /\ PrevSet(g2, g1, old, c)
  BY <1>1, <1>3, PutPrev
<1> HIDE DEF g2
<1>5. IsMemory(g3) /\ ParentSet(g3, g2, c, p)
  BY <1>1, <1>4, PutParent
<1> HIDE DEF g3
<1>6. IsMemory(g4) /\ PrevSet(g4, g3, c, NoCell)
  BY <1>1, <1>5, PutPrev
<1> HIDE DEF g4
<1>7. IsMemory(g5) /\ NextSet(g5, g4, c, old)
  BY <1>1, <1>6, PutNext
<1> HIDE DEF g5
<1>8. IsMemory(g6) /\ ChildSet(g6, g5, p, c)
  BY <1>1, <1>7, PutChild
<1> HIDE DEF g6
<1>9. old # c
  BY DEF old
<1>10. Adopts(g6, h, p, c)
  BY <1>3, <1>4, <1>5, <1>6, <1>7, <1>8, <1>9 DEF ParentSet, PrevSet, NextSet, ChildSet, Adopts, old
<1> QED BY <1>2, <1>8, <1>10

LEMMA AdoptKeeps ==
    ASSUME NEW h, IsMemory(h), NEW used \in SUBSET Cells, Lists!Linked(h, used),
           NEW p \in used, NEW c \in used, p # c, Unlisted(h, c),
           NEW g, IsMemory(g), Adopts(g, h, p, c)
    PROVE  /\ Lists!Linked(g, used)
           /\ \A d \in used : Lists!Parent(g, d) = IF d = c THEN p ELSE Lists!Parent(h, d)
<1> DEFINE old == ChildOf(h, p)
<1>1. Chained(h, used) /\ HasFirst(h, used) /\ Apart(h, used) /\ NoCell \notin Cells /\ c \in Cells
  BY LinkedIs, TallocAssumption
<1>2. /\ old \in used \cup {NoCell}
      /\ old # NoCell => PrevOf(h, old) = NoCell /\ ParentOf(h, old) = p
      /\ NextOf(h, c) = NoCell /\ PrevOf(h, c) = NoCell /\ ParentOf(h, c) = NoCell
  BY <1>1 DEF Chained, ChainedAt, Unlisted
<1>3. old # c
  BY <1>1, <1>2
<1>4. \A d \in Cells :
        /\ NextOf(g, d) = IF d = c THEN old ELSE NextOf(h, d)
        /\ PrevOf(g, d) = IF d = c THEN NoCell ELSE IF d = old THEN c ELSE PrevOf(h, d)
        /\ ParentOf(g, d) = IF d = c THEN p ELSE IF d = old THEN NoCell ELSE ParentOf(h, d)
        /\ ChildOf(g, d) = IF d = p THEN c ELSE ChildOf(h, d)
  BY DEF Adopts
<1>5. old = ChildOf(h, p)
  OBVIOUS
<1> HIDE DEF old
<1>6. Chained(g, used)
  <2> SUFFICES ASSUME NEW d \in used PROVE ChainedAt(g, used, d)
    BY DEF Chained
  <2>1. /\ {NextOf(h, d), PrevOf(h, d), ParentOf(h, d), ChildOf(h, d)} \subseteq used \cup {NoCell}
        /\ NextOf(h, d) # NoCell => PrevOf(h, NextOf(h, d)) = d
        /\ PrevOf(h, d) # NoCell => NextOf(h, PrevOf(h, d)) = d /\ ParentOf(h, d) = NoCell
        /\ ChildOf(h, d) # NoCell => PrevOf(h, ChildOf(h, d)) = NoCell /\ ParentOf(h, ChildOf(h, d)) = d
        /\ ParentOf(h, d) # NoCell => ChildOf(h, ParentOf(h, d)) = d
    BY <1>1 DEF Chained, ChainedAt
  <2>2. {NextOf(g, d), PrevOf(g, d), ParentOf(g, d), ChildOf(g, d)} \subseteq used \cup {NoCell}
    BY <1>2, <1>4, <2>1
  <2>3. NextOf(g, d) # NoCell => PrevOf(g, NextOf(g, d)) = d
    BY <1>1, <1>2, <1>3, <1>4, <2>1, <2>2
  <2>4. PrevOf(g, d) # NoCell => NextOf(g, PrevOf(g, d)) = d /\ ParentOf(g, d) = NoCell
    BY <1>1, <1>2, <1>3, <1>4, <2>1, <2>2
  <2>5. ChildOf(g, d) # NoCell => PrevOf(g, ChildOf(g, d)) = NoCell /\ ParentOf(g, ChildOf(g, d)) = d
    BY <1>1, <1>2, <1>3, <1>4, <1>5, <2>1, <2>2
  <2>6. ParentOf(g, d) # NoCell => ChildOf(g, ParentOf(g, d)) = d
    BY <1>1, <1>2, <1>3, <1>4, <1>5, <2>1, <2>2
  <2> QED BY <2>2, <2>3, <2>4, <2>5, <2>6 DEF ChainedAt
<1>7. HasFirst(g, used)
  <2> SUFFICES ASSUME NEW some \in (SUBSET used) \ {{}} PROVE \E d \in some : PrevOf(g, d) \notin some
    BY DEF HasFirst
  <2>1. CASE c \in some
    BY <1>1, <1>4, <2>1
  <2>2. CASE c \notin some
    <3>1. PICK d \in some : PrevOf(h, d) \notin some
      BY <1>1 DEF HasFirst
    <3> QED BY <1>4, <2>2, <3>1
  <2> QED BY <2>1, <2>2
<1> DEFINE own == [d \in used |-> IF d = c THEN p ELSE Lists!Parent(h, d)]
<1>9. ASSUME NEW d \in used
      PROVE own[d] = IF PrevOf(g, d) = NoCell THEN ParentOf(g, d) ELSE own[PrevOf(g, d)]
  <2>1. Lists!Parent(h, d) = IF PrevOf(h, d) = NoCell THEN ParentOf(h, d) ELSE Lists!Parent(h, PrevOf(h, d))
    BY ParentStep
  <2>2. /\ PrevOf(h, d) \in used \cup {NoCell}
        /\ PrevOf(h, d) # NoCell => NextOf(h, PrevOf(h, d)) = d
    BY <1>1 DEF Chained, ChainedAt
  <2>3. CASE d = c
    BY <1>4, <2>3
  <2>4. CASE d # c /\ d = old
    <3>1. PrevOf(g, d) = c /\ c # NoCell
      BY <1>1, <1>4, <2>4
    <3>2. Lists!Parent(h, d) = p
      BY <1>1, <1>2, <2>1, <2>4
    <3>3. own[d] = p /\ own[c] = p
      BY <2>4, <3>2
    <3> HIDE DEF own
    <3> QED BY <3>1, <3>3
  <2>5. CASE d # c /\ d # old
    <3>1. PrevOf(g, d) = PrevOf(h, d) /\ ParentOf(g, d) = ParentOf(h, d)
      BY <1>4, <2>5
    <3>2. PrevOf(h, d) # c
      BY <1>1, <1>2, <2>2
    <3> HIDE DEF own
    <3>3. own[d] = Lists!Parent(h, d)
      BY <2>5 DEF own
    <3>4. PrevOf(h, d) # NoCell => own[PrevOf(h, d)] = Lists!Parent(h, PrevOf(h, d))
      BY <2>2, <3>2 DEF own
    <3> QED BY <2>1, <3>1, <3>3, <3>4
  <2> QED BY <2>3, <2>4, <2>5
<1>10. \A d \in used : Lists!Parent(g, d) = own[d]
  <2> HIDE DEF own
  <2> QED BY <1>6, <1>7, <1>9, ParentsAre
<1>11. Lists!Linked(g, used)
  BY <1>1, <1>6, <1>7, <1>10, LinkedIs DEF Apart
<1> QED BY <1>10, <1>11

\* Heaps that agree on the pointers of the chunks in use have the same lists.
Agree(g, h, used) ==
    \A d \in used : /\ NextOf(g, d) = NextOf(h, d)
                    /\ PrevOf(g, d) = PrevOf(h, d)
                    /\ ParentOf(g, d) = ParentOf(h, d)
                    /\ ChildOf(g, d) = ChildOf(h, d)

LEMMA AgreeKeeps ==
    ASSUME NEW h, IsMemory(h), NEW used \in SUBSET Cells, Lists!Linked(h, used),
           NEW g, IsMemory(g), Agree(g, h, used)
    PROVE  /\ Lists!Linked(g, used)
           /\ \A d \in used : Lists!Parent(g, d) = Lists!Parent(h, d)
<1>1. Chained(h, used) /\ HasFirst(h, used) /\ Apart(h, used) /\ NoCell \notin Cells
  BY LinkedIs, TallocAssumption
<1>2. HasFirst(g, used)
  BY <1>1 DEF HasFirst, Agree
<1>3. Chained(g, used)
  <2> SUFFICES ASSUME NEW d \in used PROVE ChainedAt(g, used, d)
    BY DEF Chained
  <2>1. /\ {NextOf(h, d), PrevOf(h, d), ParentOf(h, d), ChildOf(h, d)} \subseteq used \cup {NoCell}
        /\ NextOf(h, d) # NoCell => PrevOf(h, NextOf(h, d)) = d
        /\ PrevOf(h, d) # NoCell => NextOf(h, PrevOf(h, d)) = d /\ ParentOf(h, d) = NoCell
        /\ ChildOf(h, d) # NoCell => PrevOf(h, ChildOf(h, d)) = NoCell /\ ParentOf(h, ChildOf(h, d)) = d
        /\ ParentOf(h, d) # NoCell => ChildOf(h, ParentOf(h, d)) = d
    BY <1>1 DEF Chained, ChainedAt
  <2>2. \A e \in used : /\ NextOf(g, e) = NextOf(h, e) /\ PrevOf(g, e) = PrevOf(h, e)
                        /\ ParentOf(g, e) = ParentOf(h, e) /\ ChildOf(g, e) = ChildOf(h, e)
    BY DEF Agree
  <2> QED BY <2>1, <2>2 DEF ChainedAt
<1> DEFINE own == [d \in used |-> Lists!Parent(h, d)]
<1>4. ASSUME NEW d \in used
      PROVE own[d] = IF PrevOf(g, d) = NoCell THEN ParentOf(g, d) ELSE own[PrevOf(g, d)]
  <2>1. Lists!Parent(h, d) = IF PrevOf(h, d) = NoCell THEN ParentOf(h, d) ELSE Lists!Parent(h, PrevOf(h, d))
    BY ParentStep
  <2>2. PrevOf(h, d) \in used \cup {NoCell}
    BY <1>1 DEF Chained, ChainedAt
  <2>3. PrevOf(g, d) = PrevOf(h, d) /\ ParentOf(g, d) = ParentOf(h, d)
    BY DEF Agree
  <2> QED BY <2>1, <2>2, <2>3
<1>5. \A d \in used : Lists!Parent(g, d) = own[d]
  <2> HIDE DEF own
  <2> QED BY <1>2, <1>3, <1>4, ParentsAre
<1>6. Apart(g, used)
  BY <1>1, <1>5 DEF Apart
<1> QED BY <1>2, <1>3, <1>5, <1>6, LinkedIs

\* A chunk that is in no list and has no children may be in use or not.
LEMMA UnlistedCounts ==
    ASSUME NEW h, IsMemory(h), NEW used \in SUBSET Cells, NEW c \in Cells,
           Unlisted(h, c), ChildOf(h, c) = NoCell
    PROVE  Lists!Linked(h, used \cup {c}) <=> Lists!Linked(h, used \ {c})
<1> DEFINE more == used \cup {c}
           less == used \ {c}
<1>1. /\ NextOf(h, c) = NoCell /\ PrevOf(h, c) = NoCell /\ ParentOf(h, c) = NoCell
      /\ ChildOf(h, c) = NoCell /\ NoCell \notin Cells
  BY TallocAssumption DEF Unlisted
<1>2. Lists!Parent(h, c) = NoCell
  BY <1>1, ParentStep
<1>3. Apart(h, more) <=> Apart(h, less)
  BY <1>1, <1>2 DEF Apart
<1>4. HasFirst(h, more) <=> HasFirst(h, less)
  <2>1. ASSUME HasFirst(h, more) PROVE HasFirst(h, less)
    <3>1. (SUBSET less) \ {{}} \subseteq (SUBSET more) \ {{}}
      OBVIOUS
    <3> QED BY <2>1, <3>1 DEF HasFirst
  <2>2. ASSUME HasFirst(h, less) PROVE HasFirst(h, more)
    <3> SUFFICES ASSUME NEW some \in (SUBSET more) \ {{}} PROVE \E d \in some : PrevOf(h, d) \notin some
      BY DEF HasFirst
    <3>1. CASE c \in some
      <4>1. some \subseteq Cells
        OBVIOUS
      <4> QED BY <1>1, <3>1, <4>1
    <3>2. CASE c \notin some
      <4>1. some \in (SUBSET less) \ {{}}
        BY <3>2
      <4> QED BY <2>2, <4>1 DEF HasFirst
    <3> QED BY <3>1, <3>2
  <2> QED BY <2>1, <2>2
<1>5. Chained(h, more) => Chained(h, less)
  <2> SUFFICES ASSUME Chained(h, more), NEW d \in less
               PROVE  c \notin {NextOf(h, d), PrevOf(h, d), ParentOf(h, d), ChildOf(h, d)}
    <3> HIDE DEF more
    <3>1. less \subseteq more /\ more = less \cup {c}
      BY DEF more
    <3> HIDE DEF less
    <3> QED BY <3>1 DEF Chained, ChainedAt
  <2>1. d \in more /\ d # NoCell
    BY <1>1
  <2>2. /\ NextOf(h, d) # NoCell => PrevOf(h, NextOf(h, d)) = d
        /\ PrevOf(h, d) # NoCell => NextOf(h, PrevOf(h, d)) = d
        /\ ChildOf(h, d) # NoCell => ParentOf(h, ChildOf(h, d)) = d
        /\ ParentOf(h, d) # NoCell => ChildOf(h, ParentOf(h, d)) = d
    BY <2>1 DEF Chained, ChainedAt
  <2> QED BY <1>1, <2>1, <2>2
<1>6. Chained(h, less) => Chained(h, more)
  <2> HIDE DEF more
  <2>1. less \subseteq more /\ more = less \cup {c}
    BY DEF more
  <2> HIDE DEF less
  <2> QED BY <1>1, <2>1 DEF Chained, ChainedAt
<1> QED BY <1>3, <1>4, <1>5, <1>6, LinkedIs

\* A chunk gets another parent, or none: it and no other chunk changes hands,
\* and all lists stay whole (_talloc_steal_internal, talloc.c:1063).
THEOREM RelinkKeepsLists ==
    ASSUME NEW h, IsMemory(h), NEW used \in SUBSET Cells, Lists!Linked(h, used),
           NEW c \in used, NEW new \in used \cup {NoCell}, new # c
    PROVE  /\ IsMemory(Lists!Relink(h, new, c)) /\ Lists!Linked(Lists!Relink(h, new, c), used)
           /\ \A d \in used : Lists!Parent(Lists!Relink(h, new, c), d)
                                = IF d = c THEN new ELSE Lists!Parent(h, d)
<1> DEFINE f == Lists!Unlink(h, c)
           g == Lists!Put(f, c, "parent", NoCell)
           r == Lists!Relink(h, new, c)
<1>1. c \in Cells /\ c # NoCell /\ NoCell \notin Cells
  BY TallocAssumption
<1>2. /\ IsMemory(g) /\ Lists!Linked(g, used) /\ Unlisted(g, c)
      /\ \A d \in used : Lists!Parent(g, d) = IF d = c THEN NoCell ELSE Lists!Parent(h, d)
  BY DetachGives
<1>3. CASE new = NoCell
  <2>1. r = g
    BY <1>3 DEF Lists!Relink
  <2> QED BY <1>2, <1>3, <2>1
<1>4. CASE new # NoCell /\ new = h.chunk[c].parent
  <2>1. r = h
    BY <1>4 DEF Lists!Relink
  <2>2. Chained(h, used)
    BY LinkedIs
  <2>3. PrevOf(h, c) = NoCell /\ ParentOf(h, c) = new
    BY <1>4, <2>2 DEF Chained, ChainedAt, ParentOf
  <2>4. Lists!Parent(h, c) = new
    BY <1>1, <2>3, ParentStep
  <2> QED BY <2>1, <2>4
<1>5. CASE new # NoCell /\ new # h.chunk[c].parent
  <2>1. r = Lists!PutFirst(f, new, c)
    BY <1>5 DEF Lists!Relink
  <2>2. IsMemory(f) /\ \A d \in Cells :
          ChildOf(f, d) = IF d = ParentOf(h, c) THEN NextOf(h, c) ELSE ChildOf(h, d)
    BY UnlinkGives
  <2> HIDE DEF f
  <2>3. ParentSet(g, f, c, NoCell)
    BY <1>1, <2>2, PutParent
  <2> HIDE DEF g
  <2>4. new \in Cells /\ new # ParentOf(h, c)
    BY <1>5 DEF ParentOf
  <2>5. ChildOf(f, new) # c
    <3>1. ChildOf(h, new) # c
      <4>1. ChildOf(h, new) # NoCell => ParentOf(h, ChildOf(h, new)) = new
        BY <1>5, LinkedIs DEF Chained, ChainedAt
      <4> QED BY <1>1, <2>4, <4>1
    <3> QED BY <2>2, <2>4, <3>1
  <2>6. IsMemory(r) /\ Adopts(r, f, new, c)
    BY <1>1, <2>1, <2>2, <2>4, <2>5, PutFirstGives
  <2>7. Adopts(r, g, new, c)
    <3> HIDE DEF r
    <3> QED BY <2>3, <2>4, <2>6 DEF Adopts, ParentSet
  <2> HIDE DEF r
  <2>8. new \in used
    BY <1>5
  <2>9. /\ Lists!Linked(r, used)
        /\ \A d \in used : Lists!Parent(r, d) = IF d = c THEN new ELSE Lists!Parent(g, d)
    BY <1>2, <2>6, <2>7, <2>8, AdoptKeeps
  <2>10. \A d \in used : Lists!Parent(r, d) = IF d = c THEN new ELSE Lists!Parent(h, d)
    BY <1>2, <2>9
  <2> QED BY <2>6, <2>9, <2>10 DEF r
<1> QED BY <1>3, <1>4, <1>5

\* A new chunk is the first child of its parent, or has none, and the others
\* keep theirs (__talloc_with_prefix, talloc.c:670).
THEOREM NewKeepsLists ==
    ASSUME NEW h, IsMemory(h), NEW used \in SUBSET Cells, Lists!Linked(h, used),
           NEW c \in Cells \ used, Unlisted(h, c), ChildOf(h, c) = NoCell,
           NEW p \in used \cup {NoCell}
    PROVE  LET g == IF p = NoCell THEN h ELSE Lists!PutFirst(h, p, c) IN
           /\ IsMemory(g) /\ Lists!Linked(g, used \cup {c}) /\ Lists!Parent(g, c) = p
           /\ \A d \in used : Lists!Parent(g, d) = Lists!Parent(h, d)
<1> DEFINE g == IF p = NoCell THEN h ELSE Lists!PutFirst(h, p, c)
           more == used \cup {c}
<1>1. NoCell \notin Cells /\ more \in SUBSET Cells /\ c \in more
  BY TallocAssumption
<1>2. Lists!Linked(h, more)
  <2>1. used \ {c} = used
    OBVIOUS
  <2> QED BY <2>1, UnlistedCounts
<1>3. Lists!Parent(h, c) = NoCell
  BY ParentStep DEF Unlisted
<1>4. CASE p = NoCell
  <2>1. g = h
    BY <1>4
  <2> QED BY <1>2, <1>3, <1>4, <2>1
<1>5. CASE p # NoCell
  <2>1. g = Lists!PutFirst(h, p, c)
    BY <1>5
  <2> HIDE DEF g
  <2>2. p \in more /\ p \in Cells /\ p # c
    BY <1>5
  <2>3. ChildOf(h, p) # c
    <3>1. ChildOf(h, p) \in used \cup {NoCell}
      BY <1>5, LinkedIs DEF Chained, ChainedAt
    <3> QED BY <1>1, <3>1
  <2>4. IsMemory(g) /\ Adopts(g, h, p, c)
    BY <2>1, <2>2, <2>3, PutFirstGives
  <2> HIDE DEF more
  <2>5. /\ Lists!Linked(g, more)
        /\ \A d \in more : Lists!Parent(g, d) = IF d = c THEN p ELSE Lists!Parent(h, d)
    BY <1>1, <1>2, <2>2, <2>4, AdoptKeeps
  <2> QED BY <1>1, <2>4, <2>5 DEF g, more
<1> QED BY <1>4, <1>5

\* A chunk without children that is unlinked can go: whatever becomes of its
\* memory, the others keep their parents (_talloc_free_internal, talloc.c:977).
THEOREM FreeKeepsLists ==
    ASSUME NEW h, IsMemory(h), NEW used \in SUBSET Cells, Lists!Linked(h, used),
           NEW c \in used, ChildOf(h, c) = NoCell,
           NEW g, IsMemory(g), Agree(g, Lists!Unlink(h, c), used \ {c})
    PROVE  /\ Lists!Linked(g, used \ {c})
           /\ \A d \in used \ {c} : Lists!Parent(g, d) = Lists!Parent(h, d)
<1> DEFINE f == Lists!Unlink(h, c)
           e == Lists!Put(f, c, "parent", NoCell)
           less == used \ {c}
<1>1. c \in Cells /\ NoCell \notin Cells /\ less \in SUBSET Cells
  BY TallocAssumption
<1>2. /\ IsMemory(e) /\ Lists!Linked(e, used) /\ Unlisted(e, c) /\ ChildOf(e, c) = NoCell
      /\ \A d \in used : Lists!Parent(e, d) = IF d = c THEN NoCell ELSE Lists!Parent(h, d)
  BY DetachGives
<1>3. IsMemory(f)
  BY UnlinkGives
<1>4. Agree(g, f, less)
  OBVIOUS
<1> HIDE DEF f
<1>5. ParentSet(e, f, c, NoCell)
  BY <1>1, <1>3, PutParent
<1> HIDE DEF e
<1>6. Agree(g, e, less)
  BY <1>1, <1>4, <1>5 DEF Agree, ParentSet
<1>7. Lists!Linked(e, less)
  <2>1. used \cup {c} = used
    OBVIOUS
  <2> QED BY <1>1, <1>2, <2>1, UnlistedCounts
<1> HIDE DEF less
<1>8. /\ Lists!Linked(g, less)
      /\ \A d \in less : Lists!Parent(g, d) = Lists!Parent(e, d)
  BY <1>1, <1>2, <1>6, <1>7, AgreeKeeps
<1> QED BY <1>2, <1>8 DEF less

\* The children of a chunk become chunks without a parent, and the others keep
\* theirs (talloc_disable_null_tracking, talloc.c:2147).
THEOREM OrphanKeepsLists ==
    ASSUME NEW h, IsMemory(h), NEW used \in SUBSET Cells, Lists!Linked(h, used), NEW c \in used
    PROVE  /\ IsMemory(Lists!Orphan(h, c)) /\ Lists!Linked(Lists!Orphan(h, c), used)
           /\ \A d \in used : Lists!Parent(Lists!Orphan(h, c), d)
                                = IF Lists!Parent(h, d) = c THEN NoCell ELSE Lists!Parent(h, d)
<1> DEFINE n == ChildOf(h, c)
           f == Lists!Put(h, n, "parent", NoCell)
           g == Lists!Put(f, c, "child", NoCell)
<1>1. Chained(h, used) /\ HasFirst(h, used) /\ Apart(h, used) /\ NoCell \notin Cells /\ c \in Cells
  BY LinkedIs, TallocAssumption
<1>2. Lists!Orphan(h, c) = g
  BY DEF Lists!Orphan, ChildOf
<1>3. /\ n \in used \cup {NoCell}
      /\ n # NoCell => PrevOf(h, n) = NoCell /\ ParentOf(h, n) = c
      /\ \A d \in used : ParentOf(h, d) = c => d = n
      /\ \A d \in used : ChildOf(h, d) = n /\ n # NoCell => d = c
  BY <1>1 DEF Chained, ChainedAt
<1>4. n = ChildOf(h, c)
  OBVIOUS
<1> HIDE DEF n
<1>5. IsMemory(f) /\ ParentSet(f, h, n, NoCell)
  BY <1>3, PutParent
<1> HIDE DEF f
<1>6. IsMemory(g) /\ ChildSet(g, f, c, NoCell)
  BY <1>1, <1>5, PutChild
<1> HIDE DEF g
<1>7. \A d \in Cells :
        /\ NextOf(g, d) = NextOf(h, d)
        /\ PrevOf(g, d) = PrevOf(h, d)
        /\ ParentOf(g, d) = IF d = n THEN NoCell ELSE ParentOf(h, d)
        /\ ChildOf(g, d) = IF d = c THEN NoCell ELSE ChildOf(h, d)
  BY <1>5, <1>6 DEF ParentSet, ChildSet
<1>8. Chained(g, used)
  <2> SUFFICES ASSUME NEW d \in used PROVE ChainedAt(g, used, d)
    BY DEF Chained
  <2>1. /\ {NextOf(h, d), PrevOf(h, d), ParentOf(h, d), ChildOf(h, d)} \subseteq used \cup {NoCell}
        /\ NextOf(h, d) # NoCell => PrevOf(h, NextOf(h, d)) = d
        /\ PrevOf(h, d) # NoCell => NextOf(h, PrevOf(h, d)) = d /\ ParentOf(h, d) = NoCell
        /\ ChildOf(h, d) # NoCell => PrevOf(h, ChildOf(h, d)) = NoCell /\ ParentOf(h, ChildOf(h, d)) = d
        /\ ParentOf(h, d) # NoCell => ChildOf(h, ParentOf(h, d)) = d
    BY <1>1 DEF Chained, ChainedAt
  <2>2. {NextOf(g, d), PrevOf(g, d), ParentOf(g, d), ChildOf(g, d)} \subseteq used \cup {NoCell}
    BY <1>7, <2>1
  <2>3. /\ NextOf(g, d) # NoCell => PrevOf(g, NextOf(g, d)) = d
        /\ PrevOf(g, d) # NoCell => NextOf(g, PrevOf(g, d)) = d /\ ParentOf(g, d) = NoCell
    BY <1>1, <1>7, <2>1, <2>2
  <2>4. ChildOf(g, d) # NoCell => PrevOf(g, ChildOf(g, d)) = NoCell /\ ParentOf(g, ChildOf(g, d)) = d
    BY <1>1, <1>3, <1>7, <2>1, <2>2
  <2>5. ParentOf(g, d) # NoCell => ChildOf(g, ParentOf(g, d)) = d
    BY <1>1, <1>3, <1>7, <2>1, <2>2
  <2> QED BY <2>2, <2>3, <2>4, <2>5 DEF ChainedAt
<1>9. HasFirst(g, used)
  BY <1>1, <1>7 DEF HasFirst
<1> DEFINE own == [d \in used |-> IF Lists!Parent(h, d) = c THEN NoCell ELSE Lists!Parent(h, d)]
<1>10. ASSUME NEW d \in used
       PROVE own[d] = IF PrevOf(g, d) = NoCell THEN ParentOf(g, d) ELSE own[PrevOf(g, d)]
  <2>1. Lists!Parent(h, d) = IF PrevOf(h, d) = NoCell THEN ParentOf(h, d) ELSE Lists!Parent(h, PrevOf(h, d))
    BY ParentStep
  <2>2. PrevOf(h, d) \in used \cup {NoCell} /\ PrevOf(g, d) = PrevOf(h, d)
    BY <1>1, <1>7 DEF Chained, ChainedAt
  <2>3. CASE PrevOf(h, d) = NoCell
    <3>1. ParentOf(g, d) = IF d = n THEN NoCell ELSE ParentOf(h, d)
      BY <1>7
    <3>2. ParentOf(h, d) = c <=> d = n
      BY <1>1, <1>3
    <3>3. own[d] = IF ParentOf(h, d) = c THEN NoCell ELSE ParentOf(h, d)
      BY <2>1, <2>3
    <3> HIDE DEF own
    <3> QED BY <2>2, <2>3, <3>1, <3>2, <3>3
  <2>4. CASE PrevOf(h, d) # NoCell
    <3>1. Lists!Parent(h, d) = Lists!Parent(h, PrevOf(h, d)) /\ PrevOf(h, d) \in used
      BY <2>1, <2>2, <2>4
    <3>2. own[d] = own[PrevOf(h, d)]
      BY <3>1
    <3> HIDE DEF own
    <3> QED BY <2>2, <2>4, <3>2
  <2> QED BY <2>3, <2>4
<1>11. \A d \in used : Lists!Parent(g, d) = own[d]
  <2> HIDE DEF own
  <2> QED BY <1>6, <1>8, <1>9, <1>10, ParentsAre
<1>12. Apart(g, used)
  BY <1>1, <1>11 DEF Apart
<1>13. Lists!Linked(g, used)
  BY <1>8, <1>9, <1>12, LinkedIs
<1> QED BY <1>2, <1>6, <1>11, <1>13

\* A chunk is written whole.
LEMMA CopyChanges ==
    ASSUME NEW h, IsMemory(h), NEW c \in Cells, NEW k, k = [x \in DOMAIN k |-> k[x]],
           Pointers \subseteq DOMAIN k, \A x \in Pointers : k[x] \in Cells \cup {NoCell}
    PROVE  LET g == [h EXCEPT !.chunk[c] = k] IN
           /\ IsMemory(g) /\ g.chunk[c] = k
           /\ Agree(g, h, Cells \ {c})
<1> DEFINE m == h.chunk
           n == [m EXCEPT ![c] = k]
           g == [h EXCEPT !.chunk = n]
<1>1. g.chunk = n /\ g = [x \in DOMAIN g |-> g[x]] /\ "chunk" \in DOMAIN g
  BY DEF IsMemory
<1>2. DOMAIN m = Cells
  BY DEF IsMemory
<1>3. n = [d \in Cells |-> n[d]] /\ n[c] = k /\ \A d \in Cells \ {c} : n[d] = m[d]
  BY <1>2
<1>4. \A d \in Cells \ {c} : /\ m[d] = [x \in DOMAIN m[d] |-> m[d][x]]
                             /\ Pointers \subseteq DOMAIN m[d]
                             /\ \A x \in Pointers : m[d][x] \in Cells \cup {NoCell}
  BY DEF IsMemory
<1> HIDE DEF n, m
<1>5. \A d \in Cells : /\ n[d] = [x \in DOMAIN n[d] |-> n[d][x]]
                       /\ Pointers \subseteq DOMAIN n[d]
                       /\ \A x \in Pointers : n[d][x] \in Cells \cup {NoCell}
  <2>1. ASSUME NEW d \in Cells \ {c} PROVE n[d] = m[d]
    BY <1>3
  <2> QED BY <1>3, <1>4, <2>1
<1> HIDE DEF g
<1>6. IsMemory(g)
  BY <1>1, <1>3, <1>5 DEF IsMemory
<1>7. Agree(g, h, Cells \ {c})
  BY <1>1, <1>3 DEF Agree, NextOf, PrevOf, ParentOf, ChildOf, m
<1>8. g = [h EXCEPT !.chunk[c] = k]
  BY DEF g, n, m
<1> QED BY <1>1, <1>3, <1>6, <1>7, <1>8

\* The pointers of chunk c, in a copy of it.
CopyOf(k, h, c) ==
    /\ k = [x \in DOMAIN k |-> k[x]] /\ Pointers \subseteq DOMAIN k
    /\ k.next = NextOf(h, c) /\ k.prev = PrevOf(h, c)
    /\ k.parent = ParentOf(h, c) /\ k.child = ChildOf(h, c)

\* After a chunk has moved, what pointed to it points to the copy.
LEMMA MoveGives ==
    ASSUME NEW h, IsMemory(h), NEW used \in SUBSET Cells, Lists!Linked(h, used), NEW c \in used,
           NEW new \in (Cells \ used) \cup {c}, NEW k, CopyOf(k, h, c),
           NEW f, IsMemory(f), Agree(f, h, used \ {c})
    PROVE  LET g == Lists!MoveTo(f, k, new)
               R(x) == IF x = c THEN new ELSE x
           IN  /\ IsMemory(g)
               /\ \A d \in used :
                     /\ NextOf(g, R(d)) = R(NextOf(h, d))
                     /\ PrevOf(g, R(d)) = R(PrevOf(h, d))
                     /\ ParentOf(g, R(d)) = R(ParentOf(h, d))
                     /\ ChildOf(g, R(d)) = R(ChildOf(h, d))
<1> DEFINE R(x) == IF x = c THEN new ELSE x
           n == NextOf(h, c)
           p == PrevOf(h, c)
           u == ParentOf(h, c)
           b == ChildOf(h, c)
           at == [f EXCEPT !.chunk[new] = k]
           g1 == Lists!Put(at, u, "child", new)
           g2 == Lists!Put(g1, b, "parent", new)
           g3 == Lists!Put(g2, p, "next", new)
           g4 == Lists!Put(g3, n, "prev", new)
<1>1. Chained(h, used) /\ NoCell \notin Cells /\ c \in Cells /\ new \in Cells
  BY LinkedIs, TallocAssumption
<1>2. /\ c \notin {n, p, u, b}
      /\ {n, p, u, b} \subseteq used \cup {NoCell}
  BY <1>1, NoLoops DEF Chained, ChainedAt
<1>3. k.next = n /\ k.prev = p /\ k.parent = u /\ k.child = b
  BY DEF CopyOf
<1>4. Lists!MoveTo(f, k, new) = g4
  BY <1>3 DEF Lists!MoveTo
<1>5. /\ n \in Cells \cup {NoCell} /\ p \in Cells \cup {NoCell} /\ u \in Cells \cup {NoCell}
      /\ b \in Cells \cup {NoCell} /\ new \in Cells \cup {NoCell}
  BY <1>1, <1>2
<1>6. \A d \in used : /\ NextOf(h, d) = c => d = p
                      /\ PrevOf(h, d) = c => d = n
                      /\ ParentOf(h, d) = c => d = b
                      /\ ChildOf(h, d) = c => d = u
  BY <1>1 DEF Chained, ChainedAt
<1>7. /\ p # NoCell => NextOf(h, p) = c
      /\ n # NoCell => PrevOf(h, n) = c
      /\ b # NoCell => ParentOf(h, b) = c
      /\ u # NoCell => ChildOf(h, u) = c
  BY <1>1 DEF Chained, ChainedAt
<1>8. \A d \in used : d # NoCell
  BY <1>1
<1> HIDE DEF n, p, u, b
<1>9. IsMemory(at) /\ at.chunk[new] = k /\ Agree(at, f, Cells \ {new})
  <2>1. \A x \in Pointers : k[x] \in Cells \cup {NoCell}
    BY <1>3, <1>5 DEF Pointers
  <2>2. k = [x \in DOMAIN k |-> k[x]] /\ Pointers \subseteq DOMAIN k
    BY DEF CopyOf
  <2> QED BY <1>1, <2>1, <2>2, CopyChanges
<1> HIDE DEF at
<1>10. \A d \in Cells \ {new} :
          /\ NextOf(at, d) = NextOf(f, d) /\ PrevOf(at, d) = PrevOf(f, d)
          /\ ParentOf(at, d) = ParentOf(f, d) /\ ChildOf(at, d) = ChildOf(f, d)
  BY <1>9 DEF Agree
<1>11. NextOf(at, new) = n /\ PrevOf(at, new) = p /\ ParentOf(at, new) = u /\ ChildOf(at, new) = b
  BY <1>3, <1>9 DEF NextOf, PrevOf, ParentOf, ChildOf
<1>12. \A d \in used \ {c} :
          /\ NextOf(at, d) = NextOf(h, d) /\ PrevOf(at, d) = PrevOf(h, d)
          /\ ParentOf(at, d) = ParentOf(h, d) /\ ChildOf(at, d) = ChildOf(h, d)
  <2>1. \A d \in used \ {c} : d \in Cells \ {new}
    OBVIOUS
  <2>2. \A d \in used \ {c} :
          /\ NextOf(f, d) = NextOf(h, d) /\ PrevOf(f, d) = PrevOf(h, d)
          /\ ParentOf(f, d) = ParentOf(h, d) /\ ChildOf(f, d) = ChildOf(h, d)
    BY DEF Agree
  <2> QED BY <1>10, <2>1, <2>2
<1>13. IsMemory(g1) /\ ChildSet(g1, at, u, new)
  BY <1>5, <1>9, PutChild
<1> HIDE DEF g1
<1>14. IsMemory(g2) /\ ParentSet(g2, g1, b, new)
  BY <1>5, <1>13, PutParent
<1> HIDE DEF g2
<1>15. IsMemory(g3) /\ NextSet(g3, g2, p, new)
  BY <1>5, <1>14, PutNext
<1> HIDE DEF g3
<1>16. IsMemory(g4) /\ PrevSet(g4, g3, n, new)
  BY <1>5, <1>15, PutPrev
<1> HIDE DEF g4
<1>17. \A d \in Cells :
          /\ NextOf(g4, d) = IF d = p THEN new ELSE NextOf(at, d)
          /\ PrevOf(g4, d) = IF d = n THEN new ELSE PrevOf(at, d)
          /\ ParentOf(g4, d) = IF d = b THEN new ELSE ParentOf(at, d)
          /\ ChildOf(g4, d) = IF d = u THEN new ELSE ChildOf(at, d)
  BY <1>13, <1>14, <1>15, <1>16 DEF ChildSet, ParentSet, NextSet, PrevSet
<1>18. new \notin {n, p, u, b}
  BY <1>1, <1>2
<1>19. ASSUME NEW d \in used
       PROVE  /\ NextOf(g4, R(d)) = R(NextOf(h, d)) /\ PrevOf(g4, R(d)) = R(PrevOf(h, d))
              /\ ParentOf(g4, R(d)) = R(ParentOf(h, d)) /\ ChildOf(g4, R(d)) = R(ChildOf(h, d))
  <2>1. CASE d = c
    <3>1. /\ NextOf(g4, new) = n /\ PrevOf(g4, new) = p
          /\ ParentOf(g4, new) = u /\ ChildOf(g4, new) = b
      BY <1>1, <1>11, <1>17, <1>18
    <3> QED BY <1>2, <2>1, <3>1 DEF n, p, u, b
  <2>2. CASE d # c
    <3>1. /\ NextOf(g4, d) = IF d = p THEN new ELSE NextOf(h, d)
          /\ PrevOf(g4, d) = IF d = n THEN new ELSE PrevOf(h, d)
          /\ ParentOf(g4, d) = IF d = b THEN new ELSE ParentOf(h, d)
          /\ ChildOf(g4, d) = IF d = u THEN new ELSE ChildOf(h, d)
      BY <1>12, <1>17, <2>2
    <3> QED BY <1>6, <1>7, <1>8, <2>2, <3>1
  <2> QED BY <2>1, <2>2
<1> QED BY <1>4, <1>16, <1>19

\* A chunk that is copied to another address takes its place in its list and
\* its children along (_talloc_realloc, talloc.c:1710).
THEOREM MoveKeepsLists ==
    ASSUME NEW h, IsMemory(h), NEW used \in SUBSET Cells, Lists!Linked(h, used), NEW c \in used,
           NEW new \in (Cells \ used) \cup {c}, NEW k, CopyOf(k, h, c),
           NEW f, IsMemory(f), Agree(f, h, used \ {c})
    PROVE  LET g == Lists!MoveTo(f, k, new)
               R(x) == IF x = c THEN new ELSE x
           IN  /\ IsMemory(g) /\ Lists!Linked(g, (used \ {c}) \cup {new})
               /\ \A d \in used : Lists!Parent(g, R(d)) = R(Lists!Parent(h, d))
<1> DEFINE g == Lists!MoveTo(f, k, new)
           R(x) == IF x = c THEN new ELSE x
           O(x) == IF x = new THEN c ELSE x
           now == (used \ {c}) \cup {new}
<1>1. Chained(h, used) /\ HasFirst(h, used) /\ Apart(h, used) /\ NoCell \notin Cells /\ c \in Cells
  BY LinkedIs, TallocAssumption
<1>2. /\ IsMemory(g)
      /\ \A d \in used : /\ NextOf(g, R(d)) = R(NextOf(h, d)) /\ PrevOf(g, R(d)) = R(PrevOf(h, d))
                         /\ ParentOf(g, R(d)) = R(ParentOf(h, d)) /\ ChildOf(g, R(d)) = R(ChildOf(h, d))
  BY MoveGives
<1> HIDE DEF g
<1>3. /\ now \in SUBSET Cells
      /\ \A x \in used : R(x) \in now /\ O(R(x)) = x
      /\ \A x \in now : O(x) \in used /\ R(O(x)) = x
      /\ R(NoCell) = NoCell /\ O(NoCell) = NoCell
  BY <1>1
<1>4. \A d \in now : /\ NextOf(g, d) = R(NextOf(h, O(d))) /\ PrevOf(g, d) = R(PrevOf(h, O(d)))
                     /\ ParentOf(g, d) = R(ParentOf(h, O(d))) /\ ChildOf(g, d) = R(ChildOf(h, O(d)))
  BY <1>2, <1>3
<1>5. \A x \in used \cup {NoCell} : R(x) = NoCell <=> x = NoCell
  BY <1>1, <1>3
<1> HIDE DEF R, O, now
<1>6. Chained(g, now)
  <2> SUFFICES ASSUME NEW d \in now PROVE ChainedAt(g, now, d)
    BY DEF Chained
  <2> DEFINE e == O(d)
  <2>1. e \in used /\ R(e) = d
    BY <1>3
  <2>2. /\ NextOf(g, d) = R(NextOf(h, e)) /\ PrevOf(g, d) = R(PrevOf(h, e))
        /\ ParentOf(g, d) = R(ParentOf(h, e)) /\ ChildOf(g, d) = R(ChildOf(h, e))
    BY <1>4
  <2> HIDE DEF e
  <2>3. /\ {NextOf(h, e), PrevOf(h, e), ParentOf(h, e), ChildOf(h, e)} \subseteq used \cup {NoCell}
        /\ NextOf(h, e) # NoCell => PrevOf(h, NextOf(h, e)) = e
        /\ PrevOf(h, e) # NoCell => NextOf(h, PrevOf(h, e)) = e /\ ParentOf(h, e) = NoCell
        /\ ChildOf(h, e) # NoCell => PrevOf(h, ChildOf(h, e)) = NoCell /\ ParentOf(h, ChildOf(h, e)) = e
        /\ ParentOf(h, e) # NoCell => ChildOf(h, ParentOf(h, e)) = e
    BY <1>1, <2>1 DEF Chained, ChainedAt
  <2>4. {NextOf(g, d), PrevOf(g, d), ParentOf(g, d), ChildOf(g, d)} \subseteq now \cup {NoCell}
    BY <1>3, <2>2, <2>3
  <2>5. NextOf(g, d) # NoCell => PrevOf(g, NextOf(g, d)) = d
    BY <1>2, <1>5, <2>1, <2>2, <2>3
  <2>6. PrevOf(g, d) # NoCell => NextOf(g, PrevOf(g, d)) = d /\ ParentOf(g, d) = NoCell
    BY <1>2, <1>3, <1>5, <2>1, <2>2, <2>3
  <2>7. ChildOf(g, d) # NoCell => PrevOf(g, ChildOf(g, d)) = NoCell /\ ParentOf(g, ChildOf(g, d)) = d
    BY <1>2, <1>3, <1>5, <2>1, <2>2, <2>3
  <2>8. ParentOf(g, d) # NoCell => ChildOf(g, ParentOf(g, d)) = d
    BY <1>2, <1>5, <2>1, <2>2, <2>3
  <2> QED BY <2>4, <2>5, <2>6, <2>7, <2>8 DEF ChainedAt
<1>7. HasFirst(g, now)
  <2> SUFFICES ASSUME NEW some \in (SUBSET now) \ {{}} PROVE \E d \in some : PrevOf(g, d) \notin some
    BY DEF HasFirst
  <2> DEFINE was == {x \in used : R(x) \in some}
  <2>1. PICK y \in some : TRUE
    OBVIOUS
  <2>2. O(y) \in was
    BY <1>3, <2>1
  <2>3. was \in (SUBSET used) \ {{}}
    BY <2>2
  <2>4. PICK x \in was : PrevOf(h, x) \notin was
    <3> HIDE DEF was
    <3> QED BY <1>1, <2>3 DEF HasFirst
  <2>5. x \in used /\ R(x) \in some /\ PrevOf(h, x) \in used \cup {NoCell}
    BY <1>1, <2>4 DEF Chained, ChainedAt
  <2>6. PrevOf(g, R(x)) = R(PrevOf(h, x))
    BY <1>2, <2>5
  <2>7. R(PrevOf(h, x)) \notin some
    <3>1. NoCell \notin some
      BY <1>1, <1>3
    <3> QED BY <1>3, <2>4, <2>5, <3>1
  <2> QED BY <2>5, <2>6, <2>7
<1> DEFINE own == [d \in now |-> R(Lists!Parent(h, O(d)))]
<1>8. ASSUME NEW d \in now
      PROVE own[d] = IF PrevOf(g, d) = NoCell THEN ParentOf(g, d) ELSE own[PrevOf(g, d)]
  <2> DEFINE e == O(d)
  <2>1. e \in used /\ e \in Cells
    BY <1>3
  <2>2. PrevOf(g, d) = R(PrevOf(h, e)) /\ ParentOf(g, d) = R(ParentOf(h, e)) /\ own[d] = R(Lists!Parent(h, e))
    BY <1>4
  <2> HIDE DEF e
  <2>3. Lists!Parent(h, e) = IF PrevOf(h, e) = NoCell THEN ParentOf(h, e) ELSE Lists!Parent(h, PrevOf(h, e))
    BY <2>1, ParentStep
  <2>4. PrevOf(h, e) \in used \cup {NoCell}
    BY <1>1, <2>1 DEF Chained, ChainedAt
  <2>5. PrevOf(h, e) # NoCell => own[R(PrevOf(h, e))] = R(Lists!Parent(h, PrevOf(h, e)))
    BY <1>3, <2>4
  <2> HIDE DEF own
  <2> QED BY <1>5, <2>2, <2>3, <2>4, <2>5
<1>9. \A d \in now : Lists!Parent(g, d) = R(Lists!Parent(h, O(d)))
  <2>1. \A d \in now : Lists!Parent(g, d) = own[d]
    <3> HIDE DEF own
    <3> QED BY <1>2, <1>3, <1>6, <1>7, <1>8, ParentsAre
  <2> QED BY <2>1
<1>10. Apart(g, now)
  <2>1. ASSUME NEW d \in now PROVE R(Lists!Parent(h, O(d))) # d
    <3>1. O(d) \in used /\ R(O(d)) = d /\ Lists!Parent(h, O(d)) # O(d)
      BY <1>1, <1>3 DEF Apart
    <3>2. Lists!Parent(h, O(d)) \in used \cup {NoCell}
      BY <3>1, ParentInUse
    <3> QED BY <1>1, <1>3, <3>1, <3>2
  <2> QED BY <1>9, <2>1 DEF Apart
<1>11. \A d \in used : Lists!Parent(g, R(d)) = R(Lists!Parent(h, d))
  BY <1>3, <1>9
<1> QED BY <1>2, <1>6, <1>7, <1>10, <1>11, LinkedIs DEF g, R, now

\* The ownership tree of Talloc that the lists of a heap stand for; the null
\* context counts as none.
Tree(h, used, null) ==
    [d \in Cells |-> IF d \notin used THEN Free
                     ELSE [is |-> "temp",
                           in |-> IF Lists!Parent(h, d) \in {NoCell, null} THEN "top"
                                  ELSE Lists!Parent(h, d)]]

\* A chunk without a child has no children.
LEMMA NoChildren ==
    ASSUME NEW h, IsMemory(h), NEW used \in SUBSET Cells, Lists!Linked(h, used),
           NEW c \in used, ChildOf(h, c) = NoCell, NEW d \in used
    PROVE  Lists!Parent(h, d) # c
<1> DEFINE below == {e \in used : Lists!Parent(h, e) = c}
<1>1. Chained(h, used) /\ HasFirst(h, used) /\ NoCell \notin Cells /\ c \in Cells
  BY LinkedIs, TallocAssumption
<1> SUFFICES ASSUME below # {} PROVE FALSE
  OBVIOUS
<1>2. PICK e \in below : PrevOf(h, e) \notin below
  <2>1. below \in (SUBSET used) \ {{}}
    OBVIOUS
  <2> HIDE DEF below
  <2> QED BY <1>1, <2>1 DEF HasFirst
<1>3. e \in used /\ e \in Cells /\ Lists!Parent(h, e) = c
  OBVIOUS
<1>4. c = IF PrevOf(h, e) = NoCell THEN ParentOf(h, e) ELSE Lists!Parent(h, PrevOf(h, e))
  BY <1>3, ParentStep
<1>5. PrevOf(h, e) # NoCell => PrevOf(h, e) \in used
  BY <1>1, <1>3 DEF Chained, ChainedAt
<1>6. PrevOf(h, e) = NoCell /\ ParentOf(h, e) = c
  BY <1>2, <1>4, <1>5
<1> QED BY <1>1, <1>3, <1>6 DEF Chained, ChainedAt

\* Relinking a chunk is talloc_steal of the tree: no chunk leaves the tree but
\* by stealing it into what lies below it.
THEOREM RelinkStealsInTree ==
    ASSUME NEW h, IsMemory(h), NEW used \in SUBSET Cells, Lists!Linked(h, used), NEW null,
           NEW c \in used, NEW new \in used \cup {NoCell}, new # c
    PROVE  LET p == IF new \in {NoCell, null} THEN "top" ELSE new
               t == Tree(h, used, null)
               s == Tree(Lists!Relink(h, new, c), used, null)
           IN  /\ s = TallocSteal(t, p, c)
               /\ Forest(t) /\ p \notin Subtree(t, c) => Forest(s) /\ Subtree(s, c) = Subtree(t, c)
<1> DEFINE p == IF new \in {NoCell, null} THEN "top" ELSE new
           t == Tree(h, used, null)
           r == Lists!Relink(h, new, c)
           s == Tree(r, used, null)
<1>1. \A d \in used : Lists!Parent(r, d) = IF d = c THEN new ELSE Lists!Parent(h, d)
  BY RelinkKeepsLists
<1>2. c \in Cells /\ t[c] = [is |-> "temp", in |-> t[c].in]
  BY DEF Tree
<1>3. [t[c] EXCEPT !.in = p] = [is |-> "temp", in |-> p]
  BY <1>2
<1>4. s = TallocSteal(t, p, c)
  <2> HIDE DEF r
  <2>1. \A d \in Cells : s[d] = IF d = c THEN [is |-> "temp", in |-> p] ELSE t[d]
    BY <1>1 DEF Tree
  <2>2. TallocSteal(t, p, c) = [t EXCEPT ![c] = [is |-> "temp", in |-> p]]
    BY <1>3 DEF TallocSteal
  <2>3. t = [d \in Cells |-> t[d]] /\ s = [d \in Cells |-> s[d]]
    BY DEF Tree
  <2> HIDE DEF t, s, p
  <2> QED BY <2>1, <2>2, <2>3
<1>5. ASSUME Forest(t), p \notin Subtree(t, c) PROVE Forest(s) /\ Subtree(s, c) = Subtree(t, c)
  <2>1. t[c].is # "free" /\ p \in Cells \cup {"player", "server", "top"}
    BY <1>2
  <2>2. p \in Cells => t[p].is # "free"
    <3>1. p \in Cells => p \in used
      BY TallocAssumption
    <3> QED BY <3>1 DEF Tree
  <2> HIDE DEF t, s, p
  <2> QED BY <1>2, <1>4, <1>5, <2>1, <2>2, StealMovesTheTree
<1> QED BY <1>4, <1>5

\* Freeing a chunk without children is talloc_free of the tree.
THEOREM FreeFreesInTree ==
    ASSUME NEW h, IsMemory(h), NEW used \in SUBSET Cells, Lists!Linked(h, used), NEW null,
           NEW c \in used, ChildOf(h, c) = NoCell,
           NEW g, IsMemory(g), Agree(g, Lists!Unlink(h, c), used \ {c})
    PROVE  Tree(g, used \ {c}, null) = TallocFree(Tree(h, used, null), c)
<1> DEFINE t == Tree(h, used, null)
           s == Tree(g, used \ {c}, null)
           live == {d \in Cells : t[d].is # "free"}
<1>1. \A d \in used \ {c} : Lists!Parent(g, d) = Lists!Parent(h, d)
  BY FreeKeepsLists
<1>2. \A d \in live : t[d].in # c
  <2>1. live \subseteq used
    BY DEF Tree, Free
  <2>2. c # "top"
    BY TallocAssumption
  <2>3. \A d \in used : Lists!Parent(h, d) # c
    BY NoChildren
  <2> QED BY <2>1, <2>2, <2>3 DEF Tree
<1>3. Subtree(t, c) = {c}
  <2> HIDE DEF t
  <2>1. \A d \in live : t[d].in \in {} \cup {c} => d \in {}
    BY <1>2
  <2> QED BY <2>1 DEF Subtree
<1>4. \A d \in Cells : s[d] = IF d = c THEN Free ELSE t[d]
  BY <1>1 DEF Tree
<1>5. s = [d \in Cells |-> s[d]]
  BY DEF Tree
<1> HIDE DEF t, s
<1>6. TallocFree(t, c) = [d \in Cells |-> s[d]]
  BY <1>3, <1>4 DEF TallocFree
<1> QED BY <1>5, <1>6 DEF t, s

=============================================================================
