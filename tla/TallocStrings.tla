---------------------------- MODULE TallocStrings ---------------------------
(***************************************************************************)
(* Strings and arrays in talloc's chunks (talloc.c:2190-2541), beside the  *)
(* other programs of TallocChunks: use = "strings".  text is the memory of *)
(* a chunk that holds a string, character by character; a character is as  *)
(* long as a unit of size, and "?" is memory that nothing was written to.  *)
(* A string's name is the string itself.  meant is history: what the       *)
(* caller of these functions has put together.                             *)
(***************************************************************************)
EXTENDS TallocChunks, SequencesExt

CONSTANTS Texts,            \* that are copied or appended
          MAX_TALLOC_SIZE,
          MaxStrings        \* at a time

VARIABLES text, meant

svars == <<heap, use, text, meant>>

ASSUME StringsAssumption ==
    /\ Texts \subseteq Seq({"a", "b"})
    /\ MAX_TALLOC_SIZE \in Nat \ {0} /\ MaxStrings \in Nat

NUL == "0"

strlen(s) == (CHOOSE i \in DOMAIN s : s[i] = NUL /\ \A j \in 1 .. i - 1 : s[j] # NUL) - 1

Says(s) == SubSeq(s, 1, strlen(s))

Strings == {c \in Chunks : text[c] # << >>}

StringsInit == /\ Init
               /\ text = [c \in Chunks |-> << >>]
               /\ meant = [c \in Chunks |-> << >>]

\* Chunks that are gone have no text.
Forget == /\ text' = [c \in Chunks |-> IF c \in Live(heap') THEN text[c] ELSE << >>]
          /\ meant' = [c \in Chunks |-> IF c \in Live(heap') THEN meant[c] ELSE << >>]

-----------------------------------------------------------------------------
(* New chunks.  Without memory nothing changes. *)

\* A chunk of memory s, for a string that says says.
New(ctx, s, says, name) ==
    LET c == Address
        h == talloc_with_prefix(heap, ctx, c, Len(s), 0)
    IN  /\ c # NULL /\ Len(s) < MAX_TALLOC_SIZE
        /\ Cardinality(Strings) < MaxStrings
        /\ Call([h EXCEPT !.chunk[c].name = IF name = "itself" THEN c ELSE NULL])
        /\ text' = [text EXCEPT ![c] = s]
        /\ meant' = [meant EXCEPT ![c] = says]

\* talloc_strdup and, for a part of a text, talloc_strndup.
talloc_strlendup(ctx, p) == New(ctx, Append(p, NUL), p, "itself")

\* What is formatted is measured first.
talloc_vasprintf(ctx, p) == New(ctx, Append(p, NUL), p, "itself")

talloc_memdup(ctx, p) == New(ctx, Append(p, NUL), p, "type")

\* talloc_zero and talloc_zero_array; the length of an array may be too much.
talloc_zero_array(ctx, el_size, count) ==
    /\ count < MAX_TALLOC_SIZE \div el_size
    /\ New(ctx, [i \in 1 .. el_size * count |-> NUL], << >>, "type")

-----------------------------------------------------------------------------
(* Changes. *)

\* What the memory of a chunk holds after realloc: the part both sizes have
\* stays, behind it is what malloc left there.
Resized(s, n) == [i \in 1 .. n |-> IF i <= Len(s) THEN s[i] ELSE "?"]

Moved(h, c, new) == IF new # c /\ h.chunk[new].is = "live" THEN new ELSE c

Changeable(c, el_size, count, new) ==
    /\ count < MAX_TALLOC_SIZE \div el_size
    /\ new # NULL
    /\ heap.chunk[c].pool # NULL => new = Or(Address, c)

\* The caller changes the size itself, and leaves the string its end.
talloc_realloc_array(c, el_size, count, new) ==
    LET h == Resize(heap, c, el_size * count, new)
        at == Moved(h, c, new)
    IN  /\ Changeable(c, el_size, count, new)
        /\ el_size * count > strlen(text[c])
        /\ Call(h)
        /\ text' = [text EXCEPT ![c] = << >>, ![at] = Resized(text[c], el_size * count)]
        /\ meant' = [meant EXCEPT ![c] = << >>, ![at] = meant[c]]

\* __talloc_strlendup_append and __talloc_vaslenprintf_append.
strlendup_append(c, slen, a, says, new) ==
    LET h == Resize(heap, c, slen + Len(a) + 1, new)
        at == Moved(h, c, new)
    IN  /\ Changeable(c, 1, slen + Len(a) + 1, new)
        /\ Call([h EXCEPT !.chunk[at].name = at])
        /\ text' = [text EXCEPT ![c] = << >>,
                                ![at] = SubSeq(text[c], 1, slen) \o a \o <<NUL>>]
        /\ meant' = [meant EXCEPT ![c] = << >>, ![at] = says]

talloc_strdup_append(c, a, new) ==
    strlendup_append(c, strlen(text[c]), a, meant[c] \o a, new)

\* Formatting nothing changes nothing, where strdup_append cuts off what is
\* behind the string.
talloc_vasprintf_append(c, a, new) ==
    a # << >> /\ strlendup_append(c, strlen(text[c]), a, meant[c] \o a, new)

\* A mutant of BufferEnd that keeps the end of the string.
BufferEnd_wholeSize(c) == heap.chunk[c].size

BufferEnd(c) == heap.chunk[c].size - 1

\* What a string says changes by what is appended to its buffer if it ends there.
Extended(c, a) == IF strlen(text[c]) = Len(text[c]) - 1 THEN meant[c] \o a ELSE meant[c]

talloc_strdup_append_buffer(c, a, new) ==
    strlendup_append(c, BufferEnd(c), a, Extended(c, a), new)

talloc_vasprintf_append_buffer(c, a, new) ==
    a # << >> /\ strlendup_append(c, BufferEnd(c), a, Extended(c, a), new)

\* The caller ends a string earlier.
Cut(c) ==
    /\ meant[c] # << >>
    /\ text' = [text EXCEPT ![c][1] = NUL]
    /\ meant' = [meant EXCEPT ![c] = << >>]
    /\ UNCHANGED <<heap, use>>

-----------------------------------------------------------------------------

StringProgram ==
    /\ use = "strings"
    /\ \/ \E ctx \in Contexts :
           \/ \E p \in Texts : talloc_strlendup(ctx, p) \/ talloc_vasprintf(ctx, p)
                               \/ talloc_memdup(ctx, p)
           \/ \E el_size \in {1, 2}, count \in {1} : talloc_zero_array(ctx, el_size, count)
       \/ \E c \in Strings, new \in Chunks \cup {NULL} :
           /\ new \in {c, Address}
           /\ \/ \E el_size \in {1, 2}, count \in 1 .. MAX_TALLOC_SIZE :
                     talloc_realloc_array(c, el_size, count, new)
              \/ \E a \in Texts : \/ talloc_strdup_append(c, a, new)
                                  \/ talloc_vasprintf_append(c, a, new)
                                  \/ talloc_strdup_append_buffer(c, a, new)
                                  \/ talloc_vasprintf_append_buffer(c, a, new)
       \/ \E c \in Strings : Cut(c)

\* Bound: one pool, and one address that a string can move to.
Bounded == use = "strings" =>
               /\ Vacant # {}
               /\ \A c, d \in Live(heap) : heap.chunk[c].poolsize > 0 /\ heap.chunk[d].poolsize > 0 => c = d

StringsNext == ((Next /\ Forget) \/ StringProgram) /\ Bounded'

StringsSpec == StringsInit /\ [][StringsNext]_svars

-----------------------------------------------------------------------------
(* Names. *)

talloc_get_name(c) ==
    LET name == heap.chunk[c].name IN
    IF heap.chunk[c].ptr # NULL THEN <<".reference">>
    ELSE IF name = NULL THEN <<"type">>
    ELSE IF name \in Strings THEN Says(text[name]) ELSE <<"name">>

talloc_check_name(c, name) == talloc_get_name(c) = name

RECURSIVE talloc_find_parent_byname(_, _)
talloc_find_parent_byname(c, name) ==
    IF c = NULL THEN NULL
    ELSE IF talloc_check_name(c, name) THEN c
    ELSE talloc_find_parent_byname(Parent(heap, c), name)

\* A string says what was put together, through moves by realloc, into a pool
\* or out of it, cuts, and appends behind its end or behind its buffer; its
\* chunk is as long as its memory; and its name is itself at its own address
\* or its type, so that what is below finds it by what it says (talloc.c:2218-
\* 2466 and :2586-2605).
StringsSay ==
    \A c \in Strings :
        /\ c \in Live(heap)
        /\ Len(text[c]) = heap.chunk[c].size
        /\ Says(text[c]) = meant[c]
        /\ heap.chunk[c].name \in {NULL, c}
        /\ heap.chunk[c].name = c =>
             \A d \in Subtree(c) : talloc_find_parent_byname(d, meant[c]) \in Subtree(c)

=============================================================================
