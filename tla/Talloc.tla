------------------------------- MODULE Talloc -------------------------------
(***************************************************************************)
(* The memory of messages (the vendored src/talloc/talloc.c): every        *)
(* allocation has a parent, talloc_steal changes it, and talloc_free frees *)
(* a whole subtree.  A heap maps each cell to what it holds and to its     *)
(* parent: a cell, "player" (the struct player), "server", or "top"        *)
(* (allocated under NULL).  References, pools, limits and destructors are  *)
(* TallocHeap's subject: what is allocated for a message has none of them. *)
(***************************************************************************)
EXTENDS Integers, FiniteSets

CONSTANTS Cells,        \* the allocations that fit in memory
          NoCell        \* NULL

ASSUME TallocAssumption == /\ IsFiniteSet(Cells)
                           /\ \A c \in Cells : c \notin {NoCell, "player", "server", "top"}
                           /\ NoCell \notin {"player", "server", "top"}

Kinds == {"free", "temp", "packet", "body", "text", "reply"}

Heaps == [Cells -> [is : Kinds, in : Cells \cup {"player", "server", "top"}]]

Free == [is |-> "free", in |-> "top"]

EmptyHeap == [c \in Cells |-> Free]

\* The allocations in the subtree of parent p, and p itself: what lies in every
\* set that holds all the allocations right below its members and below p.
Subtree(h, p) ==
    LET live == {c \in Cells : h[c].is # "free"} IN
    {p} \cup {c \in live :
                \A S \in SUBSET live :
                    (\A d \in live : h[d].in \in S \cup {p} => d \in S) => c \in S}

\* talloc: a free cell with parent p, or NULL when memory is exhausted.
TallocNew(h, kind, p) ==
    IF \E c \in Cells : h[c].is = "free"
    THEN LET c == CHOOSE c \in Cells : h[c].is = "free" IN
         [heap |-> [h EXCEPT ![c] = [is |-> kind, in |-> p]], cell |-> c]
    ELSE [heap |-> h, cell |-> NoCell]

TallocSteal(h, p, c) == [h EXCEPT ![c].in = p]

TallocFree(h, p) ==
    LET gone == Subtree(h, p) IN
    [c \in Cells |-> IF c \in gone THEN Free ELSE h[c]]

=============================================================================
