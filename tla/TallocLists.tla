----------------------------- MODULE TallocLists -----------------------------
(***************************************************************************)
(* The lists of siblings in src/talloc/talloc.c.  They are doubly linked,  *)
(* and only the first chunk of a list points to the parent, so that a list *)
(* is taken over with one assignment; what is below a chunk is found from  *)
(* its child, and who is above it from the first of its list.  A heap is a *)
(* record with a chunk for each address; here only its pointers matter.    *)
(***************************************************************************)
CONSTANTS Chunks,       \* the addresses malloc and pools hand out
          NULL

ASSUME ListsAssumption == NULL \notin Chunks

\* if (c) c->f = v;
Put(h, c, f, v) == IF c = NULL THEN h ELSE [h EXCEPT !.chunk[c][f] = v]

First(h, c) ==
    LET first[d \in Chunks] == IF h.chunk[d].prev = NULL THEN d ELSE first[h.chunk[d].prev]
    IN  first[c]

Parent(h, c) == IF c = NULL THEN NULL ELSE h.chunk[First(h, c)].parent

Unlink_dropsSiblings(h, c) ==
    Put(Put(h, h.chunk[c].parent, "child", NULL), h.chunk[c].prev, "next", NULL)

\* Takes a chunk out of its list; the first one hands the parent on.
Unlink(h, c) ==
    LET k == h.chunk[c]
        gap == IF k.parent # NULL
               THEN Put(Put(Put(h, k.parent, "child", k.next),
                            k.next, "prev", NULL), k.next, "parent", k.parent)
               ELSE Put(Put(h, k.prev, "next", k.next), k.next, "prev", k.prev)
    IN  Put(Put(gap, c, "next", NULL), c, "prev", NULL)

PutFirst(h, p, c) ==
    LET old == h.chunk[p].child
        moved == Put(Put(h, old, "parent", NULL), old, "prev", c)
        linked == Put(Put(moved, c, "parent", p), c, "prev", NULL)
    IN  Put(Put(linked, c, "next", old), p, "child", c)

\* A chunk gets another parent, or none.
Relink(h, new, c) ==
    IF new = NULL THEN Put(Unlink(h, c), c, "parent", NULL)
    ELSE IF new \in {c, h.chunk[c].parent} THEN h
    ELSE PutFirst(Unlink(h, c), new, c)

\* The children of a chunk stay a list, without a parent.
Orphan(h, c) == Put(Put(h, h.chunk[c].child, "parent", NULL), c, "child", NULL)

\* The neighbours of a chunk that was copied to new point to the copy.
MoveTo(h, k, new) ==
    LET at == [h EXCEPT !.chunk[new] = k]
        up == Put(Put(at, k.parent, "child", new), k.child, "parent", new)
    IN  Put(Put(up, k.prev, "next", new), k.next, "prev", new)

\* The pointers of chunks in use lead to chunks in use and back, only the first
\* of siblings knows the parent, which is none of them, and every list has a
\* first chunk.
Linked(h, used) ==
    /\ \A c \in used :
           LET k == h.chunk[c] IN
           /\ {k.next, k.prev, k.parent, k.child} \subseteq used \cup {NULL}
           /\ k.next # NULL => h.chunk[k.next].prev = c
           /\ k.prev # NULL => h.chunk[k.prev].next = c /\ k.parent = NULL
           /\ k.child # NULL => h.chunk[k.child].prev = NULL /\ h.chunk[k.child].parent = c
           /\ k.parent # NULL => h.chunk[k.parent].child = c
           /\ Parent(h, c) # c
    /\ \A some \in (SUBSET used) \ {{}} : \E c \in some : h.chunk[c].prev \notin some

=============================================================================
