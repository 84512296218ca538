---------------------------- MODULE TallocChunks ---------------------------
(***************************************************************************)
(* Programs that use talloc: any sequence of its calls, on live pointers.  *)
(* use says which part of the interface a program uses beside the plain    *)
(* calls: references and destructors, pools, or memory limits.             *)
(***************************************************************************)
EXTENDS TallocHeap, FiniteSetsExt, Functions

CONSTANTS Uses,             \* the parts of the interface that are used
          Sizes,            \* of chunks
          PoolSizes, LimitSizes,
          StringPools,      \* sizes of pools that strings are in
          MaxDestructors,   \* chunks with a destructor at a time
          BackReferences    \* are back references used where they lose memory?

VARIABLES heap, use

vars == <<heap, use>>

Parts == {"references", "null tracking", "pools", "limits", "strings"}

ASSUME ChunksAssumption ==
    /\ Uses \subseteq Parts
    /\ Sizes \subseteq Nat \ {0} /\ PoolSizes \cup StringPools \cup LimitSizes \subseteq Nat
    /\ MaxDestructors \in Nat /\ BackReferences \in BOOLEAN

\* What a program changes: no handles, no names, and not the null context.
Objects == {c \in Live(heap) : heap.chunk[c].ptr = NULL}
           \ ({heap.null} \cup {heap.chunk[c].name : c \in {d \in Live(heap) : heap.chunk[d].name # d}})

Contexts == Objects \cup {NULL}

\* Where the next chunk will be: addresses are used again.
Vacant == {c \in Chunks : heap.chunk[c].is = "free"}

Address == IF Vacant = {} THEN NULL ELSE CHOOSE c \in Vacant : TRUE

\* Sizes matter in pools and below limits only.
SizesBelow(c) ==
    IF use \in {"pools", "limits"} /\ (PoolFor(heap, c) # NULL \/ (c # NULL /\ heap.chunk[c].limit # NULL))
    THEN Sizes ELSE {1}

Subtree(c) == {d \in Live(heap) : IsParent(heap, d, c, Cardinality(Chunks))}

\* Back references: from below the chunk that is referred to.  Such a chunk gets
\* lost when others refer to it as well, when a destructor refuses, or when its
\* own parent gives it up: it goes to the owner of its first reference, which
\* is below itself.
Inner(h, c) == {i \in DOMAIN h.chunk[c].refs :
                   IsParent(h, h.chunk[c].refs[i], c, Cardinality(Chunks))}

Holders(h, c) == {Parent(h, r) : r \in {c} \cup Range(h.chunk[c].refs)} \ {NULL}

RECURSIVE Above(_, _, _)
Above(h, S, n) ==
    IF n = 0 THEN S ELSE Above(h, S \cup UNION {Holders(h, c) : c \in S}, n - 1)

\* Nothing holds itself, or nothing refuses to go.
Sensible(h) ==
    \/ BackReferences
    \/ \A c \in Live(h) :
        /\ c \notin Above(h, Holders(h, c), Cardinality(Chunks))
        /\ h.chunk[c].refs # << >> => h.chunk[c].destructor # "refuses"
    \/ \A c \in Live(h) :
        /\ Inner(h, c) \in {{}, DOMAIN h.chunk[c].refs}
        /\ h.chunk[c].destructor \notin {"refuses", "frees_parent"}

KeepsReachable(ctx, c) ==
    BackReferences \/ 1 \notin Inner(heap, c) \/ Parent(heap, c) # Or(ctx, heap.null)

Init == heap = EmptyHeap /\ use \in Uses

Call(h) == heap' = h /\ UNCHANGED use

-----------------------------------------------------------------------------
(* Plain calls. *)

talloc(ctx, size) ==
    /\ Address # NULL
    /\ Call(talloc_with_prefix(heap, ctx, Address, size, 0))

\* talloc_named and talloc_init: the name is a child, without memory for
\* which the chunk is freed again.
talloc_named(ctx) ==
    LET c == Address
        named == [talloc_with_prefix(heap, ctx, c, 1, 0) EXCEPT !.chunk[c].name =
                     IF Vacant = {c} THEN NULL ELSE CHOOSE d \in Vacant \ {c} : TRUE]
        name == named.chunk[c].name
    IN  /\ use = "null tracking" /\ c # NULL
        /\ Call(IF name = NULL THEN free_internal(named, c).heap
                ELSE talloc_with_prefix(named, c, name, 1, 0))

Free(c) == KeepsReachable(NULL, c) /\ Call(talloc_free(heap, c).heap)

\* No child's destructor frees c itself: the loop would go on in freed memory.
FreeChildren(c) ==
    /\ \A d \in Live(heap) : heap.chunk[d].destructor = "frees_parent" => Parent(heap, d) # c
    /\ Call(talloc_free_children(heap, c))

\* Not below itself; a chunk with a limit stays where it is.
Steal(ctx, c) ==
    /\ ctx \notin Subtree(c)
    /\ heap.chunk[c].limit = NULL
    /\ Call(talloc_steal_internal(heap, ctx, c))
    /\ Sensible(heap')

\* Contexts that talloc itself points to are not moved by realloc; for strings
\* TallocStrings says what becomes of their text.
Realloc(ctx, c, size, new) ==
    /\ use # "strings"
    /\ c # heap.autofree /\ \A l \in Limits : heap.limit[l].parent # c
    /\ heap.chunk[c].pool # NULL => new = Or(Address, c)
    /\ size = 0 => KeepsReachable(ctx, c)
    /\ Call(IF new = NULL THEN heap ELSE talloc_realloc(heap, ctx, c, size, new))

-----------------------------------------------------------------------------
(* References and destructors. *)

\* Destructors that a program sets; at most MaxDestructors at a time.
SetDestructor(c, d) ==
    /\ use = "references"
    /\ Cardinality({x \in Objects : heap.chunk[x].destructor # "none"}) < MaxDestructors
    /\ heap.chunk[c].destructor = "none"
    /\ Call([heap EXCEPT !.chunk[c].destructor = d])
    /\ Sensible(heap')

talloc_reference(ctx, c) ==
    LET handle == Address
        new == talloc_with_prefix(heap, ctx, handle, 1, 0)
    IN  /\ use \in {"references", "null tracking"} /\ handle # NULL
        /\ Call([new EXCEPT !.chunk[handle].destructor = "reference",
                            !.chunk[handle].ptr = c,
                            !.chunk[c].refs = <<handle>> \o @])
        /\ Sensible(heap')

\* The null context holds one more reference.
talloc_increase_ref_count(c) == talloc_reference(NULL, c)

UnlinkContext(ctx, c) ==
    /\ use \in {"references", "null tracking"}
    /\ KeepsReachable(ctx, c)
    /\ Call(talloc_unlink(heap, ctx, c).heap)

\* The old parent may be the holder of a reference, whose handle moves.
talloc_reparent(old, new, c) ==
    LET refs == heap.chunk[c].refs
        held == {i \in DOMAIN refs : Parent(heap, refs[i]) = old}
        moved == IF Parent(heap, c) = old THEN c ELSE refs[Min(held)]
    IN  /\ use = "references"
        /\ Parent(heap, c) = old \/ held # {}
        /\ new \notin Subtree(moved)
        /\ Call(talloc_steal_internal(heap, new, moved))
        /\ Sensible(heap')

talloc_autofree_context ==
    /\ use = "null tracking" /\ heap.autofree = NULL /\ Address # NULL
    /\ Call([talloc_with_prefix(heap, NULL, Address, 0, 0) EXCEPT
               !.autofree = Address, !.chunk[Address].destructor = "autofree"])

talloc_enable_null_tracking ==
    LET c == Address
        new == [talloc_with_prefix(heap, NULL, c, 0, 0) EXCEPT !.null = c]
        a == heap.autofree
    IN  /\ use = "null tracking" /\ heap.null = NULL /\ c # NULL
        /\ Call(IF a # NULL /\ Parent(heap, a) = NULL
                THEN talloc_steal_internal(new, c, a) ELSE new)

talloc_disable_null_tracking ==
    LET n == heap.null
    IN  /\ use = "null tracking" /\ n # NULL
        /\ Call([talloc_free(Orphan(heap, n), n).heap EXCEPT !.null = NULL])

-----------------------------------------------------------------------------
(* Pools and limits. *)

Pool(ctx, size) ==
    /\ use \in {"pools", "strings"} /\ Address # NULL
    /\ Call(talloc_pool(heap, ctx, Address, size))

PooledObject(ctx, size) ==
    /\ use = "pools" /\ Address # NULL
    /\ Call(talloc_pooled_object(heap, ctx, Address, 1, 0, size))

SetMemlimit(c, max) ==
    /\ use = "limits"
    /\ \E l \in Limits : heap.limit[l] = FreeLimit
    /\ Call(talloc_set_memlimit(heap, c, max))

Next ==
    \/ \E ctx \in Contexts :
        \/ \E size \in SizesBelow(ctx) : talloc(ctx, size)
        \/ talloc_named(ctx)
        \/ \E size \in IF use = "strings" THEN StringPools ELSE PoolSizes :
               Pool(ctx, size) \/ PooledObject(ctx, size)
        \/ \E c \in Objects : \/ Steal(ctx, c)
                              \/ ctx # NULL /\ talloc_reference(ctx, c)
                              \/ UnlinkContext(ctx, c)
                              \/ \E new \in Contexts : talloc_reparent(ctx, new, c)
    \/ \E c \in Objects :
        \/ Free(c) \/ FreeChildren(c) \/ talloc_increase_ref_count(c)
        \/ \E size \in SizesBelow(c) \cup {0}, new \in {c, Address} : Realloc(NULL, c, size, new)
        \/ \E d \in {"refuses", "frees_parent"} : SetDestructor(c, d)
        \/ \E max \in LimitSizes : SetMemlimit(c, max)
    \/ talloc_autofree_context
    \/ talloc_enable_null_tracking \/ talloc_disable_null_tracking

Spec == Init /\ [][Next]_vars

-----------------------------------------------------------------------------
(* Reports: the chunks from c on, and what they hold. *)

RECURSIVE talloc_report_depth_cb(_, _, _), ReportList(_, _, _),
          talloc_total_blocks(_), BlocksOf(_), talloc_total_size(_), SizeOf(_)

\* What the callback is given, in order; max_depth is -1 for all depths.
talloc_report_depth_cb(c, depth, max_depth) ==
    <<[of |-> c, depth |-> depth, is_ref |-> FALSE]>> \o
    (IF max_depth >= 0 /\ depth >= max_depth THEN << >>
     ELSE ReportList(heap.chunk[c].child, depth + 1, max_depth))

\* A handle stands for what it refers to.
ReportList(c, depth, max_depth) ==
    LET k == heap.chunk[c] IN
    IF c = NULL THEN << >>
    ELSE (IF k.ptr # NULL THEN <<[of |-> k.ptr, depth |-> depth, is_ref |-> TRUE]>>
          ELSE talloc_report_depth_cb(c, depth, max_depth))
         \o ReportList(k.next, depth, max_depth)

talloc_total_blocks(c) == 1 + BlocksOf(heap.chunk[c].child)

BlocksOf(c) == IF c = NULL THEN 0 ELSE talloc_total_blocks(c) + BlocksOf(heap.chunk[c].next)

talloc_total_size(c) ==
    (IF heap.chunk[c].ptr # NULL THEN 0 ELSE heap.chunk[c].size) + SizeOf(heap.chunk[c].child)

SizeOf(c) == IF c = NULL THEN 0 ELSE talloc_total_size(c) + SizeOf(heap.chunk[c].next)

talloc_reference_count(c) == Len(heap.chunk[c].refs)

\* The full report of a tree tells of each of its chunks once, and of each
\* reference to a chunk once, wherever it is held; the totals agree with it.
Reports(c) ==
    LET report == talloc_report_depth_cb(c, 0, -1)
        Entries(b) == SelectSeq(report, LAMBDA e : e.is_ref = b)
    IN  /\ {Entries(FALSE)[i].of : i \in DOMAIN Entries(FALSE)}
             = {d \in Subtree(c) : heap.chunk[d].ptr = NULL}
        /\ Len(report) = Cardinality(Subtree(c))
        /\ talloc_total_blocks(c) = Len(report)
        /\ talloc_total_size(c) =
             MapThenSumSet(LAMBDA d : IF heap.chunk[d].ptr = NULL THEN heap.chunk[d].size ELSE 0,
                           Subtree(c))

-----------------------------------------------------------------------------
(* Properties. *)

TypeOK ==
    /\ use \in Uses
    /\ heap.null \in Chunks \cup {NULL} /\ heap.autofree \in Chunks \cup {NULL}
    /\ \A c \in Chunks :
        LET k == heap.chunk[c] IN
        /\ k.is \in {"free", "live", "dead"}
        /\ {k.next, k.prev, k.parent, k.child, k.name, k.ptr, k.pool}
             \subseteq Chunks \cup {NULL}
        /\ k.refs \in Seq(Chunks) /\ k.limit \in Limits \cup {NULL}
        /\ {k.size, k.at, k.end, k.count, k.poolsize} \subseteq Nat

\* The pointers of live chunks lead to live chunks and back, only the first of
\* siblings knows the parent, no chunk is below itself, and the list of
\* references on a chunk has the handles that point to it: what _TLIST_ADD and
\* _TLIST_REMOVE and the repairs around them are to keep, in free, steal,
\* realloc, and when the null context comes and goes, and so that a report of
\* the memory tells of every chunk and of every reference once.
ListsAreSound ==
    /\ TypeOK
    /\ Linked(heap, Live(heap))
    /\ \A c \in Live(heap) :
           LET k == heap.chunk[c] IN
           /\ ~IsParent(heap, Parent(heap, c), c, Cardinality(Chunks))
           /\ ~k.loop /\ k.destructor # "busy"
           /\ Range(k.refs) = {r \in Live(heap) : heap.chunk[r].ptr = c}
           /\ talloc_reference_count(c) = Cardinality(Range(k.refs))
           /\ k.ptr # NULL => k.ptr \in Live(heap)
           /\ k.ptr = NULL /\ Parent(heap, c) = NULL => Reports(c)

\* "The pointer remains valid until both the original caller and this given
\* context are freed" (_talloc_reference_loc), or the context's children are.
\* References of the null context do not count for free_children_internal.
ReferencesKeepAlive ==
    [][\A r \in Live(heap) :
         LET c == heap.chunk[r].ptr
             ctx == Parent(heap, r)
         IN  c # NULL /\ c \notin Live(heap') =>
             ctx \in {NULL, heap.null} \/ ctx \notin Live(heap') \/ FreeChildren(ctx)]_vars

\* What Talloc promises of the calls on chunks without references and
\* destructors below them: the ownership tree of the other modules.
Ownership == INSTANCE Talloc WITH Cells <- Chunks, NoCell <- NULL

Owned(h) == [c \in Chunks |->
    IF c \notin Live(h) THEN Ownership!Free
    ELSE [is |-> "temp", in |-> IF Parent(h, c) \in {NULL, h.null} THEN "top" ELSE Parent(h, c)]]

Plain(c) == \A d \in Subtree(c) :
    heap.chunk[d].refs = << >> /\ heap.chunk[d].destructor = "none"

KeepsTalloc ==
    \A c \in Objects :
        /\ Plain(c) => Owned(talloc_free(heap, c).heap) = Ownership!TallocFree(Owned(heap), c)
        /\ \A p \in Objects \ Subtree(c) : heap.chunk[c].limit = NULL =>
             Owned(talloc_steal_internal(heap, p, c)) = Ownership!TallocSteal(Owned(heap), p, c)

\* Members of a pool lie in its memory, which is there, behind each other, and
\* its counter knows how many: a free, a steal out of the pool, a realloc or
\* the reuse of the pool's memory gives no two of them the same place.
Members(p) == {c \in Chunks : heap.chunk[c].is # "free" /\ heap.chunk[c].pool = p}

Place(c) ==
    LET k == heap.chunk[c] IN
    IF k.poolsize > 0 THEN (k.at - TP_HDR_SIZE) .. (k.at + TC_HDR_SIZE + k.poolsize - 1)
    ELSE k.at .. (k.at + TC_HDR_SIZE + k.size - 1)

PoolsAreSound ==
    /\ ~heap.aborted
    /\ \A p \in Chunks :
        LET k == heap.chunk[p] IN
        /\ Members(p) # {} => k.is # "free" /\ k.poolsize > 0
        /\ k.poolsize > 0 =>
             /\ k.count = Cardinality(Members(p)) + IF k.is = "live" THEN 1 ELSE 0
             /\ k.end <= k.poolsize
             /\ \A c \in Members(p) :
                  /\ Place(c) \subseteq tc_pool_first_chunk(heap, p) .. (k.end - 1)
                  /\ \A d \in Members(p) \ {c} : Place(c) \cap Place(d) = {}

\* "cur_size is used to keep track of the current use": a limit counts what
\* malloc gave to the chunks below its context, as long as chunks with a limit
\* are not stolen.
RECURSIVE Chain(_)
Chain(l) == IF l = NULL THEN {} ELSE {l} \cup Chain(heap.limit[l].upper)

LimitsCount ==
    \A l \in Limits : heap.limit[l] # FreeLimit =>
        heap.limit[l].cur =
            MapThenSumSet(LAMBDA c : Footprint(heap, c),
                          {c \in Live(heap) : l \in Chain(heap.chunk[c].limit)})

=============================================================================
