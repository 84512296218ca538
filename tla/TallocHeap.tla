---------------------------- MODULE TallocHeap -----------------------------
(***************************************************************************)
(* The chunks of the vendored talloc (src/talloc/talloc.c), pointer by     *)
(* pointer; TallocLists has the lists of siblings.  A reference is a chunk *)
(* of its own, the handle, below the context that holds it.  Chunks may    *)
(* lie in pools, and memory may be limited.  A heap is a record, each      *)
(* function of talloc.c an operator from heaps to heaps, so that the calls *)
(* one function makes can be followed one after the other.  Sizes count    *)
(* units of 8 bytes, so that aligning to 16 rounds odd sizes up; a header  *)
(* is shorter than in C.                                                   *)
(***************************************************************************)
EXTENDS TallocLists, Integers, FiniteSets, Sequences

CONSTANT Limits         \* the memory limits there can be

ASSUME HeapAssumption == IsFiniteSet(Chunks) /\ NULL \notin Limits

TC_HDR_SIZE == 2
TP_HDR_SIZE == 2
TC_ALIGN16(n) == 2 * ((n + 1) \div 2)

\* is: "dead" is a pool that was freed while some of its members live.
FreeChunk ==
    [is |-> "free", next |-> NULL, prev |-> NULL, parent |-> NULL,
     child |-> NULL, refs |-> << >>, destructor |-> "none", ptr |-> NULL,
     name |-> NULL, size |-> 0, loop |-> FALSE, limit |-> NULL,
     pool |-> NULL, at |-> 0, poolsize |-> 0, end |-> 0, count |-> 0]

FreeLimit == [parent |-> NULL, upper |-> NULL, max |-> 0, cur |-> 0]

EmptyHeap == [chunk |-> [c \in Chunks |-> FreeChunk],
              limit |-> [l \in Limits |-> FreeLimit],
              null |-> NULL, autofree |-> NULL, aborted |-> FALSE]

Live(h) == {c \in Chunks : h.chunk[c].is = "live"}

Or(x, default) == IF x = NULL THEN default ELSE x

-----------------------------------------------------------------------------
(* Parents and references. *)

RECURSIVE IsParent(_, _, _, _)

IsParent(h, c, ptr, depth) ==
    /\ c # NULL /\ depth > 0
    /\ c = ptr \/ IsParent(h, Parent(h, c), ptr, depth - 1)

talloc_reference_destructor_none(h, handle) == h

talloc_reference_destructor(h, handle) ==
    LET Other(x) == x # handle IN
    [h EXCEPT !.chunk[h.chunk[handle].ptr].refs = SelectSeq(@, Other)]

-----------------------------------------------------------------------------
(* Memory limits: a chain of counters, each of a context and all below. *)

RECURSIVE talloc_memlimit_check(_, _, _), Adjust(_, _, _)

talloc_memlimit_check(h, l, size) ==
    l = NULL \/ ( /\ \/ h.limit[l].max = 0
                     \/ h.limit[l].max - h.limit[l].cur >= size
                  /\ talloc_memlimit_check(h, h.limit[l].upper, size) )

\* talloc_memlimit_grow, and talloc_memlimit_shrink, which aborts below zero.
Adjust(h, l, size) ==
    IF l = NULL \/ h.aborted THEN h
    ELSE IF h.limit[l].cur + size < 0 THEN [h EXCEPT !.aborted = TRUE]
    ELSE Adjust([h EXCEPT !.limit[l].cur = @ + size], h.limit[l].upper, size)

talloc_memlimit_update_on_free(h, c) ==
    LET k == h.chunk[c]
        pools == IF k.poolsize > 0 THEN TP_HDR_SIZE ELSE 0
        less == Adjust(h, k.limit, 0 - (k.size + TC_HDR_SIZE + pools))
    IN  IF k.limit = NULL \/ k.pool # NULL THEN h
        ELSE IF h.limit[k.limit].parent = c
             THEN [less EXCEPT !.limit[k.limit] = FreeLimit]
             ELSE less

\* What malloc gave to a chunk; the memory of a pool counts with the pool.
Footprint(h, c) ==
    LET k == h.chunk[c] IN
    IF k.pool # NULL \/ k.ptr # NULL THEN 0
    ELSE TC_HDR_SIZE + IF k.poolsize > 0 THEN k.poolsize + TP_HDR_SIZE ELSE k.size

\* Counts what lies below a list of siblings, and moves it from one limit to
\* another on the way: the heap and the total.
RECURSIVE TotalLimit(_, _, _, _), TotalLimits(_, _, _, _)

TotalLimit(h, c, old, new) ==
    LET moves == old # NULL \/ new # NULL
        l == h.chunk[c].limit
        up == IF moves /\ l # NULL /\ h.limit[l].upper = old
              THEN [h EXCEPT !.limit[l].upper = new] ELSE h
        own == IF moves /\ l = old THEN [up EXCEPT !.chunk[c].limit = new] ELSE up
        below == TotalLimits(own, h.chunk[c].child, old, new)
    IN  IF l # NULL /\ l # old /\ h.limit[l].parent = c
        THEN [heap |-> up, total |-> h.limit[l].cur]
        ELSE [heap |-> below.heap, total |-> Footprint(h, c) + below.total]

TotalLimits(h, c, old, new) ==
    IF c = NULL THEN [heap |-> h, total |-> 0]
    ELSE LET one  == TotalLimit(h, c, old, new)
             rest == TotalLimits(one.heap, h.chunk[c].next, old, new)
         IN  [heap |-> rest.heap, total |-> one.total + rest.total]

talloc_set_memlimit(h, ctx, max) ==
    LET l == h.chunk[ctx].limit
        new == CHOOSE x \in Limits : h.limit[x] = FreeLimit
        fresh == [h EXCEPT !.limit[new] = [parent |-> ctx, upper |-> NULL,
                                           max |-> max, cur |-> 0]]
        counted == TotalLimit(fresh, ctx, l, new)
    IN  IF l # NULL /\ h.limit[l].parent = ctx
        THEN [h EXCEPT !.limit[l].max = max]
        ELSE [counted.heap EXCEPT !.limit[new].cur = counted.total,
                                  !.limit[new].upper = l]

-----------------------------------------------------------------------------
(* Pools: members lie behind each other up to end; count has the pool too. *)

tc_next_chunk(h, c) ==
    h.chunk[c].at + TC_ALIGN16(TC_HDR_SIZE + h.chunk[c].size)

\* Offsets in a pool count from behind the header of the pool's chunk.
tc_pool_first_chunk(h, p) == TC_ALIGN16(h.chunk[p].size)

tc_pool_space_left(h, p) == h.chunk[p].poolsize - h.chunk[p].end

\* The pool that children of a chunk are taken from.
PoolFor(h, c) ==
    IF c = NULL THEN NULL ELSE IF h.chunk[c].poolsize > 0 THEN c ELSE h.chunk[c].pool

\* Offset of a new member, or -1.
talloc_alloc_pool(h, p, size, prefix) ==
    IF p # NULL /\ tc_pool_space_left(h, p) >= TC_ALIGN16(size + prefix)
    THEN h.chunk[p].end + prefix ELSE -1

\* Chunk c is new: in the pool of its parent if there is room, or of malloc.
talloc_with_prefix(h, context, c, size, prefix) ==
    LET ctx == Or(context, h.null)
        l == IF ctx = NULL THEN NULL ELSE h.chunk[ctx].limit
        p == PoolFor(h, ctx)
        at == talloc_alloc_pool(h, p, TC_HDR_SIZE + size, prefix)
        total == TC_HDR_SIZE + size + prefix
        chunk == [FreeChunk EXCEPT !.is = "live", !.size = size, !.limit = l]
        placed == IF at >= 0
                  THEN [h EXCEPT !.chunk[p].end = @ + TC_ALIGN16(total),
                                 !.chunk[p].count = @ + 1,
                                 !.chunk[c] = [chunk EXCEPT !.pool = p, !.at = at]]
                  ELSE Adjust([h EXCEPT !.chunk[c] = chunk], l, total)
    IN  IF at < 0 /\ ~talloc_memlimit_check(h, l, total) THEN h
        ELSE IF ctx = NULL THEN placed ELSE PutFirst(placed, ctx, c)

talloc_pool(h, context, c, size) ==
    LET new == talloc_with_prefix(h, context, c, size, TP_HDR_SIZE) IN
    IF new = h THEN h
    ELSE [new EXCEPT !.chunk[c].size = 0, !.chunk[c].poolsize = size,
                     !.chunk[c].count = 1]

\* An object that is a pool for n more, of the given total size.
talloc_pooled_object(h, context, c, size, n, total) ==
    LET slack == (TC_HDR_SIZE + TP_HDR_SIZE + 1) * (n + 1)
        new == talloc_pool(h, context, c, size + total + slack)
    IN  IF new = h THEN h
        ELSE [new EXCEPT !.chunk[c].size = size, !.chunk[c].end = TC_ALIGN16(size)]

RECURSIVE talloc_free_poolmem(_, _)

talloc_free_poolmem(h, c) ==
    LET p == h.chunk[c].pool
        k == h.chunk[p]
        left == [h EXCEPT !.chunk[c] = FreeChunk, !.chunk[p].count = @ - 1]
    IN  CASE k.count = 0 -> [h EXCEPT !.aborted = TRUE]
          [] k.count = 2 /\ k.is = "live" ->
                 [left EXCEPT !.chunk[p].end = tc_pool_first_chunk(h, p)]
          [] k.count = 1 ->
                 IF k.pool # NULL THEN talloc_free_poolmem(left, p)
                 ELSE [talloc_memlimit_update_on_free(left, p)
                         EXCEPT !.chunk[p] = FreeChunk]
          [] k.count > 2 \/ (k.count = 2 /\ k.is = "dead") ->
                 IF k.end = tc_next_chunk(h, c)
                 THEN [left EXCEPT !.chunk[p].end = h.chunk[c].at] ELSE left

Release_freesMembers(h, c) ==
    IF h.chunk[c].pool # NULL THEN talloc_free_poolmem(h, c)
    ELSE [talloc_memlimit_update_on_free(h, c) EXCEPT !.chunk[c] = FreeChunk]

\* The end of talloc_free: memory goes back, that of a pool with its last member.
Release(h, c) ==
    LET k == h.chunk[c]
        dead == [h EXCEPT !.chunk[c].is = "dead", !.chunk[c].loop = FALSE,
                          !.chunk[c].count = @ - 1]
    IN  IF k.poolsize > 0 /\ k.count = 0 THEN [h EXCEPT !.aborted = TRUE]
        ELSE IF k.poolsize > 0 /\ k.count > 1 THEN dead
        ELSE IF k.pool # NULL THEN talloc_free_poolmem(h, c)
        ELSE [talloc_memlimit_update_on_free(h, c) EXCEPT !.chunk[c] = FreeChunk]

-----------------------------------------------------------------------------
(* Stealing. *)

\* What a chunk takes from the limits above its own when it leaves.
LeaveLimit(h, c) ==
    LET l == h.chunk[c].limit
        less == Adjust(h, h.limit[l].upper, 0 - TotalLimit(h, c, NULL, NULL).total)
    IN  IF l = NULL THEN h
        ELSE IF h.limit[l].parent = c THEN [less EXCEPT !.limit[l].upper = NULL]
        ELSE [less EXCEPT !.chunk[c].limit = NULL]

JoinLimit_uncounted(h, new, c) ==
    IF h.chunk[c].limit = NULL /\ h.chunk[new].limit = NULL THEN h
    ELSE TotalLimit(h, c, h.chunk[c].limit, h.chunk[new].limit).heap

JoinLimit(h, new, c) ==
    LET l == h.chunk[new].limit
        moved == TotalLimit(h, c, h.chunk[c].limit, l)
    IN  IF h.chunk[c].limit = NULL /\ l = NULL THEN h
        ELSE Adjust(moved.heap, l, moved.total)

talloc_steal_internal(h, ctx, c) ==
    LET new == Or(ctx, h.null)
        left == LeaveLimit(h, c)
        relinked == Relink(left, new, c)
    IN  IF new \in {NULL, c, h.chunk[c].parent} THEN relinked
        ELSE JoinLimit(relinked, new, c)

-----------------------------------------------------------------------------
(* Freeing.  The operators return the heap and talloc_free's result. *)

RECURSIVE free_internal(_, _), free_children_internal(_, _), unlink_at(_, _, _, _)

Result(h, ret) == [heap |-> h, ret |-> ret]

\* talloc_unreference: frees the handle below ctx, if there is one.
HandlesBelow(h, ctx, c) == {i \in DOMAIN h.chunk[c].refs : Parent(h, h.chunk[c].refs[i]) = ctx}

talloc_unreference(h, ctx, c) ==
    LET i == CHOOSE i \in HandlesBelow(h, ctx, c) :
                 \A j \in HandlesBelow(h, ctx, c) : i <= j
    IN  IF HandlesBelow(h, ctx, c) = {} THEN Result(h, -1)
        ELSE free_internal(h, h.chunk[c].refs[i])

talloc_unlink(h, context, c) ==
    LET ctx == Or(context, h.null) IN unlink_at(h, ctx, c, HandlesBelow(h, ctx, c))

unlink_at(h, ctx, c, handles) ==
    LET refs == h.chunk[c].refs
        heir == Parent(h, Head(refs))
        dropped == talloc_unreference(h, Or(heir, h.null), c)
    IN  IF handles # {} THEN talloc_unreference(h, ctx, c)
        ELSE IF ctx # Parent(h, c) THEN Result(h, -1)
        ELSE IF refs = << >> THEN free_internal(h, c)
        ELSE IF dropped.ret # 0 THEN Result(h, -1)
        ELSE Result(talloc_steal_internal(dropped.heap, heir, c), 0)

talloc_free(h, c) ==
    LET refs == h.chunk[c].refs IN
    IF refs = << >> THEN free_internal(h, c)
    ELSE IF Len(refs) = 1 /\ Parent(h, c) = h.null THEN talloc_unlink(h, h.null, c)
    ELSE Result(h, -1)

\* "busy" marks a destructor that is running; "refuses" returns -1, and
\* "frees_parent" frees the chunk above before it returns.
Destroy(h, c) ==
    LET d == h.chunk[c].destructor
        busy == [h EXCEPT !.chunk[c].destructor = "busy"]
    IN  CASE d = "none"                 -> Result(h, 0)
          [] d \in {"busy", "refuses"}  -> Result(h, -1)
          [] d = "reference"            -> Result(talloc_reference_destructor(h, c), 0)
          [] d = "autofree"             -> Result([h EXCEPT !.autofree = NULL], 0)
          [] d = "frees_parent"         ->
                 IF Parent(busy, c) \in {NULL, h.null} THEN Result(h, 0)
                 ELSE Result(talloc_free(busy, Parent(busy, c)).heap, 0)

BackReference_always(h, c) == TRUE

\* The first reference on c comes from below c.
BackReference(h, c) == IsParent(h, Head(h.chunk[c].refs), c, Cardinality(Chunks))

free_internal(h, c) ==
    LET k == h.chunk[c]
        dropped == free_internal(h, Head(k.refs)).heap
        destroyed == Destroy(h, c)
        alone == Unlink([destroyed.heap EXCEPT !.chunk[c].destructor = "none"], c)
        below == free_children_internal([alone EXCEPT !.chunk[c].loop = TRUE], c)
    IN  IF k.refs # << >>
        THEN IF BackReference(h, c) THEN free_internal(dropped, c)
             ELSE Result(dropped, -1)
        ELSE IF k.loop THEN Result(h, 0)
        ELSE IF destroyed.ret = -1 THEN destroyed
        ELSE Result(Release(below, c), 0)

\* A child that cannot be freed goes to the owner of its first reference, or
\* to its grandparent, or to the null context.
free_children_internal(h, c) ==
    LET child == h.chunk[c].child
        refs == h.chunk[child].refs
        owner == IF refs = << >> THEN NULL ELSE Parent(h, Head(refs))
        freed == free_internal(h, child)
        above == IF Or(owner, h.null) = h.null
                 THEN Or(Parent(freed.heap, c), h.null) ELSE owner
    IN  IF child = NULL THEN h
        ELSE IF freed.ret = 0 THEN free_children_internal(freed.heap, c)
        ELSE free_children_internal(
                 talloc_steal_internal(freed.heap, above, child), c)

\* The chunk that holds the context's name is kept, if it is a child.
talloc_free_children(h, c) ==
    LET name == h.chunk[c].name
        named == name # NULL /\ h.chunk[name].is = "live" /\ Parent(h, name) = c
    IN  IF ~named THEN free_children_internal(h, c)
        ELSE PutFirst(free_children_internal(Unlink(h, name), c), c, name)

-----------------------------------------------------------------------------
(* Changing the size.  new is the address if the chunk moves. *)

\* In a pool.  The space needed is a size_t, which for a chunk that shrinks wraps
\* to more than any pool has left.
ReallocInPool(h, c, size, new) ==
    LET k == h.chunk[c]
        p == k.pool
        old == TC_ALIGN16(TC_HDR_SIZE + k.size)
        needed == TC_ALIGN16(TC_HDR_SIZE + size)
        alone == h.chunk[p].count = IF h.chunk[p].is = "live" THEN 2 ELSE 1
        start == tc_pool_first_chunk(h, p)
        room == talloc_alloc_pool(h, p, TC_HDR_SIZE + size, 0)
        copy == [k EXCEPT !.size = size, !.name = NULL]
        inside == [h EXCEPT !.chunk[p].end = @ + needed, !.chunk[p].count = @ + 1]
    IN  IF alone /\ h.chunk[p].poolsize - start >= needed
        THEN   MoveTo([h EXCEPT !.chunk[p].end = start + needed,
                                !.chunk[c] = IF k.at = start THEN @ ELSE FreeChunk],
                      [copy EXCEPT !.at = start], IF k.at = start THEN c ELSE new)
        ELSE IF needed = old THEN [h EXCEPT !.chunk[c].size = size]
        ELSE IF ~alone /\ tc_next_chunk(h, c) = h.chunk[p].end
                       /\ needed >= old /\ tc_pool_space_left(h, p) >= needed - old
        THEN   [h EXCEPT !.chunk[c].size = size, !.chunk[p].end = @ + needed - old]
        ELSE IF room >= 0
        THEN   MoveTo(talloc_free_poolmem(inside, c), [copy EXCEPT !.at = room], new)
        ELSE   Adjust(MoveTo(talloc_free_poolmem(h, c),
                             [copy EXCEPT !.pool = NULL, !.at = 0], new), k.limit, size)

\* realloc: moves from one address to another, or not.
ReallocMalloced(h, c, size, new) ==
    LET k == h.chunk[c]
        gone == [h EXCEPT !.chunk[c] = IF new = c THEN @ ELSE FreeChunk]
    IN  Adjust(MoveTo(gone, [k EXCEPT !.size = size, !.name = NULL], new),
               k.limit, size - k.size)

\* Referenced chunks and pools are refused; to shrink gains less than 1 kB.
Resize(h, c, size, new) ==
    LET k == h.chunk[c]
        shrunk == [h EXCEPT !.chunk[c].size = size]
        ends == k.pool # NULL /\ tc_next_chunk(h, c) = h.chunk[k.pool].end
    IN  IF \/ k.refs # << >> \/ k.poolsize > 0 \/ size = k.size
           \/ size > k.size /\ ~talloc_memlimit_check(h, k.limit, size - k.size)
        THEN h
        ELSE IF size < k.size /\ k.limit = NULL
        THEN IF ends THEN [shrunk EXCEPT !.chunk[k.pool].end = tc_next_chunk(shrunk, c)]
             ELSE shrunk
        ELSE IF k.pool # NULL THEN ReallocInPool(h, c, size, new)
        ELSE ReallocMalloced(h, c, size, new)

talloc_realloc(h, context, c, size, new) ==
    IF size = 0 THEN talloc_unlink(h, context, c).heap ELSE Resize(h, c, size, new)

=============================================================================
