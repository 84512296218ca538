------------------------------- MODULE Vector -------------------------------
(***************************************************************************)
(* The growing array of src/vector.c.  data maps the indices there is      *)
(* memory for to their elements; it is NULL where it maps none.            *)
(***************************************************************************)
EXTENDS Integers

CONSTANT Junk       \* what uninitialised memory holds

VECTOR_INITIAL_CAPACITY == 1

NULL == [k \in {} |-> Junk]

\* A mutant of vector_realloc that loses the elements.
vector_realloc_empty(vector, ok) ==
    [vector EXCEPT !.capacity = 2 * @,
                   !.data = IF ok THEN [k \in 0 .. 2 * vector.capacity - 1 |-> Junk] ELSE NULL]

\* The capacity is doubled, and data replaced, also where the reallocation
\* fails (ok is FALSE).
vector_realloc(vector, ok) ==
    [vector EXCEPT !.capacity = 2 * @,
                   !.data = IF ok THEN [k \in 0 .. 2 * vector.capacity - 1 |->
                       IF k \in DOMAIN vector.data THEN vector.data[k] ELSE Junk] ELSE NULL]

\* Nobody looks whether vector_new got memory for the elements.
vector_new(ok) ==
    vector_realloc([size |-> 0, capacity |-> VECTOR_INITIAL_CAPACITY, data |-> NULL], ok)

Full(vector) == vector.size >= vector.capacity

\* vector_set: an index behind the end is ignored.  Writing where there is no
\* memory kills the process.
vector_set(vector, index, data) ==
    CASE index > vector.size -> [res |-> "ok", vec |-> vector]
      [] index <= vector.size /\ index \notin DOMAIN vector.data ->
            [res |-> "crash", vec |-> vector]
      [] OTHER -> [res |-> "ok", vec |-> [vector EXCEPT !.data[index] = data]]

\* The index expression counts the element before vector_set writes it (vector.c:103);
\* nothing looks at the vector in between.
vector_push_back(vector, data, ok) ==
    LET room == IF Full(vector) THEN vector_realloc(vector, ok) ELSE vector
        set  == vector_set(room, vector.size, data)
    IN IF Full(vector) /\ ~ ok THEN [res |-> "error", vec |-> room]
       ELSE [set EXCEPT !.vec.size = IF set.res = "ok" THEN @ + 1 ELSE @]

\* vector_get: NULL behind the end, which it looks for one element too late.
vector_get(vector, index, none) ==
    CASE index > vector.size -> [res |-> "ok", element |-> none]
      [] index <= vector.size /\ index \notin DOMAIN vector.data -> [res |-> "crash"]
      [] OTHER -> [res |-> "ok", element |-> vector.data[index]]

\* vector_delete has no body.
vector_delete(vector, ptr) == vector

=============================================================================
