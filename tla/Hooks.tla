-------------------------------- MODULE Hooks --------------------------------
(***************************************************************************)
(* The hooks of src/hook.c: for each event the vector of the callbacks     *)
(* that were registered for it, which are called one after the other when  *)
(* the server announces the event.  A callback is code of a plugin: it may *)
(* return an error, register further callbacks, and cause another event    *)
(* (closing a player that joined makes it leave) before it returns.        *)
(***************************************************************************)
EXTENDS Vector, Sequences, SequencesExt

CONSTANTS Events,           \* player_join and player_leave
          Callbacks,
          NoCallback,       \* NULL
          MaxRegistered,    \* bound on the callbacks of an event,
          MaxDepth,         \* on events inside of events,
          MaxFaults         \* and on failing allocations

ASSUME HooksAssumption == /\ IsFiniteSet(Events)
                          /\ NoCallback \notin Callbacks /\ Junk \notin Callbacks \cup {NoCallback}
                          /\ {MaxRegistered, MaxDepth, MaxFaults} \subseteq Nat

VARIABLES
    up,         \* FALSE once the process has died
    vec,        \* on_player_join_vec and on_player_leave_vec, empty before
                \* hook_context_new has succeeded
    frames,     \* the calls of hook_on_<event> that have not returned; refused is
                \* the number of the callback that returned an error, or 0
    registered, \* per event, the callbacks that were registered, in order
    lost,       \* whether an element could not be registered
    faults      \* failed allocations so far

hooksVars == << up, vec, frames, registered, lost, faults >>

Ready == vec # << >>

HooksInit == /\ up = TRUE
             /\ vec = << >>
             /\ frames = << >>
             /\ registered = [e \in Events |-> << >>]
             /\ lost = FALSE
             /\ faults = 0

-----------------------------------------------------------------------------
(* Allocations: one that fails uses up a fault.                            *)

Allocate(ok) == /\ faults' = IF ok THEN faults ELSE faults + 1
                /\ faults' <= MaxFaults

\* hook_context_new, with or without memory for the elements of a vector.
hook_context_new(ok) ==
    /\ ~ Ready
    /\ faults + Cardinality({e \in Events : ~ ok[e]}) <= MaxFaults
    /\ faults' = faults + Cardinality({e \in Events : ~ ok[e]})
    /\ vec' = [e \in Events |-> vector_new(ok[e])]
    /\ UNCHANGED << up, frames, registered, lost >>

\* The other allocations: on the way out all of the context is freed.
ContextFails ==
    /\ ~ Ready
    /\ Allocate(FALSE)
    /\ UNCHANGED << up, vec, frames, registered, lost >>

-----------------------------------------------------------------------------
(* hook_<event>_register and _deregister, by the game when nothing runs or *)
(* by the callback that runs.  The result of vector_push_back is dropped.  *)

Running == frames # << >> => ~ Last(frames).done

Register(event, callback, ok) ==
    LET push == vector_push_back(vec[event], callback, ok) IN
    /\ up /\ Ready /\ Running
    /\ vec[event].size < MaxRegistered
    /\ Full(vec[event]) \/ ok
    /\ Allocate(ok)
    /\ up' = (push.res # "crash")
    /\ vec' = [vec EXCEPT ![event] = push.vec]
    /\ registered' = IF push.res = "ok"
                     THEN [registered EXCEPT ![event] = Append(@, callback)]
                     ELSE registered
    /\ lost' = (lost \/ push.res = "error")
    /\ UNCHANGED frames

Deregister(event, callback) ==
    /\ up /\ Ready /\ Running
    /\ vec' = [vec EXCEPT ![event] = vector_delete(vec[event], callback)]
    /\ UNCHANGED << up, frames, registered, lost, faults >>

-----------------------------------------------------------------------------
(* hook_on_player_join and hook_on_player_leave.                           *)

\* A call begins, from the server or from the callback that runs.
Announce(event) ==
    /\ up /\ Ready /\ Running
    /\ Len(frames) < MaxDepth
    /\ frames' = Append(frames, [event |-> event, i |-> 0, called |-> << >>, done |-> FALSE,
                                 refused |-> 0])
    /\ UNCHANGED << up, vec, registered, lost, faults >>

Top == Last(frames)

ReplaceTop(frame) == frames' = Append(Front(frames), frame)

\* A mutant of CallNext that goes on after an error.
CallNext_goesOn(cb_ret) ==
    LET get == vector_get(vec[Top.event], Top.i, NoCallback) IN
    /\ up /\ frames # << >>
    /\ ~ Top.done
    /\ Top.i < vec[Top.event].size
    /\ up' = (get.res # "crash" /\ get.element # Junk)
    /\ IF up' /\ get.element # NoCallback
       THEN ReplaceTop([Top EXCEPT !.i = @ + 1, !.called = Append(@, get.element),
                                   !.refused = IF cb_ret < 0 THEN Len(Top.called) + 1 ELSE @])
       ELSE ReplaceTop([Top EXCEPT !.i = @ + 1])
    /\ UNCHANGED << vec, registered, lost, faults >>

\* A round of the loop: NULL is skipped, and an error ends the loop.
CallNext(cb_ret) ==
    LET get == vector_get(vec[Top.event], Top.i, NoCallback) IN
    /\ up /\ frames # << >>
    /\ ~ Top.done
    /\ Top.i < vec[Top.event].size
    /\ up' = (get.res # "crash" /\ get.element # Junk)
    /\ IF up' /\ get.element # NoCallback
       THEN ReplaceTop([Top EXCEPT !.i = @ + 1, !.called = Append(@, get.element),
                                   !.done = cb_ret < 0,
                                   !.refused = IF cb_ret < 0 THEN Len(Top.called) + 1 ELSE 0])
       ELSE ReplaceTop([Top EXCEPT !.i = @ + 1])
    /\ UNCHANGED << vec, registered, lost, faults >>

\* i has come to the size.
LoopEnds ==
    /\ up /\ frames # << >>
    /\ ~ Top.done
    /\ Top.i >= vec[Top.event].size
    /\ ReplaceTop([Top EXCEPT !.done = TRUE])
    /\ UNCHANGED << up, vec, registered, lost, faults >>

\* The call returns.
HookReturns ==
    /\ up /\ frames # << >>
    /\ Top.done
    /\ frames' = Front(frames)
    /\ UNCHANGED << up, vec, registered, lost, faults >>

HooksNext ==
    \/ \E ok \in [Events -> BOOLEAN] : hook_context_new(ok)
    \/ ContextFails
    \/ \E e \in Events, c \in Callbacks \cup {NoCallback} :
          \/ \E ok \in BOOLEAN : Register(e, c, ok)
          \/ Deregister(e, c)
    \/ \E e \in Events : Announce(e)
    \/ \E cb_ret \in {-1, 0} : CallNext(cb_ret)
    \/ LoopEnds
    \/ HookReturns

\* The hooks by themselves.
HooksSpec == HooksInit /\ [][HooksNext]_hooksVars

-----------------------------------------------------------------------------
(* Properties.                                                             *)

Elements(e) == IF Ready THEN [k \in 1 .. vec[e].size |-> vec[e].data[k - 1]] ELSE << >>

\* How many of the first k of the sequence s are not NULL.
Count(s, k) == Cardinality({j \in 1 .. k : s[j] # NoCallback})

\* Of the first k callbacks of s all were called that are not NULL, in their order.
Calls(called, s, k) ==
    /\ Len(called) = Count(s, k)
    /\ \A j \in 1 .. k : s[j] # NoCallback => called[Count(s, j)] = s[j]

TypeOK == /\ up \in BOOLEAN
          /\ Ready => \A e \in Events :
                /\ vec[e].size \in 0 .. vec[e].capacity
                /\ DOMAIN vec[e].data \in {{}, 0 .. vec[e].capacity - 1}
          /\ Len(frames) <= MaxDepth
          /\ registered \in [Events -> Seq(Callbacks \cup {NoCallback})]
          /\ lost \in BOOLEAN
          /\ faults \in 0 .. MaxFaults

\* An event reaches its callbacks in the order of their registration, each
\* once, up to the first that returns an error and otherwise all of them, those
\* included that a callback has registered meanwhile (hook.c:87-105).
CalledInOrder ==
    \A d \in DOMAIN frames :
        LET frame == frames[d]
            all   == registered[frame.event]
        IN  /\ \E k \in 0 .. Len(all) : Calls(frame.called, all, k)
            /\ frame.refused # 0 => Len(frame.called) = frame.refused
            /\ d = Len(frames) /\ frame.done /\ frame.refused = 0 =>
                  Calls(frame.called, all, Len(all))

\* As long as there is memory the process survives any order of registrations
\* and events, and no callback is lost; and a vector that grew, also while its
\* callbacks were running, has kept its elements in order, unless the
\* reallocation failed (vector.c:63-76 and :93-106).
NothingLostWithMemory ==
    /\ TypeOK
    /\ faults = 0 => up /\ ~ lost
    /\ Ready => \A e \in Events : vec[e].data # NULL => Elements(e) = registered[e]

-----------------------------------------------------------------------------
(* The inductive invariant of ProcessProofs.                               *)

\* A vector has memory for its capacity, or none, and holds the elements of s.
Holds(vector, s) ==
    /\ vector = [size |-> vector.size, capacity |-> vector.capacity, data |-> vector.data]
    /\ vector.size = Len(s)
    /\ vector.capacity \in Nat \ {0} /\ vector.size <= vector.capacity
    /\ vector.data = NULL => vector.size < vector.capacity
    /\ vector.data # NULL =>
          /\ vector.data = [k \in 0 .. vector.capacity - 1 |-> vector.data[k]]
          /\ \A k \in 1 .. vector.size : vector.data[k - 1] = s[k]

\* A call whose loop is at i has called what was registered before, and nothing was
\* refused until then; a call that another one interrupts is not done.
CallSound(d) ==
    LET frame == frames[d]
        all   == registered[frame.event]
    IN  /\ frame.i \in 0 .. Len(all)
        /\ Calls(frame.called, all, frame.i)
        /\ ~ frame.done => frame.refused = 0
        /\ frame.refused # 0 => Len(frame.called) = frame.refused
        /\ frame.done => d = Len(frames)
        /\ frame.done /\ frame.refused = 0 => frame.i = Len(all)

FrameType == [event : Events, i : Nat, called : Seq(Callbacks), done : BOOLEAN, refused : Nat]

IInv == /\ TypeOK
        /\ frames \in Seq(FrameType)
        /\ IF Ready
           THEN /\ vec = [e \in Events |-> vec[e]]
                /\ \A e \in Events : Holds(vec[e], registered[e])
                /\ faults = 0 => \A e \in Events : vec[e].data # NULL
           ELSE up /\ frames = << >> /\ registered = [e \in Events |-> << >>]
        /\ faults = 0 => up /\ ~ lost
        /\ up => \A d \in DOMAIN frames : CallSound(d)
        /\ CalledInOrder

=============================================================================
