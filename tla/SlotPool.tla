------------------------------ MODULE SlotPool ------------------------------
(***************************************************************************)
(* What the server promises about player slots, without bitmaps, handles   *)
(* or callbacks: a slot has at most one owner, a client owns at most one   *)
(* slot, and a slot is handed out again only after its owner gave it up.   *)
(* The Server module is shown to implement this specification.             *)
(***************************************************************************)
EXTENDS Integers

CONSTANTS Conns,        \* the clients
          MaxPlayers,   \* how many slots there are
          NoPlayer      \* the owner of a free slot

VARIABLE owner          \* the owner of each slot

Slots == 0 .. MaxPlayers - 1

Owns(c) == \E s \in Slots : owner[s] = c

Init == owner = [s \in Slots |-> NoPlayer]

Acquire(c, s) == /\ owner[s] = NoPlayer
                 /\ ~ Owns(c)
                 /\ owner' = [owner EXCEPT ![s] = c]

Release(s) == /\ owner[s] # NoPlayer
              /\ owner' = [owner EXCEPT ![s] = NoPlayer]

Next == \/ \E c \in Conns, s \in Slots : Acquire(c, s)
        \/ \E s \in Slots : Release(s)

Spec == Init /\ [][Next]_owner
=============================================================================
