---------------------------- MODULE ServerProofs ----------------------------
(***************************************************************************)
(* Theorems about Server: its type correctness, its safety invariants and  *)
(* that it implements SlotPool, for any clients, any number of slots and   *)
(* any number of failing calls.                                            *)
(***************************************************************************)
EXTENDS Server, DataProofs

\* The slots fit in the bitmap (player_slots has room for GAME_MAX_PLAYERS).
LEMMA SlotsFit ==
    /\ NumWords \in Nat
    /\ \A s \in Slots : s \in Nat /\ s < NumWords * BitsPerWord
BY ServerAssumption DEF Slots, BitsPerWord

\* What bitmap_set does to game->player_slots, slot by slot.
LEMMA SetSlot ==
    ASSUME player_slots \in Bitmaps(NumWords), NEW s \in Slots
    PROVE  /\ BitmapSet(player_slots, s) \in Bitmaps(NumWords)
           /\ \A t \in Slots : BitmapGet(BitmapSet(player_slots, s), t)
                                 <=> t = s \/ BitmapGet(player_slots, t)
BY SlotsFit, SetSetsOneBit

\* What bitmap_clear does to game->player_slots, slot by slot.
LEMMA ClearSlot ==
    ASSUME player_slots \in Bitmaps(NumWords), NEW s \in Slots
    PROVE  /\ BitmapClear(player_slots, s) \in Bitmaps(NumWords)
           /\ \A t \in Slots : BitmapGet(BitmapClear(player_slots, s), t)
                                 <=> t # s /\ BitmapGet(player_slots, t)
BY SlotsFit, ClearClearsOneBit

LEMMA InitIInv == Init => IInv
<1> SUFFICES ASSUME Init PROVE IInv
  OBVIOUS
<1>1. player_slots \in Bitmaps(NumWords)
  BY ServerAssumption, ZeroedHasNoBit DEF Init
<1>2. 0 \in Slots
  BY ServerAssumption DEF Slots
<1>3. TypeOK
  BY <1>1, <1>2, ServerAssumption DEF Init, TypeOK
<1>4. NoDanglingPlayers /\ ReaderHasPlayer /\ ExclusiveSlots
  BY DEF Init, NoDanglingPlayers, ReaderHasPlayer, ExclusiveSlots
<1>5. LiveHasNotLeft /\ LiveHoldsSlot /\ WaitingIsFresh
  BY DEF Init, LiveHasNotLeft, LiveHoldsSlot, WaitingIsFresh
<1> QED BY <1>3, <1>4, <1>5 DEF IInv

\* The steps that give a new player a slot: player_new's part of them.
LEMMA PlayerNewKeeps ==
    ASSUME IInv, NEW c \in Conns, NEW s \in Slots,
           FindSlot(s), socket[c] = "backlog", PlayerNew(c, s),
           leaves' = leaves,
           NEW h \in {"none", "init", "reading"},
           handle' = [handle EXCEPT ![c] = h],
           NEW k \in {"open", "closed"},
           socket' = [socket EXCEPT ![c] = k],
           \/ h # "reading" /\ players' = players
           \/ players' = [players EXCEPT ![s] = c]
    PROVE  /\ player_slots' \in Bitmaps(NumWords)
           /\ NoDanglingPlayers'
           /\ ReaderHasPlayer'
           /\ ExclusiveSlots'
           /\ LiveHasNotLeft'
           /\ LiveHoldsSlot'
           /\ WaitingIsFresh'
<1> USE DEF IInv, TypeOK, PlayerNew, FindSlot
<1>1. /\ player_slots' \in Bitmaps(NumWords)
      /\ \A t \in Slots : BitmapGet(player_slots', t) <=> t = s \/ BitmapGet(player_slots, t)
  BY SetSlot
<1>2. \A d \in Conns : player[d] = "live" => id[d] # s
  BY DEF LiveHoldsSlot
<1>3. players[s] = NoPlayer
  BY DEF NoDanglingPlayers
<1>4. player[c] = "none" /\ handle[c] = "none" /\ leaves[c] = 0
  BY DEF WaitingIsFresh
<1>5. \A t \in Slots : players[t] # c
  BY <1>4, ServerAssumption DEF NoDanglingPlayers
<1>6. NoDanglingPlayers'
  <2> SUFFICES ASSUME NEW t \in Slots, players'[t] # NoPlayer
               PROVE  /\ player'[players'[t]] = "live"
                      /\ id'[players'[t]] = t
                      /\ BitmapGet(player_slots', t)
    BY DEF NoDanglingPlayers
  <2>1. CASE players'[t] = players[t]
    BY <1>1, <1>5, <2>1 DEF NoDanglingPlayers
  <2>2. CASE players'[t] # players[t]
    <3>1. t = s /\ players'[t] = c
      BY <2>2
    <3> QED BY <1>1, <3>1
  <2> QED BY <2>1, <2>2
<1>7. ReaderHasPlayer'
  <2> SUFFICES ASSUME NEW d \in Conns, handle'[d] = "reading"
               PROVE  player'[d] = "live" /\ players'[id'[d]] = d
    BY DEF ReaderHasPlayer
  <2>1. CASE d = c
    BY <2>1
  <2>2. CASE d # c
    BY <1>2, <2>2 DEF ReaderHasPlayer
  <2> QED BY <2>1, <2>2
<1>8. ExclusiveSlots'
  BY <1>2 DEF ExclusiveSlots
<1>9. LiveHasNotLeft'
  BY <1>4 DEF LiveHasNotLeft
<1>10. LiveHoldsSlot'
  BY <1>1 DEF LiveHoldsSlot
<1>11. WaitingIsFresh'
  BY DEF WaitingIsFresh
<1> QED BY <1>1, <1>6, <1>7, <1>8, <1>9, <1>10, <1>11

\* player_close, wherever it is called from, keeps the invariant.
LEMMA PlayerCloseKeeps ==
    ASSUME IInv, NEW c \in Conns, handle[c] = "reading", PlayerClose(c),
           UNCHANGED << up, listening, joins, faults >>
    PROVE  IInv'
<1> USE DEF IInv, TypeOK, PlayerClose, PlayerFree
<1>1. player[c] = "live" /\ players[id[c]] = c /\ id[c] \in Slots
  BY DEF ReaderHasPlayer
<1>2. /\ player_slots' \in Bitmaps(NumWords)
      /\ \A t \in Slots : BitmapGet(player_slots', t) <=> t # id[c] /\ BitmapGet(player_slots, t)
  BY <1>1, ClearSlot
<1>3. leaves[c] = 0
  BY <1>1 DEF LiveHasNotLeft
<1>4. \A d \in Conns : player[d] = "live" /\ d # c => id[d] # id[c]
  BY <1>1 DEF ExclusiveSlots
<1>5. TypeOK'
  BY <1>2
<1>6. NoDanglingPlayers'
  BY <1>1, <1>2 DEF NoDanglingPlayers
<1>7. ReaderHasPlayer'
  BY <1>4 DEF ReaderHasPlayer
<1>8. ExclusiveSlots'
  BY DEF ExclusiveSlots
<1>9. LiveHasNotLeft'
  BY <1>3 DEF LiveHasNotLeft
<1>10. LiveHoldsSlot'
  BY <1>2, <1>4 DEF LiveHoldsSlot
<1>11. WaitingIsFresh'
  BY DEF WaitingIsFresh
<1> QED BY <1>5, <1>6, <1>7, <1>8, <1>9, <1>10, <1>11

LEMMA NextIInv == IInv /\ [Next]_vars => IInv'
<1> SUFFICES ASSUME IInv, [Next]_vars PROVE IInv'
  OBVIOUS
<1> USE DEF IInv
<1>1. CASE ConnectionError
  BY <1>1, ServerAssumption
     DEF ConnectionError, Fault, objects, TypeOK, NoDanglingPlayers, ReaderHasPlayer,
         ExclusiveSlots, LiveHasNotLeft, LiveHoldsSlot, WaitingIsFresh
<1>2. ASSUME NEW c \in Conns, Connect(c)
      PROVE  IInv'
  <2> USE <1>2 DEF Connect, TypeOK
  <2>1. TypeOK'
    BY ServerAssumption
  <2>2. NoDanglingPlayers' /\ ReaderHasPlayer' /\ ExclusiveSlots' /\ LiveHoldsSlot'
    BY DEF NoDanglingPlayers, ReaderHasPlayer, ExclusiveSlots, LiveHoldsSlot
  <2>3. LiveHasNotLeft' /\ WaitingIsFresh'
    BY DEF LiveHasNotLeft, WaitingIsFresh
  <2> QED BY <2>1, <2>2, <2>3
<1>3. ASSUME NEW c \in Conns, Hangup(c)
      PROVE  IInv'
  BY <1>3 DEF Hangup, objects, TypeOK, NoDanglingPlayers, ReaderHasPlayer,
              ExclusiveSlots, LiveHasNotLeft, LiveHoldsSlot, WaitingIsFresh
<1>4. ASSUME NEW c \in Conns, RefuseConnection(c)
      PROVE  IInv'
  <2> USE <1>4 DEF RefuseConnection, Incoming, objects, TypeOK
  <2>1. listening' \in BOOLEAN
    BY Zenon
  <2>2. TypeOK'
    BY <2>1
  <2>3. NoDanglingPlayers' /\ ReaderHasPlayer' /\ ExclusiveSlots' /\ LiveHoldsSlot'
    BY DEF NoDanglingPlayers, ReaderHasPlayer, ExclusiveSlots, LiveHoldsSlot
  <2>4. LiveHasNotLeft' /\ WaitingIsFresh'
    BY DEF LiveHasNotLeft, WaitingIsFresh
  <2> QED BY <2>2, <2>3, <2>4
<1>5. ASSUME NEW c \in Conns, NEW s \in Slots, PlayerNewFails(c, s)
      PROVE  IInv'
  <2> USE <1>5 DEF PlayerNewFails, Incoming, Fault, FindSlot, TypeOK
  <2>1. /\ player_slots' \in Bitmaps(NumWords)
        /\ \A t \in Slots : BitmapGet(player_slots', t) <=> t = s \/ BitmapGet(player_slots, t)
    BY SetSlot
  <2>2. TypeOK'
    <3>1. listening' \in BOOLEAN
      BY Zenon
    <3>2. faults' \in 0 .. MaxFaults
      BY ServerAssumption
    <3> QED BY <2>1, <3>1, <3>2
  <2>3. NoDanglingPlayers' /\ LiveHoldsSlot'
    BY <2>1, ServerAssumption DEF NoDanglingPlayers, LiveHoldsSlot
  <2>4. ReaderHasPlayer' /\ ExclusiveSlots' /\ LiveHasNotLeft' /\ WaitingIsFresh'
    BY DEF ReaderHasPlayer, ExclusiveSlots, LiveHasNotLeft, WaitingIsFresh
  <2> QED BY <2>2, <2>3, <2>4
<1>6. ASSUME NEW c \in Conns, NEW s \in Slots, AcceptFails(c, s)
      PROVE  IInv'
  <2> USE <1>6 DEF AcceptFails, Incoming, Fault
  <2>1. /\ player_slots' \in Bitmaps(NumWords)
        /\ NoDanglingPlayers' /\ ReaderHasPlayer' /\ ExclusiveSlots'
        /\ LiveHasNotLeft' /\ LiveHoldsSlot' /\ WaitingIsFresh'
    BY PlayerNewKeeps
  <2>2. TypeOK'
    BY <2>1, ServerAssumption DEF TypeOK, PlayerNew
  <2> QED BY <2>1, <2>2
<1>7. ASSUME NEW c \in Conns, NEW s \in Slots, AcceptConnection(c, s)
      PROVE  IInv'
  <2> USE <1>7 DEF AcceptConnection, Incoming
  <2>1. /\ player_slots' \in Bitmaps(NumWords)
        /\ NoDanglingPlayers' /\ ReaderHasPlayer' /\ ExclusiveSlots'
        /\ LiveHasNotLeft' /\ LiveHoldsSlot' /\ WaitingIsFresh'
    BY PlayerNewKeeps
  <2>2. TypeOK'
    BY <2>1, ServerAssumption DEF TypeOK, PlayerNew
  <2> QED BY <2>1, <2>2
<1>8. ASSUME NEW c \in Conns, OnReadJoin(c)
      PROVE  IInv'
  BY <1>8, ServerAssumption
     DEF OnReadJoin, objects, TypeOK, NoDanglingPlayers, ReaderHasPlayer,
         ExclusiveSlots, LiveHasNotLeft, LiveHoldsSlot, WaitingIsFresh
<1>9. ASSUME NEW c \in Conns, OnReadEnd(c)
      PROVE  IInv'
  BY <1>9, PlayerCloseKeeps DEF OnReadEnd
<1>10. ASSUME NEW c \in Conns, OnReadError(c)
       PROVE  IInv'
  BY <1>10, PlayerCloseKeeps DEF OnReadError
<1>11. ASSUME NEW c \in Conns, OnHandleClose(c)
       PROVE  IInv'
  BY <1>11 DEF OnHandleClose, objects, TypeOK, NoDanglingPlayers, ReaderHasPlayer,
               ExclusiveSlots, LiveHasNotLeft, LiveHoldsSlot, WaitingIsFresh
<1>12. ASSUME NEW c \in Conns, NEW s \in Slots, HandleAllocFails(c, s)
       PROVE  IInv'
  <2> USE <1>12 DEF HandleAllocFails, Incoming, Fault
  <2>1. handle' = [handle EXCEPT ![c] = "none"]
    BY DEF IInv, TypeOK, WaitingIsFresh
  <2>2. /\ player_slots' \in Bitmaps(NumWords)
        /\ NoDanglingPlayers' /\ ReaderHasPlayer' /\ ExclusiveSlots'
        /\ LiveHasNotLeft' /\ LiveHoldsSlot' /\ WaitingIsFresh'
    BY <2>1, PlayerNewKeeps
  <2>3. up' \in BOOLEAN
    BY Zenon
  <2>4. TypeOK'
    BY <2>1, <2>2, <2>3, ServerAssumption DEF TypeOK, PlayerNew
  <2> QED BY <2>2, <2>4
<1>13. CASE UNCHANGED vars
  BY <1>13 DEF vars, TypeOK, NoDanglingPlayers, ReaderHasPlayer,
               ExclusiveSlots, LiveHasNotLeft, LiveHoldsSlot, WaitingIsFresh
<1>14. ASSUME NEW c \in Conns, OnConnection(c)
       PROVE  IInv'
  BY <1>4, <1>5, <1>6, <1>7, <1>12, <1>14 DEF OnConnection
<1> QED BY <1>1, <1>2, <1>3, <1>8, <1>9, <1>10, <1>11, <1>13, <1>14 DEF Next

\* The inductive invariant holds of every reachable state.
THEOREM Invariance == Spec => []IInv
<1>1. Init => IInv
  BY InitIInv
<1>2. IInv /\ [Next]_vars => IInv'
  BY NextIInv
<1> QED BY <1>1, <1>2, PTL DEF Spec

\* Every variable keeps its type, for any number of clients and slots.
THEOREM TypeCorrectness == Spec => []TypeOK
<1>1. IInv => TypeOK
  BY DEF IInv
<1> QED BY <1>1, Invariance, PTL

\* The entries of game->players never dangle, in any interleaving of
\* callbacks, hang-ups and failing calls.
THEOREM PlayersNeverDangle == Spec => []NoDanglingPlayers
<1>1. IInv => NoDanglingPlayers
  BY DEF IInv
<1> QED BY <1>1, Invariance, PTL

\* Every read callback finds a live player in its slot.
THEOREM CallbacksFindTheirPlayer == Spec => []ReaderHasPlayer
<1>1. IInv => ReaderHasPlayer
  BY DEF IInv
<1> QED BY <1>1, Invariance, PTL

\* No two player objects share a slot.
THEOREM SlotsAreExclusive == Spec => []ExclusiveSlots
<1>1. IInv => ExclusiveSlots
  BY DEF IInv
<1> QED BY <1>1, Invariance, PTL

\* After a player has left, neither hook runs for its connection again, and only
\* players in the table join.
THEOREM NothingFollowsTheLeave == Spec => LeaveIsLast
<1> DEFINE Step(c) == /\ leaves[c] > 0 => \/ joins'[c] = joins[c] /\ leaves'[c] = leaves[c]
                                          \/ socket'[c] = "backlog"
                      /\ joins'[c] > joins[c] => players[id[c]] = c
<1>1. ASSUME IInv, Next, NEW c \in Conns
      PROVE  Step(c)
  <2> USE <1>1 DEF IInv, TypeOK
  <2>1. joins[c] \in Nat /\ ~ (joins[c] > joins[c])
    OBVIOUS
  <2>2. CASE joins'[c] = joins[c] /\ leaves'[c] = leaves[c]
    BY <2>1, <2>2
  <2>3. ASSUME NEW d \in Conns, Connect(d)
        PROVE  Step(c)
    BY <2>1, <2>3 DEF Connect
  <2>4. ASSUME NEW d \in Conns, OnReadJoin(d)
        PROVE  Step(c)
    <3>1. CASE c = d
      <4>1. leaves[c] = 0 /\ players[id[c]] = c
        BY <2>4, <3>1 DEF OnReadJoin, ReaderHasPlayer, LiveHasNotLeft
      <4> QED BY <4>1
    <3>2. CASE c # d
      BY <2>2, <2>4, <3>2 DEF OnReadJoin, objects
    <3> QED BY <3>1, <3>2
  <2>5. ASSUME NEW d \in Conns, OnReadEnd(d) \/ OnReadError(d)
        PROVE  Step(c)
    <3>1. handle[d] = "reading" /\ joins' = joins /\ leaves' = [leaves EXCEPT ![d] = @ + 1]
      BY <2>5 DEF OnReadEnd, OnReadError, PlayerClose, PlayerFree
    <3>2. CASE c = d
      <4>1. leaves[c] = 0
        BY <3>1, <3>2 DEF ReaderHasPlayer, LiveHasNotLeft
      <4> QED BY <2>1, <3>1, <4>1
    <3>3. CASE c # d
      BY <2>2, <3>1, <3>3
    <3> QED BY <3>2, <3>3
  <2>6. CASE UNCHANGED << joins, leaves >>
    BY <2>2, <2>6
  <2> HIDE DEF Step
  <2> QED BY <2>3, <2>4, <2>5, <2>6
          DEF Next, objects, OnConnection, ConnectionError, Hangup, RefuseConnection,
              PlayerNewFails, HandleAllocFails, AcceptFails, AcceptConnection, OnHandleClose
<1>2. IInv /\ [Next]_vars =>
         [\A c \in Conns :
             /\ leaves[c] > 0 => \/ joins'[c] = joins[c] /\ leaves'[c] = leaves[c]
                                \/ socket'[c] = "backlog"
             /\ joins'[c] > joins[c] => players[id[c]] = c]_vars
  BY <1>1
<1> QED BY <1>2, Invariance, PTL DEF Spec, LeaveIsLast

\* Server implements SlotPool: a slot's owner is the player game->players
\* names, slots are given to clients that own none, and taken slots never.
THEOREM Refinement == Spec => PoolSpec
<1>1. Init => Pool!Init
  BY DEF Init, Pool!Init, Slots, Pool!Slots
<1>2. ASSUME IInv, [Next]_vars
      PROVE  [Pool!Next]_players
  <2> USE <1>2 DEF IInv
  <2>0. Slots = Pool!Slots
    BY DEF Slots, Pool!Slots
  <2>1. ASSUME NEW c \in Conns, NEW s \in Slots, AcceptConnection(c, s)
        PROVE  Pool!Next
    <3>1. players[s] = NoPlayer
      BY <2>1 DEF AcceptConnection, FindSlot, NoDanglingPlayers
    <3>2. \A t \in Slots : players[t] # c
      BY <2>1, ServerAssumption
         DEF AcceptConnection, Incoming, WaitingIsFresh, NoDanglingPlayers
    <3>3. Pool!Acquire(c, s)
      BY <2>0, <2>1, <3>1, <3>2 DEF AcceptConnection, Pool!Acquire, Pool!Owns
    <3> QED BY <2>0, <3>3 DEF Pool!Next
  <2>2. ASSUME NEW c \in Conns, handle[c] = "reading", PlayerClose(c)
        PROVE  Pool!Next
    <3>1. id[c] \in Slots /\ players[id[c]] # NoPlayer
      BY <2>2, ServerAssumption DEF ReaderHasPlayer, TypeOK
    <3>2. Pool!Release(id[c])
      BY <2>2, <3>1 DEF PlayerClose, PlayerFree, Pool!Release
    <3> QED BY <2>0, <3>1, <3>2 DEF Pool!Next
  <2>3. CASE UNCHANGED players
    BY <2>3
  <2> QED BY <2>1, <2>2, <2>3
          DEF Next, vars, objects, OnConnection, ConnectionError, Connect, Hangup,
              RefuseConnection, PlayerNewFails, HandleAllocFails, AcceptFails, OnReadJoin,
              OnReadEnd, OnReadError, OnHandleClose
<1> QED BY <1>1, <1>2, Invariance, PTL DEF Spec, PoolSpec, Pool!Spec

=============================================================================
