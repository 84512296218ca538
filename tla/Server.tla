------------------------------- MODULE Server -------------------------------
(***************************************************************************)
(* The life of a connection (src/server.c, src/player.c): the listener,    *)
(* the slot bitmap, the player objects, their TCP handles, and the         *)
(* callbacks the libuv loop makes.  The loop is single threaded, so each   *)
(* callback is one step, and the steps of different connections, of the    *)
(* clients and of libuv's deferred close callbacks interleave.             *)
(*                                                                         *)
(* c \in Conns stands for a client's connection and for the struct player  *)
(* and uv_tcp_t the server allocates for it; c may connect again once the  *)
(* server has let go of all of them.                                       *)
(***************************************************************************)
EXTENDS Bitmap, FiniteSets

CONSTANTS Conns,        \* the clients
          MaxPlayers,   \* GAME_MAX_PLAYERS
          NumWords,     \* words of game->player_slots
          NoPlayer,     \* a NULL entry of game->players
          MaxJoins,     \* bound on GET_SECTION messages per connection
          MaxFaults     \* bound on failing calls (allocations, uv_accept, ...)

ASSUME ServerAssumption ==
    /\ MaxPlayers \in Nat \ {0}
    /\ NumWords \in Nat
    /\ MaxPlayers <= NumWords * BitsPerWord
    /\ NoPlayer \notin Conns
    /\ MaxJoins \in Nat
    /\ MaxFaults \in Nat

Slots == 0 .. MaxPlayers - 1

VARIABLES
    up,             \* FALSE once the process has aborted
    socket,         \* the TCP connection, as the client and the kernel see it
    listening,      \* the loop polls the listening socket
    player_slots,   \* game->player_slots
    players,        \* game->players
    player,         \* is the struct player of c allocated?
    id,             \* player->id
    handle,         \* player->handle, the uv_tcp_t of c
    joins,          \* calls of hook_on_player_join for c
    leaves,         \* calls of hook_on_player_leave for c
    faults          \* failing calls so far

vars == << up, socket, listening, player_slots, players, player, id, handle,
           joins, leaves, faults >>

objects == << player_slots, players, player, id, leaves >>

-----------------------------------------------------------------------------
Init == /\ up = TRUE
        /\ socket = [c \in Conns |-> "idle"]
        /\ listening = TRUE
        /\ player_slots = Zeroed(NumWords)
        /\ players = [s \in Slots |-> NoPlayer]
        /\ player = [c \in Conns |-> "none"]
        /\ id = [c \in Conns |-> 0]
        /\ handle = [c \in Conns |-> "none"]
        /\ joins = [c \in Conns |-> 0]
        /\ leaves = [c \in Conns |-> 0]
        /\ faults = 0

\* Mutants of FindSlot: the slot is looked up in game->players, and its bit is
\* left clear.
FindSlot_players(s) == /\ players[s] = NoPlayer
                       /\ \A t \in 0 .. s - 1 : players[t] # NoPlayer
                       /\ player_slots' = BitmapSet(player_slots, s)

FindSlot_noBit(s) == /\ ~ BitmapGet(player_slots, s)
                     /\ \A t \in 0 .. s - 1 : BitmapGet(player_slots, t)
                     /\ UNCHANGED player_slots

\* ptGameFindSlot returns s: the first slot whose bit is clear, which it sets.
FindSlot(s) == /\ ~ BitmapGet(player_slots, s)
               /\ \A t \in 0 .. s - 1 : BitmapGet(player_slots, t)
               /\ player_slots' = BitmapSet(player_slots, s)

\* ptGameFindSlot returns -1.
NoSlot == \A s \in Slots : BitmapGet(player_slots, s)

Fault == /\ faults < MaxFaults
         /\ faults' = faults + 1

-----------------------------------------------------------------------------
(* The clients and the kernel.                                             *)

\* A client connects: the kernel queues the connection on the listener.
Connect(c) == /\ up
              /\ socket[c] \in {"idle", "closed"}
              /\ handle[c] = "none"
              /\ player[c] = "none"
              /\ socket' = [socket EXCEPT ![c] = "backlog"]
              /\ joins' = [joins EXCEPT ![c] = 0]
              /\ leaves' = [leaves EXCEPT ![c] = 0]
              /\ UNCHANGED << up, listening, player_slots, players, player,
                              id, handle, faults >>

\* A connected client hangs up; the server reads EOF or ECONNRESET later.
Hangup(c) == /\ socket[c] = "open"
             /\ socket' = [socket EXCEPT ![c] = "hungup"]
             /\ UNCHANGED << up, listening, handle, joins, faults, objects >>

-----------------------------------------------------------------------------
(* __on_connection.  libuv has accept()ed a connection and calls back; it  *)
(* keeps polling the listener only if the callback calls uv_accept.        *)

Incoming(c) == up /\ listening /\ socket[c] = "backlog"

\* status < 0: accept() failed and the callback returns at once.
ConnectionError == /\ up /\ listening
                   /\ Fault
                   /\ UNCHANGED << up, socket, listening, handle, joins,
                                   objects >>

\* No slot is free: the callback returns, and does not call uv_accept.
RefuseConnection(c) ==
    /\ Incoming(c)
    /\ NoSlot
    /\ socket' = [socket EXCEPT ![c] = "parked"]
    /\ listening' = FALSE
    /\ UNCHANGED << up, handle, joins, faults, objects >>

\* player_new fails: the slot's bit stays set, and uv_close is called on the
\* address of an uninitialised pointer, which aborts in libuv or does nothing
\* the server can see; uv_accept is not called.
PlayerNewFails(c, s) ==
    /\ Incoming(c)
    /\ FindSlot(s)
    /\ Fault
    /\ socket' = [socket EXCEPT ![c] = "parked"]
    /\ listening' = FALSE
    /\ up' \in BOOLEAN
    /\ UNCHANGED << players, player, id, leaves, handle, joins >>

\* player_new: the object, its id and its destructor.
PlayerNew(c, s) ==
    /\ player' = [player EXCEPT ![c] = "live"]
    /\ id' = [id EXCEPT ![c] = s]

\* No memory is left for the handle: uv_tcp_init writes through a NULL pointer
\* and the process dies.
HandleAllocFails(c, s) ==
    /\ Incoming(c)
    /\ FindSlot(s)
    /\ Fault
    /\ PlayerNew(c, s)
    /\ up' = FALSE
    /\ socket' = [socket EXCEPT ![c] = "closed"]
    /\ UNCHANGED << listening, players, leaves, handle, joins >>

\* uv_accept fails and closes the connection; the callback returns, and the
\* player object, its handle and its slot stay behind.
AcceptFails(c, s) ==
    /\ Incoming(c)
    /\ FindSlot(s)
    /\ Fault
    /\ PlayerNew(c, s)
    /\ handle' = [handle EXCEPT ![c] = "init"]
    /\ socket' = [socket EXCEPT ![c] = "closed"]
    /\ UNCHANGED << up, listening, players, leaves, joins >>

AcceptConnection(c, s) ==
    /\ Incoming(c)
    /\ FindSlot(s)
    /\ PlayerNew(c, s)
    /\ handle' = [handle EXCEPT ![c] = "reading"]
    /\ socket' = [socket EXCEPT ![c] = "open"]
    /\ players' = [players EXCEPT ![s] = c]
    /\ UNCHANGED << up, listening, leaves, joins, faults >>

-----------------------------------------------------------------------------
(* __on_read and the close callback.                                       *)

\* Mutants of PlayerFree: the entry of game->players stays, and the id is reset
\* to -1.
PlayerFree_keepEntry(c) ==
    /\ leaves' = [leaves EXCEPT ![c] = @ + 1]
    /\ player_slots' = BitmapClear(player_slots, id[c])
    /\ player' = [player EXCEPT ![c] = "none"]
    /\ UNCHANGED << players, id >>

PlayerFree_resetId(c) ==
    /\ leaves' = [leaves EXCEPT ![c] = @ + 1]
    /\ player_slots' = BitmapClear(player_slots, id[c])
    /\ players' = [players EXCEPT ![id[c]] = NoPlayer]
    /\ player' = [player EXCEPT ![c] = "none"]
    /\ id' = [id EXCEPT ![c] = -1]

\* __player_destructor, and the memory of the player.
PlayerFree(c) ==
    /\ leaves' = [leaves EXCEPT ![c] = @ + 1]
    /\ player_slots' = BitmapClear(player_slots, id[c])
    /\ players' = [players EXCEPT ![id[c]] = NoPlayer]
    /\ player' = [player EXCEPT ![c] = "none"]
    /\ id' = id

\* A mutant of PlayerClose that does not close the handle, nor its connection.
PlayerClose_noClose(c) ==
    /\ PlayerFree(c)
    /\ UNCHANGED << handle, socket >>

\* player_close: uv_close, then the player is freed; the handle's memory is
\* parked under the game until the close callback.
PlayerClose(c) ==
    /\ handle' = [handle EXCEPT ![c] = "closing"]
    /\ socket' = [socket EXCEPT ![c] = "closed"]
    /\ PlayerFree(c)

\* __on_read with a message that joins the game (GET_SECTION): the handler
\* runs hook_on_player_join.  The other messages leave this state alone.
OnReadJoin(c) == /\ up
                 /\ handle[c] = "reading"
                 /\ socket[c] \in {"open", "hungup"}
                 /\ joins[c] < MaxJoins
                 /\ joins' = [joins EXCEPT ![c] = @ + 1]
                 /\ UNCHANGED << up, socket, listening, handle, faults,
                                 objects >>

\* __on_read with len < 0 after the client hung up.
OnReadEnd(c) == /\ up
                /\ handle[c] = "reading"
                /\ socket[c] = "hungup"
                /\ PlayerClose(c)
                /\ UNCHANGED << up, listening, joins, faults >>

\* __on_read with len < 0 though the client is still there (UV_ENOBUFS for an
\* empty buffer, or a read error).
OnReadError(c) == /\ up
                  /\ handle[c] = "reading"
                  /\ socket[c] = "open"
                  /\ PlayerClose(c)
                  /\ UNCHANGED << up, listening, joins, faults >>

\* A mutant of OnHandleClose that never frees the handle.
OnHandleClose_keep(c) == up /\ handle[c] = "closing" /\ UNCHANGED vars

\* __player_handle_close: the loop has finished closing the handle.
OnHandleClose(c) == /\ up
                    /\ handle[c] = "closing"
                    /\ handle' = [handle EXCEPT ![c] = "none"]
                    /\ UNCHANGED << up, socket, listening, joins, faults,
                                    objects >>

-----------------------------------------------------------------------------
OnConnection(c) == \/ RefuseConnection(c)
                   \/ \E s \in Slots : \/ AcceptConnection(c, s)
                                       \/ AcceptFails(c, s)
                                       \/ PlayerNewFails(c, s)
                                       \/ HandleAllocFails(c, s)

Next == \/ ConnectionError
        \/ \E c \in Conns : \/ Connect(c)
                            \/ Hangup(c)
                            \/ OnConnection(c)
                            \/ OnReadJoin(c)
                            \/ OnReadEnd(c)
                            \/ OnReadError(c)
                            \/ OnHandleClose(c)

Spec == Init /\ [][Next]_vars

\* The loop keeps making the callbacks that are due: uv_run polls every
\* watched descriptor and runs the close callbacks once per iteration.
Fairness == \A c \in Conns : /\ WF_vars(OnConnection(c))
                             /\ WF_vars(OnReadEnd(c))
                             /\ WF_vars(OnHandleClose(c))

FairSpec == Spec /\ Fairness
-----------------------------------------------------------------------------
(* Properties.                                                             *)

TypeOK == /\ up \in BOOLEAN
          /\ socket \in [Conns -> {"idle", "backlog", "parked", "open",
                                   "hungup", "closed"}]
          /\ listening \in BOOLEAN
          /\ player_slots \in Bitmaps(NumWords)
          /\ players \in [Slots -> Conns \cup {NoPlayer}]
          /\ player \in [Conns -> {"none", "live"}]
          /\ id \in [Conns -> Slots]
          /\ handle \in [Conns -> {"none", "init", "reading", "closing"}]
          /\ joins \in [Conns -> 0 .. MaxJoins]
          /\ leaves \in [Conns -> Nat]
          /\ faults \in 0 .. MaxFaults

\* game->players never dangles: an entry that is not NULL points to an
\* allocated player whose id is the entry's index and whose slot is taken in
\* the bitmap, although players are freed, and their slots reused, while
\* their handles are still closing (player.c:75-93).
NoDanglingPlayers ==
    \A s \in Slots : players[s] # NoPlayer =>
        /\ player[players[s]] = "live"
        /\ id[players[s]] = s
        /\ BitmapGet(player_slots, s)

\* The read callbacks run on live state: while libuv may call __alloc_buffer
\* or __on_read for a handle, the player in handle->data is allocated and is
\* the one its slot names (server.c:59, server.c:84).
ReaderHasPlayer ==
    \A c \in Conns : handle[c] = "reading" =>
        /\ player[c] = "live"
        /\ players[id[c]] = c

\* No two player objects share a slot, also when one of them was left behind
\* by a failed uv_accept and is in no slot's entry (game.h:122-124).
ExclusiveSlots ==
    \A c, d \in Conns :
        /\ player[c] = "live"
        /\ player[d] = "live"
        /\ c # d
        => id[c] # id[d]

\* game.h:83, "Bitmap of connected players": a slot is marked in the bitmap
\* only while a player is connected to it.
BitmapOfConnected ==
    \A s \in Slots : BitmapGet(player_slots, s) => players[s] # NoPlayer

\* Once hook_on_player_leave has run for a connection, neither it nor
\* hook_on_player_join runs for that connection again, and a join is always that
\* of a player in game->players (player.c:34, get_section.c:75).  Both counters
\* start again only with a new connection.
LeaveIsLast ==
    [][\A c \in Conns :
          /\ leaves[c] > 0 => \/ joins'[c] = joins[c] /\ leaves'[c] = leaves[c]
                             \/ socket'[c] = "backlog"
          /\ joins'[c] > joins[c] => players[id[c]] = c]_vars

\* The inductive strengthening of the invariants above: a player object holds
\* its slot from player_new (player.c:60) to its destructor, which alone runs the
\* leave hook, and a connection that still waits for __on_connection has no
\* object of the server yet.
LiveHoldsSlot ==
    \A c \in Conns : player[c] = "live" => BitmapGet(player_slots, id[c])

LiveHasNotLeft ==
    \A c \in Conns : player[c] = "live" => leaves[c] = 0

WaitingIsFresh ==
    \A c \in Conns : socket[c] = "backlog" =>
        /\ player[c] = "none"
        /\ handle[c] = "none"
        /\ leaves[c] = 0

IInv == /\ TypeOK
        /\ NoDanglingPlayers
        /\ ReaderHasPlayer
        /\ ExclusiveSlots
        /\ LiveHasNotLeft
        /\ LiveHoldsSlot
        /\ WaitingIsFresh

\* The slots are a pool with exclusive ownership: Server implements SlotPool,
\* with game->players as the owners (server.c:161, player.c:37).
Pool == INSTANCE SlotPool WITH owner <- players
PoolSpec == Pool!Spec

\* Once a client has hung up, its player, its slot and its handle are all
\* released, whatever the other connections do (server.c:62-65, player.c:73).
HangupReleases ==
    \A c \in Conns : socket[c] = "hungup" /\ up
                       ~> (handle[c] = "none" /\ player[c] = "none") \/ ~ up

=============================================================================
