------------------------------- MODULE Session -------------------------------
(***************************************************************************)
(* What the server does with the messages of one connection: the Handle    *)
(* functions of src/packets, and who owns the memory they and the Read     *)
(* functions allocate.  Framing is PacketReader's subject: here every      *)
(* message arrives whole, and each __on_read callback that completes one   *)
(* is a step.  Memory is a few cells, so any allocation may fail once they *)
(* are used up.                                                            *)
(***************************************************************************)
EXTENDS PacketMemory

CONSTANTS Types,        \* the message types the client sends
          MaxJoins      \* bound on GET_SECTION messages

ASSUME SessionAssumption == Types \subseteq HasHandle /\ MaxJoins \in Nat

\* What the player keeps: in stats the hair, eyes, dye, difficulty and hide
\* flags, in skin the other colours and the skin variant.
Fields == {"stats", "skin", "inventory", "life", "mana"}
Values == 0 .. 1

VARIABLES
    up,         \* FALSE once the process has died
    open,       \* the connection has a player
    heap,       \* the memory allocated under it, or under no parent
    name,       \* player->name
    uuid,       \* player->uuid
    fields,     \* player->stats (in two parts), ->inventory, ->life and ->mana
    joins,      \* calls of hook_on_player_join
    told        \* what the client last said its fields are, in handled messages

vars == << up, open, heap, name, uuid, fields, joins, told >>

-----------------------------------------------------------------------------
ZeroedFields == [f \in Fields |-> 0]

Init == /\ up = TRUE
        /\ open = TRUE
        /\ heap = EmptyHeap
        /\ name = NoCell
        /\ uuid = NoCell
        /\ fields = ZeroedFields
        /\ joins = 0
        /\ told = ZeroedFields

-----------------------------------------------------------------------------
(* The Handle functions: m is the message and h the heap its Read function *)
(* left.  server_send_packet and server_broadcast_packet do nothing.       *)

\* A mutant of FreePacket that leaves the packet below the player.
FreePacket_not(m, h) == heap' = h

\* __on_read frees the packet when its handler has returned, with all that is
\* still below it.
FreePacket(m, h) == heap' = TallocFree(h, m.packet)

\* connect_request_handle: a matching version is answered, and the answer is
\* freed; another version is only logged.
ConnectRequestHandle(m, h) ==
    LET answer == continue_connecting_new(h, "player") IN
    /\ FreePacket(m, IF m.version = "other" THEN h
                     ELSE IF answer.ok THEN TallocFree(answer.heap, answer.reply)
                     ELSE answer.heap)
    /\ UNCHANGED << name, uuid, fields, joins >>

\* player_info_handle: the name is copied, and the previous copy is not freed;
\* of the looks, those in skin are not copied.
PlayerInfoHandle(m, h) ==
    LET copy == TallocNew(h, "text", "player") IN
    /\ FreePacket(m, copy.heap)
    /\ name' = copy.cell
    /\ fields' = [fields EXCEPT !["stats"] = m.value]
    /\ UNCHANGED << uuid, joins >>

\* A mutant of ClientUuidHandle: the string stays in the packet.
ClientUuidHandle_noSteal(m, h) ==
    /\ FreePacket(m, h)
    /\ uuid' = m.text
    /\ UNCHANGED << name, fields, joins >>

\* client_uuid_handle: the string moves from the packet to the player.
ClientUuidHandle(m, h) ==
    /\ FreePacket(m, TallocSteal(h, "player", m.text))
    /\ uuid' = m.text
    /\ UNCHANGED << name, fields, joins >>

\* get_section_handle: sends the world, makes the last message of the
\* handshake, which it does not free, and announces the player.
GetSectionHandle(m, h) ==
    LET complete == connection_complete_new(h, "player") IN
    /\ joins < MaxJoins
    /\ FreePacket(m, complete.heap)
    /\ joins' = IF complete.ok THEN joins + 1 ELSE joins
    /\ UNCHANGED << name, uuid, fields >>

\* A mutant of PlayerManaHandle that writes the life.
PlayerManaHandle_life(m, h) ==
    /\ FreePacket(m, h)
    /\ fields' = [fields EXCEPT !["life"] = m.value]
    /\ UNCHANGED << name, uuid, joins >>

\* player_hp_handle and player_mana_handle set their field.
PlayerHpHandle(m, h) ==
    /\ FreePacket(m, h)
    /\ fields' = [fields EXCEPT !["life"] = m.value]
    /\ UNCHANGED << name, uuid, joins >>

PlayerManaHandle(m, h) ==
    /\ FreePacket(m, h)
    /\ fields' = [fields EXCEPT !["mana"] = m.value]
    /\ UNCHANGED << name, uuid, joins >>

\* inventory_slot_handle fills in a local copy of the slot.
InventorySlotHandle(m, h) ==
    /\ FreePacket(m, h)
    /\ UNCHANGED << name, uuid, fields, joins >>

\* chat_message_handle and disconnect_handle leave the player alone.
ChatMessageHandle(m, h) ==
    /\ FreePacket(m, h)
    /\ UNCHANGED << name, uuid, fields, joins >>

DisconnectHandle(m, h) ==
    /\ FreePacket(m, h)
    /\ UNCHANGED << name, uuid, fields, joins >>

Handle(m, h) ==
    \/ m.type = CONNECT_REQUEST /\ ConnectRequestHandle(m, h)
    \/ m.type = PLAYER_INFO     /\ PlayerInfoHandle(m, h)
    \/ m.type = CLIENT_UUID     /\ ClientUuidHandle(m, h)
    \/ m.type = GET_SECTION     /\ GetSectionHandle(m, h)
    \/ m.type = PLAYER_HP       /\ PlayerHpHandle(m, h)
    \/ m.type = PLAYER_MANA     /\ PlayerManaHandle(m, h)
    \/ m.type = INVENTORY_SLOT  /\ InventorySlotHandle(m, h)
    \/ m.type = CHAT_MESSAGE    /\ ChatMessageHandle(m, h)
    \/ m.type = DISCONNECT      /\ DisconnectHandle(m, h)

-----------------------------------------------------------------------------
(* __on_read.                                                              *)

\* The packet __alloc_buffer makes for the next message.
Incoming == TallocNew(heap, "packet", "player")

\* The fields a message of the client is about.
FieldsOf(type) == CASE type = PLAYER_INFO    -> {"stats", "skin"}
                    [] type = INVENTORY_SLOT -> {"inventory"}
                    [] type = PLAYER_HP      -> {"life"}
                    [] type = PLAYER_MANA    -> {"mana"}
                    [] OTHER                 -> {}

OnMessage(type, value, version) ==
    LET packet == Incoming
        read   == packet_deserialize(packet.heap, packet.cell, type)
    IN  /\ up /\ open
        /\ packet.cell # NoCell
        /\ \/ /\ read.res = "ok"
              /\ Handle([type |-> type, value |-> value, version |-> version,
                         packet |-> packet.cell, text |-> read.text], read.heap)
              /\ told' = [f \in Fields |-> IF f \in FieldsOf(type) THEN value ELSE told[f]]
              /\ UNCHANGED << up, open >>
           \/ /\ read.res = "error"
              /\ heap' = TallocFree(read.heap, packet.cell)
              /\ UNCHANGED << up, open, name, uuid, fields, joins, told >>
           \/ /\ read.res = "crash"
              /\ up' = FALSE
              /\ UNCHANGED << open, heap, name, uuid, fields, joins, told >>

\* player_close frees the player, and the memory below it with it; another
\* connection may get a player later.  It runs when the client hangs up, and
\* when there is no memory for the next packet (UV_ENOBUFS).
PlayerClose == /\ up /\ open
               /\ open' = FALSE
               /\ heap' = TallocFree(heap, "player")
               /\ name' = NoCell
               /\ uuid' = NoCell
               /\ UNCHANGED << fields, joins, told, up >>

\* player_new: a zeroed struct player.
PlayerNew == /\ up /\ ~ open
             /\ open' = TRUE
             /\ fields' = ZeroedFields
             /\ told' = ZeroedFields
             /\ joins' = 0
             /\ UNCHANGED << up, heap, name, uuid >>

\* The messages a client may send, apart in what their handlers look at.
Messages ==
    {m \in [type : Types, value : Values, version : {"same", "other"}] :
        /\ m.version = "other" => m.type = CONNECT_REQUEST
        /\ m.value # 0 => m.type \in {PLAYER_INFO, INVENTORY_SLOT, PLAYER_HP, PLAYER_MANA}}

Next == \/ \E m \in Messages : OnMessage(m.type, m.value, m.version)
        \/ PlayerClose
        \/ PlayerNew

Spec == Init /\ [][Next]_vars

-----------------------------------------------------------------------------
(* Properties.                                                             *)

TypeOK == /\ up \in BOOLEAN
          /\ open \in BOOLEAN
          /\ heap \in Heaps
          /\ name \in Cells \cup {NoCell}
          /\ uuid \in Cells \cup {NoCell}
          /\ fields \in [Fields -> Values]
          /\ joins \in 0 .. MaxJoins
          /\ told \in [Fields -> Values]

\* The strings of the player outlive the packets they came in, and belong to
\* nobody else (player_info.c:37, client_uuid.c:40).
StringsAreOwned ==
    /\ TypeOK
    /\ \A s \in {name, uuid} \ {NoCell} : heap[s] = [is |-> "text", in |-> "player"]
    /\ name # NoCell => name # uuid

\* Between two callbacks nothing is left of a message: no packet, no body and
\* no temporary context, whichever allocation failed on the way (server.c:76,
\* and the out: labels of src/packets).  What is kept hangs below the player,
\* so that player_close leaves nothing of it (game.h:49-53, player.c:93).
NothingLeftOfMessages ==
    /\ \A c \in Cells : /\ heap[c].is \notin {"temp", "packet"}
                        /\ heap[c].is = "body" => heap[heap[c].in].is = "reply"
                        /\ heap[c].is # "free" => c \in Subtree(heap, "player")
    /\ ~ open => heap = EmptyHeap

\* What the client says of its life, mana, hair and eyes is what the server
\* keeps, also when messages before or after it could not be handled
\* (player_info.c:39-46, player_hp.c:35, player_mana.c:35).
StatsFollowClient == \A f \in {"stats", "life", "mana"} : fields[f] = told[f]

\* server.h:140-141: the caller of server_send_packet still owns the packet and
\* is responsible for freeing it.
RepliesAreFreed == \A c \in Cells : heap[c].is # "reply"

-----------------------------------------------------------------------------
(* The inductive invariant of SessionProofs.                               *)

\* Between two callbacks, what is allocated are texts and replies, right below
\* the player.
Flat == \A c \in Cells : \/ heap[c] = Free
                         \/ heap[c].in = "player" /\ heap[c].is \in {"text", "reply"}

ClosedIsEmpty == ~ open => heap = EmptyHeap /\ name = NoCell /\ uuid = NoCell

IInv == TypeOK /\ Flat /\ ClosedIsEmpty /\ StringsAreOwned /\ StatsFollowClient

=============================================================================
