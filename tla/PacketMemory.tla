------------------------------ MODULE PacketMemory ------------------------------
(***************************************************************************)
(* The memory of a message: the table of handlers of src/packet.c, and the *)
(* Read and new functions of src/packets as far as they allocate.  A       *)
(* function is given a heap and returns the one it leaves, and fails where *)
(* that has no cell for it.                                                *)
(***************************************************************************)
EXTENDS Talloc

CONNECT_REQUEST      == 1
DISCONNECT           == 2
CONTINUE_CONNECTING  == 3
PLAYER_INFO          == 4
INVENTORY_SLOT       == 5
CONTINUE_CONNECTING2 == 6
WORLD_INFO           == 7
GET_SECTION          == 8
STATUS               == 9
TILE_SECTION         == 10
SECTION_TILE_FRAME   == 11
PLAYER_HP            == 16
CHAT_MESSAGE         == 25
PLAYER_MANA          == 42
CONNECTION_COMPLETE  == 49
CLIENT_UUID          == 68

\* packet_handlers: the types that have a Read, a Handle or a Write function.
HasRead   == {CONNECT_REQUEST, PLAYER_INFO, INVENTORY_SLOT, GET_SECTION, CHAT_MESSAGE,
              PLAYER_HP, PLAYER_MANA, CLIENT_UUID, DISCONNECT}
HasHandle == HasRead \cup {CONTINUE_CONNECTING2}
HasWrite  == {CONTINUE_CONNECTING, PLAYER_INFO, WORLD_INFO, STATUS, TILE_SECTION,
              SECTION_TILE_FRAME, CHAT_MESSAGE, CONNECTION_COMPLETE, DISCONNECT}

-----------------------------------------------------------------------------
(* The Read functions: a temporary context, the body and its string in it, *)
(* each stolen to where it belongs, the body under the packet; the         *)
(* temporary context is freed on every path.  res is noText if there is no *)
(* memory for the string, and error if there is none for the others.       *)

ReadFunction(h, packet, hasText, noText) ==
    LET temp == TallocNew(h, "temp", "top")
        body == TallocNew(temp.heap, "body", temp.cell)
        text == TallocNew(body.heap, "text", temp.cell)
        full == IF hasText
                THEN TallocSteal(TallocSteal(text.heap, body.cell, text.cell), packet, body.cell)
                ELSE TallocSteal(body.heap, packet, body.cell)
    IN  CASE temp.cell = NoCell -> [res |-> "error", heap |-> h]
          [] temp.cell # NoCell /\ body.cell = NoCell ->
                [res |-> "error", heap |-> TallocFree(temp.heap, temp.cell)]
          [] body.cell # NoCell /\ hasText /\ text.cell = NoCell ->
                [res |-> noText, heap |-> TallocFree(body.heap, temp.cell)]
          [] OTHER ->
             [res  |-> "ok",
              heap |-> TallocFree(full, temp.cell),
              text |-> IF hasText THEN text.cell ELSE NoCell]

connect_request_read(h, packet) == ReadFunction(h, packet, TRUE, "error")
chat_message_read(h, packet)    == ReadFunction(h, packet, TRUE, "error")
client_uuid_read(h, packet)     == ReadFunction(h, packet, TRUE, "error")
disconnect_read(h, packet)      == ReadFunction(h, packet, TRUE, "error")
get_section_read(h, packet)     == ReadFunction(h, packet, FALSE, "error")
inventory_slot_read(h, packet)  == ReadFunction(h, packet, FALSE, "error")
player_hp_read(h, packet)       == ReadFunction(h, packet, FALSE, "error")
player_mana_read(h, packet)     == ReadFunction(h, packet, FALSE, "error")

\* It copies the name without looking whether there is memory for it.
player_info_read(h, packet)     == ReadFunction(h, packet, TRUE, "crash")

\* packet_deserialize: without a Read function, or when it fails, the message
\* is dropped.
packet_deserialize(h, packet, type) ==
    CASE type = CONNECT_REQUEST -> connect_request_read(h, packet)
      [] type = PLAYER_INFO     -> player_info_read(h, packet)
      [] type = INVENTORY_SLOT  -> inventory_slot_read(h, packet)
      [] type = GET_SECTION     -> get_section_read(h, packet)
      [] type = CHAT_MESSAGE    -> chat_message_read(h, packet)
      [] type = PLAYER_HP       -> player_hp_read(h, packet)
      [] type = PLAYER_MANA     -> player_mana_read(h, packet)
      [] type = CLIENT_UUID     -> client_uuid_read(h, packet)
      [] type = DISCONNECT      -> disconnect_read(h, packet)
      [] type \notin HasRead    -> [res |-> "error", heap |-> h]

-----------------------------------------------------------------------------
(* The new functions: a packet, its body and its text, if it has them, are *)
(* made in a temporary context, stolen to where they belong, and the       *)
(* packet to the context of the caller.  textIn is the owner of the text,  *)
(* or "none"; checked tells whether a missing text is noticed.             *)

\* A mutant of NewFunction that returns without freeing its context.
NewFunction_keepsTemp(h, ctx, hasBody, textIn, checked) ==
    LET temp    == TallocNew(h, "temp", "top")
        reply   == TallocNew(temp.heap, "reply", temp.cell)
        body    == IF hasBody THEN TallocNew(reply.heap, "body", temp.cell) ELSE reply
        text    == IF textIn = "none" THEN [body EXCEPT !.cell = NoCell]
                   ELSE TallocNew(body.heap, "text", temp.cell)
        lacking == \/ NoCell \in {temp.cell, reply.cell, body.cell}
                   \/ checked /\ textIn # "none" /\ text.cell = NoCell
    IN  [ok |-> ~ lacking, heap |-> text.heap, reply |-> reply.cell, text |-> text.cell]

NewFunction(h, ctx, hasBody, textIn, checked) ==
    LET temp    == TallocNew(h, "temp", "top")
        reply   == TallocNew(temp.heap, "reply", temp.cell)
        body    == IF hasBody THEN TallocNew(reply.heap, "body", temp.cell) ELSE reply
        text    == IF textIn = "none" THEN [body EXCEPT !.cell = NoCell]
                   ELSE TallocNew(body.heap, "text", temp.cell)
        lacking == \/ NoCell \in {temp.cell, reply.cell, body.cell}
                   \/ checked /\ textIn # "none" /\ text.cell = NoCell
        owner   == IF textIn = "body" THEN body.cell ELSE reply.cell
        owned   == IF text.cell = NoCell THEN text.heap
                   ELSE TallocSteal(text.heap, owner, text.cell)
        whole   == IF hasBody THEN TallocSteal(owned, reply.cell, body.cell) ELSE owned
    IN  IF lacking
        THEN [ok |-> FALSE, heap |-> TallocFree(text.heap, temp.cell)]
        ELSE [ok |-> TRUE, heap |-> TallocFree(TallocSteal(whole, ctx, reply.cell), temp.cell),
              reply |-> reply.cell, text |-> text.cell]

continue_connecting_new(h, ctx) == NewFunction(h, ctx, TRUE, "none", TRUE)
inventory_slot_new(h, ctx)      == NewFunction(h, ctx, TRUE, "none", TRUE)
tile_section_new(h, ctx)        == NewFunction(h, ctx, TRUE, "none", TRUE)
section_tile_frame_new(h, ctx)  == NewFunction(h, ctx, TRUE, "none", TRUE)
player_info_new(h, ctx)         == NewFunction(h, ctx, TRUE, "body", TRUE)
status_new(h, ctx)              == NewFunction(h, ctx, TRUE, "body", TRUE)

\* The text belongs to the packet itself.
chat_message_new(h, ctx)        == NewFunction(h, ctx, TRUE, "reply", TRUE)

\* They do not look whether there was memory for the text.
disconnect_new(h, ctx)          == NewFunction(h, ctx, TRUE, "body", FALSE)
client_uuid_new(h, ctx)         == NewFunction(h, ctx, TRUE, "body", FALSE)
world_info_new(h, ctx)          == NewFunction(h, ctx, TRUE, "body", FALSE)

\* No body: of the life and mana they are given nothing gets into the packet.
connection_complete_new(h, ctx) == NewFunction(h, ctx, FALSE, "none", TRUE)
player_hp_new(h, ctx)           == NewFunction(h, ctx, FALSE, "none", TRUE)
player_mana_new(h, ctx)         == NewFunction(h, ctx, FALSE, "none", TRUE)

=============================================================================
