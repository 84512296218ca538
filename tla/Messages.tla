------------------------------- MODULE Messages -------------------------------
(***************************************************************************)
(* A message of the server from its new function to the reader at the      *)
(* other end: allocated (src/packets), serialised into data_buffer         *)
(* (packet_serialize of src/packet.c), given to the server (server_send of *)
(* src/server.c), and read by the Read function of its type.  Messages     *)
(* that only clients write begin at the reader.  The server of this commit *)
(* sends nothing yet: the network between the two ends is assumed whole.   *)
(*                                                                         *)
(* A buffer is the sequence of its fields, each with the bytes it takes    *)
(* and the bytes the position moves by.  Memory is a few cells, some of    *)
(* them taken, so any allocation may fail.  Strings are Codec's subject,   *)
(* and a behaviour is of a string or of a message.                         *)
(***************************************************************************)
EXTENDS PacketMemory, Codec, SequencesExt

CONSTANTS Lengths,      \* the lengths of texts
          Worlds,       \* sets of the conditions of a world
          Taken         \* sets of the cells that are not free

ASSUME MessagesAssumption ==
    Lengths \subseteq Nat /\ Taken \subseteq SUBSET Cells

PACKET_HEADER_SIZE == 3

-----------------------------------------------------------------------------
(* The fields of the bodies.                                               *)

\* The bytes of the length of a text of n characters: binary_writer_7bit_len of
\* a number that is not negative, which is shifted by seven bits again and again.
LengthBytes(n) == Cardinality({k \in 1 .. 4 : n >= << 128, 16384, 2097152, 268435456 >>[k]}) + 1

Plain(name, width) == [name |-> name, width |-> width, moves |-> width]

Field(name, width) == << Plain(name, width) >>

\* binary_writer_write_value of each of the names.
Each(width, names) == [k \in DOMAIN names |-> Plain(names[k], width)]

\* binary_writer_write_string, and its readers.
Text(name, n) == Field(name, LengthBytes(n) + n)

\* The reader that takes the bytes of the length for one.
ShortText(name, n) ==
    << [name |-> name, width |-> LengthBytes(n) + n, moves |-> n + 1] >>

\* The position behind the first k fields.
Position(layout) ==
    LET behind[k \in 0 .. Len(layout)] ==
            IF k = 0 THEN 0 ELSE behind[k - 1] + layout[k].moves
    IN behind

Size(layout) == Position(layout)[Len(layout)]

\* Each field with the position it is at.
Placed(layout) ==
    {[name |-> layout[k].name, width |-> layout[k].width,
      at |-> Position(layout)[k - 1]] : k \in DOMAIN layout}

-----------------------------------------------------------------------------
(* The members of the bodies, as src/include/packets declares them.        *)

Colours == << "hair_colour", "skin_colour", "eye_colour", "shirt_colour", "under_shirt_colour",
              "pants_colour", "shoe_colour" >>

player_info ==
    {"id", "skin_variant", "hair", "name", "hair_dye", "hide_visuals", "hide_visuals2",
     "hide_misc", "player", "difficulty"} \cup ToSet(Colours)

world_info ==
    {"time", "day_info", "moon_phase", "max_tile_x", "max_tile_y", "spawn_tile_x",
     "spawn_tile_y", "world_surface", "rock_layer", "world_id", "world_name", "moon_type",
     "bg_tree", "bg_corrupt", "bg_jungle", "bg_snow", "bg_hallow", "bg_crimson", "bg_desert",
     "bg_ocean", "style_ice_back", "style_jungle_back", "style_hell_back", "wind_speed_set",
     "num_clouds", "tree_x", "tree_style", "cave_back_x", "cave_back_style", "max_raining",
     "flags_1", "flags_2", "flags_3", "flags_4", "invasion_type", "lobby_id"}

connect_request     == {"packet", "protocol_version"}
continue_connecting == {"id"}
disconnect          == {"reason"}
get_section         == {"x", "y"}
status              == {"message_duration", "message"}
section_tile_frame  == {"x", "y", "dx", "dy"}
chat_message        == {"id", "colour", "message"}
player_hp           == {"id", "life", "life_max"}
player_mana         == {"id", "mana", "mana_max"}
client_uuid         == {"uuid"}
item_slot           == {"id", "slot_id", "stack", "prefix", "net_id"}

Members(type) ==
    CASE type = PLAYER_INFO         -> player_info
      [] type = WORLD_INFO          -> world_info
      [] type = CONNECT_REQUEST     -> connect_request
      [] type = CONTINUE_CONNECTING -> continue_connecting
      [] type = DISCONNECT          -> disconnect
      [] type = GET_SECTION         -> get_section
      [] type = STATUS              -> status
      [] type = SECTION_TILE_FRAME  -> section_tile_frame
      [] type = CHAT_MESSAGE        -> chat_message
      [] type = PLAYER_HP           -> player_hp
      [] type = PLAYER_MANA         -> player_mana
      [] type = CLIENT_UUID         -> client_uuid
      [] type = INVENTORY_SLOT      -> item_slot
      [] type = CONNECTION_COMPLETE -> {}

\* Pointers into the server, and what __fill_world_info sets in vain.
NotSent == {"packet", "player", "invasion_type", "lobby_id"}

-----------------------------------------------------------------------------
(* The Write functions.                                                    *)

player_info_write(n) ==
    Each(1, << "id", "skin_variant", "hair" >>) \o Text("name", n)
    \o Each(1, << "hair_dye", "hide_visuals", "hide_visuals2", "hide_misc" >>)
    \o Each(3, Colours) \o Field("difficulty", 1)

chat_message_write(n) == Field("id", 1) \o Field("colour", 3) \o Text("message", n)

disconnect_write(n) == Text("reason", n)

status_write(n) == Field("message_duration", 4) \o Text("message", n)

continue_connecting_write == Field("id", 1)

connection_complete_write == << >>

section_tile_frame_write == Each(2, << "x", "y", "dx", "dy" >>)

__fill_world_info_buffer(n) ==
    Field("time", 4) \o Each(1, << "day_info", "moon_phase" >>)
    \o Each(2, << "max_tile_x", "max_tile_y", "spawn_tile_x", "spawn_tile_y",
                     "world_surface", "rock_layer" >>)
    \o Field("world_id", 4) \o Text("world_name", n)
    \o Each(1, << "moon_type", "bg_tree", "bg_corrupt", "bg_jungle", "bg_snow", "bg_hallow",
                     "bg_crimson", "bg_desert", "bg_ocean", "style_ice_back",
                     "style_jungle_back", "style_hell_back" >>)
    \o Field("wind_speed_set", 4) \o Field("num_clouds", 1)
    \o Field("tree_x", 12) \o Field("tree_style", 16)
    \o Field("cave_back_x", 12) \o Field("cave_back_style", 4)
    \o Field("max_raining", 4)
    \o Each(1, << "flags_1", "flags_2", "flags_3", "flags_4" >>)

\* The conditions of the bits of the flags, from the lowest; "0" never holds,
\* and "1" always.  cloud_bg_active stands for cloud_bg_active > 1.
FlagTable == [
    day_info |-> << "temp_day_time", "temp_blood_moon", "temp_eclipse" >>,
    flags_1  |-> << "shadow_orb_smashed", "downed_boss_1", "downed_boss_2", "downed_boss_3",
                    "hard_mode", "downed_clowns", "1", "downed_plant" >>,
    flags_2  |-> << "downed_mech_1", "downed_mech_2", "downed_mech_3", "downed_mech_any",
                    "cloud_bg_active", "crimson", "0", "0" >>,
    flags_3  |-> << "expert_mode", "world.fast_forward_time", "0", "downed_slime_king",
                    "downed_queen_bee", "downed_fishron", "downed_martians",
                    "downed_ancient_cultist" >>,
    flags_4  |-> << "downed_moonlord", "downed_halloween_king", "downed_halloween_tree",
                    "downed_christmas_ice_queen", "downed_christmas_santank",
                    "downed_christmas_tree", "downed_golem", "0" >>]

\* __fill_world_info: the bits that are set for a world.
__fill_world_info(world) ==
    UNION {{<< f, k >> : k \in {j \in DOMAIN FlagTable[f] : FlagTable[f][j] \in world \cup {"1"}}} :
           f \in DOMAIN FlagTable}

\* What the loader of world files (world.c) sets of these conditions, and
\* fast_forward_time of another structure.
Loaded ==
    ((UNION {ToSet(FlagTable[f]) : f \in DOMAIN FlagTable}) \ {"0", "1", "world.fast_forward_time"})
    \cup {"flags.fast_forward_time"}

ASSUME WorldsAssumption == Worlds \subseteq SUBSET Loaded

-----------------------------------------------------------------------------
(* The Read functions: the fields they take from data_buffer.              *)

connect_request_fields(n) == Text("protocol_version", n)

player_info_fields(n) ==
    Each(1, << "id", "skin_variant", "hair" >>) \o ShortText("name", n)
    \o Each(1, << "hair_dye", "hide_visuals", "hide_visuals2", "hide_misc" >>)
    \o Each(3, Colours) \o Field("difficulty", 1)

\* A mutant of chat_message_fields that does not move over the colour.
chat_message_fields_stuck(n) == Field("id", 1) \o Text("message", n)

chat_message_fields(n) == Field("id", 1) \o Field("colour", 3) \o Text("message", n)

disconnect_fields(n) == Text("reason", n)

client_uuid_fields(n) == Text("uuid", n)

inventory_slot_fields ==
    Field("id", 1) \o Field("slot_id", 1) \o Field("stack", 2) \o Field("prefix", 1)
    \o Field("net_id", 2)

get_section_fields == Each(4, << "x", "y" >>)

player_hp_fields == Field("id", 1) \o Each(2, << "life", "life_max" >>)

player_mana_fields == Field("id", 1) \o Each(2, << "mana", "mana_max" >>)

ReadLayout(type, n) ==
    CASE type = CONNECT_REQUEST -> connect_request_fields(n)
      [] type = PLAYER_INFO     -> player_info_fields(n)
      [] type = INVENTORY_SLOT  -> inventory_slot_fields
      [] type = GET_SECTION     -> get_section_fields
      [] type = CHAT_MESSAGE    -> chat_message_fields(n)
      [] type = PLAYER_HP       -> player_hp_fields
      [] type = PLAYER_MANA     -> player_mana_fields
      [] type = CLIENT_UUID     -> client_uuid_fields(n)
      [] type = DISCONNECT      -> disconnect_fields(n)

WriteLayout(type, n) ==
    CASE type = PLAYER_INFO         -> player_info_write(n)
      [] type = CHAT_MESSAGE        -> chat_message_write(n)
      [] type = DISCONNECT          -> disconnect_write(n)
      [] type = STATUS              -> status_write(n)
      [] type = CONTINUE_CONNECTING -> continue_connecting_write
      [] type = CONNECTION_COMPLETE -> connection_complete_write
      [] type = SECTION_TILE_FRAME  -> section_tile_frame_write
      [] type = WORLD_INFO          -> __fill_world_info_buffer(n)

-----------------------------------------------------------------------------
VARIABLES
    message,    \* the type, the length of the text, and the world's conditions
    stage,      \* how far the message is
    heap,       \* the memory of messages
    reply,      \* the struct packet of the sender, and
    text,       \*   its text, or NoCell
    packet,     \* the struct packet of the reader, or NoCell
    buffer,     \* the fields in data_buffer
    bits,       \* the bits that are set in the flags of WORLD_INFO
    len,        \* packet->len
    got,        \* the names of the fields that the reader got as they were written
    consumed    \* the bytes it took

messageVars ==
    << message, stage, heap, reply, text, packet, buffer, bits, len, got, consumed >>

HasText == {CONNECT_REQUEST, DISCONNECT, PLAYER_INFO, WORLD_INFO, STATUS, CHAT_MESSAGE,
            CLIENT_UUID}

NewOf == HasWrite \cup {INVENTORY_SLOT, PLAYER_HP, PLAYER_MANA, CLIENT_UUID}

MessageTypes ==
    [type : HasRead \cup HasWrite, n : Lengths, world : Worlds]

NotYet == /\ reply = NoCell /\ text = NoCell /\ packet = NoCell
          /\ buffer = << >> /\ bits = {} /\ len = 0 /\ got = {} /\ consumed = 0

\* Of the length and the world only what the type has is varied.
MessageInit ==
    /\ message \in {m \in MessageTypes :
                      /\ m.type \in HasText \/ m.n = 0
                      /\ m.type = WORLD_INFO \/ m.world = {}}
    /\ \E t \in Taken :
         heap = [c \in Cells |-> IF c \in t THEN [is |-> "text", in |-> "server"] ELSE Free]
    /\ stage \in {"new"} \cup IF message.type \in HasRead THEN {"arriving"} ELSE {}
    /\ NotYet

MessageIdle == /\ message = [type |-> STATUS, n |-> 0, world |-> {}]
               /\ heap = EmptyHeap
               /\ stage = "none"
               /\ NotYet

-----------------------------------------------------------------------------
(* The sender.                                                             *)

NewPacket(type, h) ==
    CASE type = CONTINUE_CONNECTING -> continue_connecting_new(h, "player")
      [] type = INVENTORY_SLOT      -> inventory_slot_new(h, "player")
      [] type = TILE_SECTION        -> tile_section_new(h, "player")
      [] type = SECTION_TILE_FRAME  -> section_tile_frame_new(h, "player")
      [] type = PLAYER_INFO         -> player_info_new(h, "player")
      [] type = STATUS              -> status_new(h, "player")
      [] type = CHAT_MESSAGE        -> chat_message_new(h, "player")
      [] type = DISCONNECT          -> disconnect_new(h, "player")
      [] type = CLIENT_UUID         -> client_uuid_new(h, "player")
      [] type = WORLD_INFO          -> world_info_new(h, "player")
      [] type = CONNECTION_COMPLETE -> connection_complete_new(h, "player")
      [] type = PLAYER_HP           -> player_hp_new(h, "player")
      [] type = PLAYER_MANA         -> player_mana_new(h, "player")

\* A caller makes a packet.
New ==
    /\ stage = "new"
    /\ message.type \in NewOf
    /\ LET made == NewPacket(message.type, heap) IN
       /\ heap' = made.heap
       /\ IF made.ok
          THEN stage' = "made" /\ reply' = made.reply /\ text' = made.text
          ELSE stage' = "failed" /\ UNCHANGED << reply, text >>
    /\ UNCHANGED << message, packet, buffer, bits, len, got, consumed >>

\* The text of a string that binary_writer_write_string would take from NULL.
NoText == message.type \in HasText /\ text = NoCell

\* A mutant of packet_serialize that forgets the header.
packet_serialize_noHeader ==
    /\ stage = "made" /\ message.type \in HasWrite \ {TILE_SECTION} /\ ~ NoText
    /\ stage' = "written"
    /\ buffer' = WriteLayout(message.type, message.n)
    /\ bits' = IF message.type = WORLD_INFO THEN __fill_world_info(message.world) ELSE {}
    /\ len' = Size(buffer') % 65536
    /\ UNCHANGED << message, heap, reply, text, packet, got, consumed >>

\* packet->len has 16 bits.
packet_serialize ==
    /\ stage = "made" /\ message.type \in HasWrite \ {TILE_SECTION} /\ ~ NoText
    /\ stage' = "written"
    /\ buffer' = WriteLayout(message.type, message.n)
    /\ bits' = IF message.type = WORLD_INFO THEN __fill_world_info(message.world) ELSE {}
    /\ len' = (Size(buffer') + PACKET_HEADER_SIZE) % 65536
    /\ UNCHANGED << message, heap, reply, text, packet, got, consumed >>

\* Without a Write function nothing is written.
SerializeFails ==
    /\ stage = "made" /\ message.type \notin HasWrite
    /\ stage' = "unwritten"
    /\ UNCHANGED << message, heap, reply, text, packet, buffer, bits, len, got, consumed >>

\* strlen of no text, and tile_section_write_v2, whose memcpy takes a byte of
\* the compressed section for the address to copy from.
SerializeCrashes ==
    /\ stage = "made" /\ message.type \in HasWrite
    /\ message.type = TILE_SECTION \/ NoText
    /\ stage' = "crashed"
    /\ UNCHANGED << message, heap, reply, text, packet, buffer, bits, len, got, consumed >>

\* server_send: the packet is the server's.
server_send ==
    /\ stage = "written"
    /\ heap' = TallocSteal(heap, "server", reply)
    /\ stage' = IF message.type \in HasRead THEN "arriving" ELSE "sent"
    /\ UNCHANGED << message, reply, text, packet, buffer, bits, len, got, consumed >>

\* The caller of a new function frees the packet, as long as it has it; what the
\* server was given nobody frees.
FreeReply ==
    /\ stage \in {"made", "unwritten", "written"}
    /\ heap' = TallocFree(heap, reply)
    /\ stage' = "freed"
    /\ UNCHANGED << message, reply, text, packet, buffer, bits, len, got, consumed >>

-----------------------------------------------------------------------------
(* The reader.                                                             *)

\* The packet that the message is received in, under the player.  Of a type that
\* the server does not write the client is taken to write what the server reads.
Arrive ==
    /\ stage = "arriving"
    /\ LET received == TallocNew(heap, "packet", "player") IN
       /\ heap' = received.heap
       /\ packet' = received.cell
       /\ stage' = IF received.cell = NoCell THEN "failed" ELSE "arrived"
    /\ buffer' = IF message.type \in HasWrite THEN WriteLayout(message.type, message.n)
                 ELSE ReadLayout(message.type, message.n)
    /\ UNCHANGED << message, reply, text, bits, len, got, consumed >>

\* packet_deserialize; a Read function gets a field that is where it looks.
Deserialize ==
    /\ stage = "arrived"
    /\ LET made   == packet_deserialize(heap, packet, message.type)
           layout == ReadLayout(message.type, message.n)
       IN  /\ heap' = made.heap
           /\ stage' = CASE made.res = "ok" -> "read" [] made.res = "error" -> "failed"
                         [] made.res = "crash" -> "crashed"
           /\ IF made.res = "ok"
              THEN /\ got' = {f.name : f \in Placed(layout) \cap Placed(buffer)}
                   /\ consumed' = Size(layout)
              ELSE UNCHANGED << got, consumed >>
    /\ UNCHANGED << message, reply, text, packet, buffer, bits, len >>

MessageNext == \/ New \/ packet_serialize \/ SerializeFails \/ SerializeCrashes \/ server_send
               \/ FreeReply \/ Arrive \/ Deserialize

-----------------------------------------------------------------------------
vars == << stringVars, messageVars >>

Init == \/ StringInit /\ MessageIdle
        \/ StringIdle /\ MessageInit

Next == \/ StringNext /\ UNCHANGED messageVars
        \/ MessageNext /\ UNCHANGED stringVars

Spec == Init /\ [][Next]_vars

-----------------------------------------------------------------------------
(* Properties.                                                             *)

\* The allocations of a kind, or those in the subtree of a cell.
OfKind(kind) == {c \in Cells : heap[c].is = kind}

\* What the process dies of.
CrashIsKnown ==
    \/ message.type = TILE_SECTION
    \/ NoText
    \/ message.type = PLAYER_INFO /\ packet # NoCell

\* A new function leaves the packet, its body and its text in one subtree, or
\* nothing at all, and once its owner has freed it nothing is left; its
\* temporary context never outlives it.  The process dies of a text for which
\* there was no memory, and of every section
\* (world_info.c:112, disconnect.c:64, tile_section.c:99).
NewIsWholeOrNothing ==
    /\ heap \in Heaps
    /\ OfKind("temp") = {}
    /\ stage \in {"made", "written"} =>
         /\ OfKind("reply") = {reply}
         /\ {c \in Subtree(heap, reply) : heap[c].is = "text"} = {text} \ {NoCell}
         /\ heap[reply].in = "player"
         /\ OfKind("body") \subseteq Subtree(heap, reply)
    /\ stage = "freed" => {reply, text} \cap {c \in Cells : heap[c].is # "free"} = {}
    /\ stage = "failed" /\ reply = NoCell => OfKind("reply") \cup OfKind("body") = {}
    /\ stage = "crashed" => CrashIsKnown

\* The reader of a message gets every field of it that was written, but for a
\* player whose name has a length of two bytes: there only what is before the
\* end of the name (player_info.c:154).  A world's conditions each have a bit
\* of their own, but for the fast forward time of the world file, of which
\* nothing gets into the message (world.c:881, world_info.c:199).  Every member
\* of a body is in its message, but for two of WORLD_INFO that are only filled
\* in (world_info.c:246).
ReadsWhatWasWritten ==
    /\ buffer # << >> => {buffer[k].name : k \in DOMAIN buffer} = Members(message.type) \ NotSent
    /\ stage = "read" =>
         LET written == {buffer[k].name : k \in DOMAIN buffer} IN
         IF message.type = PLAYER_INFO /\ message.n >= 128
         THEN got = {"id", "skin_variant", "hair", "name"}
         ELSE got = written
    /\ stage \in {"written", "sent"} /\ message.type = WORLD_INFO =>
         Cardinality(bits) = 1 + Cardinality(message.world \ {"flags.fast_forward_time"})

\* What the headers of src/include/packets say the bodies have besides a text.
PACKET_LEN(type) ==
    CASE type = PLAYER_INFO         -> 29
      [] type = INVENTORY_SLOT      -> 7
      [] type = GET_SECTION         -> 8
      [] type = STATUS              -> 4
      [] type = SECTION_TILE_FRAME  -> 8
      [] type = CONTINUE_CONNECTING -> 1
      [] type = PLAYER_HP           -> 5
      [] type = PLAYER_MANA         -> 5
      [] type = CONNECTION_COMPLETE -> 0
      [] OTHER                      -> 0

\* The writer of a length and the count of its bytes are two loops, and the
\* length of a message is the sum of what its fields moved the position by:
\* each agrees with the other, and with the length that is declared for the
\* type and that the reader takes.  packet->len is the length with its header
\* exactly where that fits sixteen bits (binary_writer.c:72, packet.c:185).
LengthAsWritten ==
    /\ LengthIsCounted
    /\ stage \in {"written", "sent"} => (len = Size(buffer) + 3 <=> Size(buffer) < 65533)
    /\ stage \in {"written", "sent"} /\ message.type \notin {CHAT_MESSAGE, WORLD_INFO} =>
         Size(buffer) = PACKET_LEN(message.type)
                        + IF message.type \in HasText THEN LengthBytes(message.n) + message.n ELSE 0
    /\ stage = "read" =>
         consumed = IF message.type \notin HasText THEN PACKET_LEN(message.type)
                    ELSE IF message.type = PLAYER_INFO THEN PACKET_LEN(PLAYER_INFO) + message.n + 1
                    ELSE Size(buffer)

-----------------------------------------------------------------------------
(* The inductive invariant of MessageProofs.                               *)

MessageSpec == (MessageInit \/ MessageIdle) /\ [][MessageNext]_messageVars

\* A cell the sender has no part in.
Foreign(c) == c = packet \/ heap[c] \in {Free, [is |-> "text", in |-> "server"]}

NoReply == reply = NoCell /\ text = NoCell /\ \A c \in Cells : Foreign(c)

\* The packet of the sender, below owner, with its body and its text.
WholeReply(owner) ==
    /\ reply \in Cells /\ heap[reply] = [is |-> "reply", in |-> owner]
    /\ \E b \in Cells :
         /\ b # reply => heap[b] = [is |-> "body", in |-> reply]
         /\ text # NoCell => /\ text \in Cells /\ text \notin {reply, b}
                             /\ heap[text] \in {[is |-> "text", in |-> p] : p \in {reply, b}}
         /\ \A c \in Cells \ {reply, b, text} : Foreign(c)

MessageIInv ==
    /\ heap \in Heaps
    /\ OfKind("temp") = {}
    /\ stage \in {"none", "new"} => packet = NoCell /\ NoReply
    /\ stage \in {"made", "unwritten", "written"} => packet = NoCell /\ WholeReply("player")
    /\ stage = "freed" => \A c \in {reply, text} \ {NoCell} : heap[c] = Free
    /\ stage = "arriving" => packet = NoCell /\ (NoReply \/ WholeReply("server"))
    /\ stage = "arrived" => /\ packet \in Cells
                            /\ heap[packet] = [is |-> "packet", in |-> "player"]
                            /\ NoReply \/ WholeReply("server")
    /\ stage = "failed" /\ reply = NoCell => OfKind("reply") \cup OfKind("body") = {}
    /\ stage = "crashed" => CrashIsKnown

\* What is in data_buffer, and what the sender and the reader made of it.
Content == IF message.type \in HasWrite THEN WriteLayout(message.type, message.n)
           ELSE ReadLayout(message.type, message.n)

BufferIInv ==
    /\ message.type \in HasRead \cup HasWrite
    /\ message.n \in Nat /\ message.world \subseteq Loaded
    /\ buffer # << >> => message.type # TILE_SECTION /\ buffer = Content
    /\ stage \in {"written", "sent"} =>
         /\ message.type \in HasWrite \ {TILE_SECTION}
         /\ buffer = Content
         /\ len = (Size(buffer) + PACKET_HEADER_SIZE) % 65536
         /\ message.type = WORLD_INFO => bits = __fill_world_info(message.world)
    /\ stage \in {"arriving", "arrived", "read"} => message.type \in HasRead
    /\ stage \in {"arrived", "read"} => buffer = Content
    /\ stage = "read" =>
         LET layout == ReadLayout(message.type, message.n) IN
         /\ got = {f.name : f \in Placed(layout) \cap Placed(buffer)}
         /\ consumed = Size(layout)

=============================================================================
