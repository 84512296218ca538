---------------------------- MODULE PacketReader ----------------------------
(***************************************************************************)
(* How the bytes of one connection become messages: __alloc_buffer and     *)
(* __on_read of src/server.c, driven by libuv's read loop.  Every round of *)
(* that loop calls __alloc_buffer, reads what the socket has, up to the    *)
(* size of the buffer, and calls __on_read; it reads on while the buffers  *)
(* get filled.  The client and the network put bytes into the socket       *)
(* between any two rounds.                                                 *)
(*                                                                         *)
(* A byte is known by its position in the client's stream.  What a header  *)
(* says is known when it is read from the first byte of a message, and is  *)
(* one of StrayHeaders when it is read from somewhere else.                *)
(***************************************************************************)
EXTENDS Integers, Sequences, FiniteSets

CONSTANTS Scripts,      \* the sequences of messages a client may send
          Served,       \* the types with a Read and a Handle function
          SegmentEnds(_),  \* where the network may cut the bytes of a script
          LoopRounds,   \* rounds of libuv's read loop per poll (32 in libuv)
          StrayHeaders  \* what misplaced bytes may decode to

PACKET_HEADER_SIZE == 3
UINT16_MAX == 65535

ASSUME ReaderAssumption ==
    /\ \A s \in Scripts :
          s \in Seq([type : 1 .. 255, body : 0 .. UINT16_MAX - PACKET_HEADER_SIZE])
    /\ Served \subseteq 1 .. 255
    /\ \A s \in Scripts : SegmentEnds(s) \subseteq Nat
    /\ LoopRounds \in Nat \ {0}
    /\ StrayHeaders \subseteq [len : 0 .. UINT16_MAX, type : 0 .. 255]

VARIABLES
    script,     \* what the client sends on this connection
    client,     \* "sending"; "left" once it has sent all and closed; or "reset"
    sent,       \* how many of its bytes have reached the socket
    pos,        \* how many of them the server has read
    status,     \* "open", or the error that made __on_read call player_close
    rounds,     \* rounds the read loop still makes; 0 while the loop polls
    incoming,   \* player->incoming_packet, or NoPacket
    handled,    \* the packets whose Read function __handle_packet called, in
                \* order; the Handle function follows unless that one fails
    track       \* a history variable: how far every read filled its buffer,
                \* the position and the number of handled packets

vars == << script, client, sent, pos, status, rounds, incoming, handled, track >>

-----------------------------------------------------------------------------
\* A mutant of Int16: a len of eight bits.
Int16_byte(n) == n % 256

\* Conversions of __alloc_buffer: a 16-bit signed len, handed to uv_buf_init as
\* an unsigned int; Huge stands for the unsigned ints above 2^31.
Int16(n) == ((n + 32768) % 65536) - 32768
Huge == 2147483647
Unsigned(n) == IF n < 0 THEN Huge ELSE n

\* The packet's len field for message m, and the number of bytes m takes.
Length(m) == PACKET_HEADER_SIZE + m.body

\* The position of the first byte of the i-th message of the script.
Start[i \in 1 .. Len(script) + 1] ==
    IF i = 1 THEN 0 ELSE Start[i - 1] + Length(script[i - 1])

Total == Start[Len(script) + 1]

Messages == 1 .. Len(script)

\* No incoming packet.  The packets have the fields: state; len and type, the
\* header; msg, the message whose header was read whole, or 0.
NoPacket == [state |-> "none", len |-> 0, type |-> 0, msg |-> 0]

Packet(state, h, i) == [state |-> state, len |-> h.len, type |-> h.type, msg |-> i]

\* packet_init zeroes the header.
Zero == [len |-> 0, type |-> 0]

\* The headers that n bytes read from position p into a zeroed one may give.
HeaderRead(p, n) ==
    IF \E i \in Messages : Start[i] = p
    THEN LET m == script[CHOOSE i \in Messages : Start[i] = p] IN
         { CASE n = 1 -> [len |-> Length(m) % 256, type |-> 0]
             [] n = 2 -> [len |-> Length(m), type |-> 0]
             [] n = 3 -> [len |-> Length(m), type |-> m.type] }
    ELSE StrayHeaders

\* The message whose header is exactly the n bytes from p, or 0.
HeaderOf(p, n) == IF n = PACKET_HEADER_SIZE /\ \E i \in Messages : Start[i] = p
                  THEN CHOOSE i \in Messages : Start[i] = p
                  ELSE 0

-----------------------------------------------------------------------------
Init == /\ script \in Scripts
        /\ client = "sending"
        /\ sent = 0
        /\ pos = 0
        /\ status = "open"
        /\ rounds = 0
        /\ incoming = NoPacket
        /\ handled = << >>
        /\ track = [pos |-> 0, handled |-> 0]

(* __alloc_buffer: a new packet and its header, or the body of the packet   *)
(* that is already there.                                                   *)

Alloc == IF incoming = NoPacket
         THEN Packet("read_header", Zero, 0)
         ELSE [incoming EXCEPT !.state = "read_data"]

BufferLen == IF incoming = NoPacket
             THEN PACKET_HEADER_SIZE
             ELSE Unsigned(Int16(incoming.len - PACKET_HEADER_SIZE))

-----------------------------------------------------------------------------
(* The client and the network.                                              *)

\* A segment arrives, and the bytes up to position p with it.
Deliver(p) == /\ client = "sending"
              /\ p \in SegmentEnds(script) \cup {Total}
              /\ sent < p /\ p <= Total
              /\ sent' = p
              /\ UNCHANGED << script, client, pos, status, rounds, incoming, handled, track >>

Hangup == /\ client = "sending"
          /\ sent = Total
          /\ client' = "left"
          /\ UNCHANGED << script, sent, pos, status, rounds, incoming, handled, track >>

\* The connection breaks; bytes that have arrived may still be read.
Reset == /\ client = "sending"
         /\ client' = "reset"
         /\ UNCHANGED << script, sent, pos, status, rounds, incoming, handled, track >>

-----------------------------------------------------------------------------
(* One round of the read loop.  A poll starts the loop when the socket is   *)
(* readable.                                                                *)

Round == /\ status = "open"
         /\ rounds > 0 \/ pos < sent \/ client # "sending"

\* A mutant of Close that returns without closing the player.
Close_ignored(error) == /\ rounds' = 0
                        /\ UNCHANGED << script, client, sent, pos, status, handled, track >>

\* read_cb(error), and __on_read closes the player.  The packet, if there is
\* one, stays until the player is freed.
Close(error) == /\ status' = error
                /\ rounds' = 0
                /\ UNCHANGED << script, client, sent, pos, handled, track >>

\* talloc has no memory for a packet, and __alloc_buffer returns without a
\* buffer: read_cb(UV_ENOBUFS).
ReadNoMemory == /\ Round
                /\ incoming = NoPacket
                /\ Close("UV_ENOBUFS")
                /\ UNCHANGED incoming

\* The buffer __alloc_buffer returned is empty: read_cb(UV_ENOBUFS).
ReadNoBuffers == /\ Round
                 /\ BufferLen = 0
                 /\ Close("UV_ENOBUFS")
                 /\ incoming' = Alloc

ReadEof == /\ Round
           /\ BufferLen > 0
           /\ pos = sent
           /\ client = "left"
           /\ Close("UV_EOF")
           /\ incoming' = Alloc

ReadError == /\ Round
             /\ BufferLen > 0
             /\ client = "reset"
             /\ Close("UV_ECONNRESET")
             /\ incoming' = Alloc

\* A mutant of ReadAgain that frees the packet, which may have its header.
ReadAgain_drops == /\ Round
                   /\ BufferLen > 0
                   /\ pos = sent
                   /\ client = "sending"
                   /\ incoming' = NoPacket
                   /\ rounds' = 0
                   /\ UNCHANGED << script, client, sent, pos, status, handled, track >>

\* Nothing to read after all: read_cb(0).  __on_read returns, but the packet
\* that __alloc_buffer made or marked stays.
ReadAgain == /\ Round
             /\ BufferLen > 0
             /\ pos = sent
             /\ client = "sending"
             /\ incoming' = Alloc
             /\ rounds' = 0
             /\ UNCHANGED << script, client, sent, pos, status, handled, track >>

\* The n bytes of a read fill the buffer, if that is of a length that is meant.
Fills(n) == n = BufferLen /\ BufferLen < Huge

\* read_cb(n): the loop goes on if the buffer was filled and rounds are left.
Consume(n) == /\ pos' = pos + n
              /\ rounds' = IF n < BufferLen THEN 0
                           ELSE (IF rounds = 0 THEN LoopRounds ELSE rounds) - 1
              /\ track' = IF track.pos = pos /\ Fills(n)
                          THEN [pos |-> pos', handled |-> Len(handled')]
                          ELSE track
              /\ UNCHANGED << script, client, sent, status >>

Lesser(a, b) == IF a < b THEN a ELSE b

\* The bytes of one round go into the header; __on_read does nothing yet.
ReadHeader == /\ Round
              /\ incoming = NoPacket
              /\ pos < sent
              /\ UNCHANGED handled
              /\ LET n == Lesser(BufferLen, sent - pos) IN
                 /\ \E h \in HeaderRead(pos, n) :
                       incoming' = Packet("read_header", h, HeaderOf(pos, n))
                 /\ Consume(n)

\* A mutant of HandlePacket that drops the CLIENT_PLAYER_INFO messages.
HandlePacket_drop(n) ==
    IF incoming.type \in Served \ {4}
    THEN Append(handled,
                [msg   |-> incoming.msg,
                 whole |-> incoming.msg # 0 /\ n = script[incoming.msg].body])
    ELSE handled

\* __handle_packet: a packet whose type has no Read or no Handle function is
\* dropped.  whole says if the n bytes are the body of the packet's message.
HandlePacket(n) ==
    IF incoming.type \in Served
    THEN Append(handled,
                [msg   |-> incoming.msg,
                 whole |-> incoming.msg # 0 /\ n = script[incoming.msg].body])
    ELSE handled

\* A mutant of ReadBody that leaves the handled packet in player->incoming_packet.
ReadBody_keepsPacket == /\ Round
                        /\ incoming # NoPacket
                        /\ BufferLen > 0
                        /\ pos < sent
                        /\ LET n == Lesser(BufferLen, sent - pos) IN
                           /\ handled' = HandlePacket(n)
                           /\ Consume(n)
                        /\ incoming' = Alloc

\* The bytes of one round go into the body; __on_read takes the packet as
\* complete, handles it, and frees it.
ReadBody == /\ Round
            /\ incoming # NoPacket
            /\ BufferLen > 0
            /\ pos < sent
            /\ LET n == Lesser(BufferLen, sent - pos) IN
               /\ handled' = HandlePacket(n)
               /\ Consume(n)
            /\ incoming' = NoPacket

-----------------------------------------------------------------------------
Read == \/ ReadNoMemory \/ ReadNoBuffers \/ ReadEof \/ ReadError
        \/ ReadAgain \/ ReadHeader \/ ReadBody

Segment == \E p \in SegmentEnds(script) \cup {Total} : Deliver(p)

Next == Segment \/ Hangup \/ Reset \/ Read

Spec == Init /\ [][Next]_vars

\* The loop polls a readable socket again and again, the network delivers what
\* the client sent, and the client leaves when it has sent everything.
FairSpec == /\ Spec
            /\ WF_vars(Read)
            /\ WF_vars(Segment)
            /\ WF_vars(Hangup)

-----------------------------------------------------------------------------
(* Properties.                                                              *)

TypeOK == /\ script \in Scripts
          /\ client \in {"sending", "left", "reset"}
          /\ sent \in 0 .. Total
          /\ pos \in 0 .. sent
          /\ status \in {"open", "UV_ENOBUFS", "UV_EOF", "UV_ECONNRESET"}
          /\ rounds \in 0 .. LoopRounds
          /\ incoming \in [state : {"none", "read_header", "read_data"},
                           len : 0 .. UINT16_MAX, type : 0 .. 255, msg : Messages \cup {0}]
          /\ handled \in Seq([msg : Messages \cup {0}, whole : BOOLEAN])
          /\ track \in [pos : 0 .. pos, handled : 0 .. Len(handled)]

\* Every read so far has filled the buffer it was given.
OnTrack == track.pos = pos

\* The message i has been read to its end, on track.
IsRead(i) == Start[i + 1] <= track.pos /\ incoming.msg # i

\* The message i has been passed to its handlers, as it was sent.
IsHandled(i) == \E k \in 1 .. Len(handled) : handled[k] = [msg |-> i, whole |-> TRUE]

\* A body whose length the int16_t of __alloc_buffer can tell.
Tellable(m) == m.body < 32768

\* However the bytes arrive, no message is handled twice or after a later one:
\* the packet is dropped once it was handled (server.c:76-77).
HandledOnceInOrder ==
    TypeOK /\ \A j, k \in 1 .. Len(handled) :
        j < k /\ handled[j].msg # 0 /\ handled[k].msg # 0
          => handled[j].msg < handled[k].msg

\* The buffer for a body of up to 32767 bytes is as long as the body: no byte of
\* the next message is read into it, and none of its own is left out
\* (server.c:104-110).
BufferFitsBody ==
    incoming.msg # 0 /\ Tellable(script[incoming.msg]) =>
        BufferLen = script[incoming.msg].body

\* packet.h:44-45: all messages have "the packet length as a 16-bit unsigned
\* integer", so the buffer for a body is that long for any length that a header
\* can tell.
BufferIsOfUnsignedLength ==
    incoming.msg # 0 => BufferLen = script[incoming.msg].body

\* As long as each read fills its buffer, a message that was read to its end has
\* been passed whole to its handlers (packet.h:160), and the server runs out of
\* buffers, and so closes the connection by itself, only between two messages
\* for want of memory (server.c:92), or at a message that has no body
\* (server.c:104).
HandlesEveryMessage ==
    /\ \A i \in Messages : IsRead(i) /\ script[i].type \in Served => IsHandled(i)
    /\ OnTrack /\ status = "UV_ENOBUFS" =>
          \/ /\ incoming = NoPacket
             /\ \E i \in 1 .. Len(script) + 1 : pos = Start[i]
          \/ incoming.msg # 0 /\ script[incoming.msg].body = 0

\* Reading a connection implements MessageStream as far as it stays on track;
\* from there on the abstract stream stands still.
Stream == INSTANCE MessageStream
            WITH taken  <- Cardinality({i \in Messages : IsRead(i)}),
                 served <- [k \in 1 .. track.handled |-> handled[k].msg]
StreamSpec == Stream!Spec

\* Every connection is closed in the end, however its bytes arrived.  If it was
\* the client that left, and no read fell short, every message that has handlers
\* has reached them by then.
ReadsEverything ==
    <>(/\ status # "open"
       /\ status = "UV_EOF" /\ OnTrack =>
             \A i \in Messages : script[i].type \in Served => IsHandled(i))

-----------------------------------------------------------------------------
(* The inductive invariant of PacketReaderProofs.                           *)

\* The packet of a known message has its header, and all of the header was read.
PacketFollowsHeader ==
    incoming.msg # 0 => /\ pos = Start[incoming.msg] + PACKET_HEADER_SIZE
                        /\ incoming.len = Length(script[incoming.msg])
                        /\ incoming.type = script[incoming.msg].type

\* The headers of the handled messages lie behind, before that of the packet.
HandledLieBehind ==
    \A k \in 1 .. Len(handled) : handled[k].msg # 0 =>
        /\ Start[handled[k].msg] + PACKET_HEADER_SIZE <= pos
        /\ incoming.msg # 0 => handled[k].msg < incoming.msg

\* On track, the reader is between two messages, perhaps with an empty packet,
\* or inside one.
TrackAtMessage ==
    OnTrack /\ incoming.msg = 0 =>
        /\ \E i \in 1 .. Len(script) + 1 : pos = Start[i]
        /\ incoming.len = 0

IInv == /\ TypeOK
        /\ client = "left" => sent = Total
        /\ incoming.state = "none" => incoming = NoPacket
        /\ PacketFollowsHeader
        /\ HandledLieBehind
        /\ HandledOnceInOrder
        /\ TrackAtMessage
        /\ OnTrack => track.handled = Len(handled)
        /\ HandlesEveryMessage

=============================================================================
