--------------------------- MODULE MCPacketReader ---------------------------
(***************************************************************************)
(* PacketReader on short conversations.  The types are those of the real   *)
(* handshake (src/packets): 1 CONNECT_REQUEST, 4 PLAYER_INFO, 6            *)
(* CONTINUE_CONNECTING2 and 8 GET_SECTION; the bodies are cut to a few     *)
(* bytes, except for those around the lengths that an int16_t can tell,    *)
(* the last of them the longest there are.                                 *)
(***************************************************************************)
EXTENDS PacketReader

Message(t, b) == [type |-> t, body |-> b]

\* The types that have both a Read and a Handle function (packet.c:46-99).
ServedTypes == {1, 2, 4, 5, 8, 16, 25, 42, 68}

\* Conversations of messages that all have bodies.
Bodied == { << Message(1, 2), Message(4, 1), Message(8, 2) >>,
            << Message(1, 1), Message(9, 2), Message(8, 3) >>,
            << Message(1, 4), Message(4, 1), Message(25, 2), Message(8, 1) >> }

\* One of them has no body.
Handshake == { << Message(1, 2), Message(6, 0), Message(8, 2) >>,
               << Message(4, 1), Message(2, 0), Message(8, 1) >> }

\* A long message is followed by one more.
Long == { << Message(1, 1), Message(25, b), Message(8, 2) >> : b \in {255, 32767, 32768, 65532} }

Conversations == Bodied \cup Handshake \cup Long

\* The network may cut the stream anywhere, but that of a long message only in
\* front of it and around its end: once the reader has lost track it would take
\* the body for thousands of short messages.
Cuts(s) == IF s \in Long THEN {4} \cup (s[2].body + 6 .. s[2].body + 9) ELSE 1 .. 20

\* The beginning of a text, and nothing.
Stray == {[len |-> 4, type |-> 1], [len |-> 0, type |-> 0]}
=============================================================================
