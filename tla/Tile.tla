-------------------------------- MODULE Tile --------------------------------
(***************************************************************************)
(* A tile of the world (struct tile, src/tile.c).  Header fields, flag     *)
(* bytes and colours are the sets of their bits that are one, so that `|=' *)
(* is \cup, `&=' is \cap and a test is membership.  The two flag bytes of  *)
(* a packed tile that depend on others are derived as in tile_pack.        *)
(***************************************************************************)
EXTENDS Integers, Sequences, FiniteSets

CONSTANTS MaxByteType,  \* the largest type that fits in a byte, 255
          GameTypes     \* the entries of game->tileFrameImportant, 419

\* struct tile, as it is in the zeroed pages of a new tile map.
ZeroTile == [type |-> 0, wall |-> 0, liquid |-> 0, s_tile_header |-> {},
             b_tile_header |-> {}, frame_x |-> 0, frame_y |-> 0]

-----------------------------------------------------------------------------
(* The bits of the headers.                                                *)

ActiveBit    == 5
InactiveBit  == 6
HalfbrickBit == 10
ActuatorBit  == 11

\* The bits of the wires 1, 2 and 3, and of the slope.
WireBit(w) == 6 + w
SlopeBits  == 12 .. 14

LavaBit  == 5
HoneyBit == 6
Wire4Bit == 7

\* The bits of a colour, which are below the others in both headers.
ColourBits == 0 .. 4

tile_active(t)      == ActiveBit \in t.s_tile_header
tile_inactive(t)    == InactiveBit \in t.s_tile_header
tile_actuator(t)    == ActuatorBit \in t.s_tile_header
tile_half_brick(t)  == HalfbrickBit \in t.s_tile_header
tile_wire(t, w)     == WireBit(w) \in t.s_tile_header
tile_colour(t)      == t.s_tile_header \cap ColourBits
tile_wall_colour(t) == t.b_tile_header \cap ColourBits
tile_lava(t)        == LavaBit \in t.b_tile_header
tile_honey(t)       == HoneyBit \in t.b_tile_header
tile_wire4(t)       == Wire4Bit \in t.b_tile_header

\* The bits of the flag bytes, in files and in what clients are sent.
ActiveFlag == 1
WallFlag   == 2
ShortFlag  == 5

WireFlags == 1 .. 3

ActuatorFlag   == 1
InactiveFlag   == 2
ColourFlag     == 3
WallColourFlag == 4

\* BIT_SET or BIT_CLEAR of a bit of s_tile_header.
SetBit(t, bit, val) ==
    [t EXCEPT !.s_tile_header = IF val THEN @ \cup {bit} ELSE @ \ {bit}]

tile_set_active(t, val)   == SetBit(t, ActiveBit, val)
tile_set_inactive(t, val) == SetBit(t, InactiveBit, val)
tile_set_actuator(t, val) == SetBit(t, ActuatorBit, val)

tile_set_wires(t, ws) ==
    [t EXCEPT !.s_tile_header = (@ \ {WireBit(w) : w \in WireFlags}) \cup {WireBit(w) : w \in ws}]

\* The setters of colours and liquids clear bits and never set any: they use
\* `&=' on a header that has none of the bits they are to set.
tile_set_colour(t, colour) ==
    [t EXCEPT !.s_tile_header = @ \cap ((5 .. 15) \cup colour)]

tile_set_wall_colour(t, colour) ==
    [t EXCEPT !.s_tile_header = @ \cap ((5 .. 7) \cup colour)]

tile_set_liquid_kind(t) == [t EXCEPT !.b_tile_header = @ \ {LavaBit}]

-----------------------------------------------------------------------------
(* tile_pack and tile_pack_completely: what a client is sent of a tile.  A *)
(* field that is not sent is 0.  The game says whether frames are sent.    *)

\* The game has no entry for the type: tile_pack raises SIGINT, which ends the
\* process.  The test lets the type pass that is one behind the last entry.
tile_pack_raises(t) == tile_active(t) /\ t.type > GameTypes

LiquidFlags(t) == CASE t.liquid = 0 -> {}
                    [] t.liquid # 0 /\ tile_lava(t) -> {4}
                    [] t.liquid # 0 /\ ~ tile_lava(t) /\ tile_honey(t) -> {3, 4}
                    [] OTHER -> {3}

\* The slope in bits 4 to 6 of the second flag byte; a half brick has 1 there.
SlopeFlags(t) == IF tile_half_brick(t) THEN {4}
                 ELSE LET slope == {b - 12 : b \in t.s_tile_header \cap SlopeBits} IN
                      CASE slope = {} -> {}
                        [] slope # {} /\ 0 \notin slope -> {4} \cup {b + 4 : b \in slope}
                        [] 0 \in slope /\ 1 \notin slope -> {5} \cup {b + 4 : b \in slope \ {0}}
                        [] slope = {0, 1} -> {6}
                        [] OTHER -> {7}

\* tile_pack of a tile for which it does not raise.
tile_pack(t, frames) ==
    LET flags3 == (IF tile_actuator(t) THEN {ActuatorFlag} ELSE {})
                  \cup (IF tile_inactive(t) THEN {InactiveFlag} ELSE {})
                  \cup (IF tile_active(t) /\ tile_colour(t) # {} THEN {ColourFlag} ELSE {})
                  \cup (IF t.wall # 0 /\ tile_wall_colour(t) # {} THEN {WallColourFlag} ELSE {})
                  \cup (IF tile_wire4(t) THEN {5} ELSE {})
        flags2 == {w \in WireFlags : tile_wire(t, w)} \cup SlopeFlags(t)
                  \cup (IF flags3 # {} THEN {0} ELSE {})
        flags1 == (IF tile_active(t) THEN {ActiveFlag} ELSE {})
                  \cup (IF tile_active(t) /\ t.type > MaxByteType THEN {ShortFlag} ELSE {})
                  \cup (IF t.wall # 0 THEN {WallFlag} ELSE {})
                  \cup LiquidFlags(t)
                  \cup (IF flags2 # {} THEN {0} ELSE {})
    IN [flags1 |-> flags1, flags2 |-> flags2, flags3 |-> flags3,
        type   |-> IF tile_active(t) THEN t.type ELSE 0,
        frames |-> IF tile_active(t) /\ frames THEN << t.frame_x, t.frame_y >> ELSE << >>,
        wall   |-> t.wall,
        liquid |-> t.liquid]

Count(conds) == Cardinality({k \in DOMAIN conds : conds[k]})

\* How many bytes tile_pack_completely writes: the flag bytes, and each field
\* that is there.
tile_pack_completely(t, frames) ==
    LET packed == tile_pack(t, frames) IN
    1 + Count(<< 0 \in packed.flags1, 0 \in packed.flags2,
                 ActiveFlag \in packed.flags1, ShortFlag \in packed.flags1,
                 ColourFlag \in packed.flags3, packed.wall # 0,
                 WallColourFlag \in packed.flags3,
                 packed.liquid # 0 >>)
      + 2 * Len(packed.frames)

=============================================================================
