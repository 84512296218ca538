----------------------------- MODULE WorldLoad -----------------------------
(***************************************************************************)
(* Loading a world file (world_init, src/world.c): the headers, the tiles, *)
(* and the first compression of all sections.  The tile map is a shared    *)
(* mapping of a file, so it outlives the process: a server that was        *)
(* stopped while it loaded finds the tiles it had loaded.  Behind the      *)
(* headers the file holds one record per run of equal tiles of a column,   *)
(* of fields of one or two bytes, and may have been cut off anywhere.  The *)
(* map is found by the number of the world, so the world file may also     *)
(* have been saved again, with other tiles, since the map was written.     *)
(***************************************************************************)
EXTENDS WorldHeader, Tile

CONSTANTS MaxTilesX, MaxTilesY,
          OtherFiles,   \* the files that may be found after a restart
          GameFlags,    \* the packed table of the game: the bits of each entry
          TimerType,    \* the type whose frame_y is not loaded, 144
          MaxStops      \* bound on how often the server is stopped

\* A record has the flag bytes, the fields they announce, and the number of
\* tiles below the first one that are equal to it.  Beside the numbers of
\* WorldHeader a file has: flags, the bytes with a bit per type; columns, per x
\* its records; and end, the number of their fields that are in the file.
Records == [flags1 : SUBSET (0 .. 7), flags2 : SUBSET (0 .. 7), flags3 : SUBSET (0 .. 7),
            type : Nat, frame_x : Int, frame_y : Int, colour : SUBSET ColourBits,
            wall : Nat, wall_colour : SUBSET ColourBits, liquid : Nat, copies : Nat]

ASSUME FilesAssumption ==
    /\ MaxTilesX \in Nat \ {0} /\ MaxTilesY \in Nat \ {0}
    /\ MaxStops \in Nat /\ MaxByteType \in Nat
    /\ \A f \in Files :
          /\ f.flags \in [0 .. ((f.types + 7) \div 8) - 1 -> SUBSET (0 .. 7)]
          /\ f.columns \in [0 .. MaxTilesX - 1 -> Seq(Records)]
          /\ f.end \in Nat
    /\ OtherFiles \subseteq Files

\* The packed table is an array of int of four bytes, which ptGameInitialize
\* copies to an array of bool.
Copied == 4 * Cardinality(DOMAIN GameFlags)

ASSUME GameAssumption ==
    /\ DOMAIN GameFlags \in {0 .. n - 1 : n \in 0 .. GameTypes}
    /\ GameTypes \in Nat /\ Copied <= GameTypes

\* The row of the first tile of each record of a column.
FirstRow(records) ==
    LET first[k \in DOMAIN records] ==
            IF k = 1 THEN 0 ELSE first[k - 1] + records[k - 1].copies + 1
    IN first

\* The flag bytes of a record follow from what it has, and the records of a
\* column have all its tiles.
WellSaved(r) ==
    /\ 0 \notin r.flags1 => r.flags2 = {}
    /\ 0 \notin r.flags2 => r.flags3 = {}
    /\ ActiveFlag \notin r.flags1 => r.type = 0
    /\ ShortFlag \in r.flags1 <=> r.type > MaxByteType
    /\ WallFlag \in r.flags1 <=> r.wall # 0
    /\ r.flags1 \cap {3, 4} # {} <=> r.liquid # 0
    /\ r.flags1 \cap {6, 7} # {} <=> r.copies # 0
    /\ 7 \in r.flags1 => r.copies > 2

ASSUME SavedAssumption ==
    \A f \in Files : \A x \in 0 .. MaxTilesX - 1 :
        LET records == f.columns[x] IN
        /\ \A k \in DOMAIN records : WellSaved(records[k])
        /\ records # << >>
        /\ FirstRow(records)[Len(records)] + records[Len(records)].copies + 1 = MaxTilesY

VARIABLES
    pc,         \* "header", "tiles", "loaded", "failed", "served" or "killed"
    i, flag2,   \* the loop over the types: its index, and the bit of flag1
    consumed,   \* how many flag bytes have been read
    important,  \* world->important
    column,     \* the loop over the tiles: its x,
    row,        \* its y,
    record,     \* the index of the next record of column x
    parts,      \* and how many fields of records have been read
    tiles,      \* the tile map, by <<x, y>>
    sections,   \* world->section_data: the packed tiles, by <<x, y>>
    stops,      \* how often the server was stopped so far
    replaced    \* a history variable: it found another file when it came back

flagVars == << i, flag2, consumed, important >>
loopVars == << column, row, record, parts >>
vars == << headerVars, pc, flagVars, loopVars, tiles, sections, stops, replaced >>

Positions == (0 .. MaxTilesX - 1) \X (0 .. MaxTilesY - 1)

FlagBytes == (file.types + 7) \div 8

\* The table of the game that says of which types frames are sent: the bytes of
\* the copied integers.  What is behind them is not initialised, and the entry of
\* the type GameTypes is behind the table itself.
tileFrameImportants ==
    {[t \in 0 .. GameTypes |->
        IF t < Copied THEN t % 4 = 0 /\ GameFlags[t \div 4] # {} ELSE rest[t]] :
     rest \in [Copied .. GameTypes -> BOOLEAN]}

Init == /\ HeaderInit
        /\ pc = "header"
        /\ i = 0 /\ flag2 = 7 /\ consumed = 0
        /\ important = [t \in {} |-> FALSE]
        /\ column = 0 /\ row = 0 /\ record = 1 /\ parts = 0
        /\ sections = [p \in {} |-> 0]
        /\ tiles = [p \in Positions |-> ZeroTile]
        /\ stops = 0
        /\ replaced = FALSE

-----------------------------------------------------------------------------
(* The headers.  In __world_read_file_header there is one bit per type,    *)
(* eight to a byte.  flag2 is the number of the bit that is one; at bit 7  *)
(* the next byte is read, and stays as it is at the end of the file.       *)

FlagByte(n) == LET there == Min({n, file.cut - fields}) IN
               IF there <= 0 THEN {} ELSE file.flags[there - 1]

ReadImportant ==
    /\ pc = "header" /\ At({"flags"})
    /\ i < file.types
    /\ flag2' = IF flag2 # 7 THEN flag2 + 1 ELSE 0
    /\ consumed' = IF flag2 # 7 THEN consumed ELSE consumed + 1
    /\ important' = [t \in 0 .. i |-> IF t = i THEN flag2' \in FlagByte(consumed')
                                      ELSE important[t]]
    /\ i' = i + 1
    /\ UNCHANGED << headerVars, pc, loopVars, tiles, sections, stops, replaced >>

ReadHeader ==
    /\ pc = "header"
    /\ At({"flags"}) => i = file.types
    /\ HeaderNext
    /\ UNCHANGED << pc, flagVars, loopVars, tiles, sections, stops, replaced >>

\* The headers were read, and the tiles are mapped, or cannot be: that is
\* logged, and the sections are compressed from where no tiles are.
StartTiles ==
    /\ pc = "header" /\ result = "ok"
    /\ \/ pc' = "tiles" /\ UNCHANGED << result, faults >>
       \/ Fault /\ result' = "crashed" /\ UNCHANGED pc
    /\ UNCHANGED << file, at, fields, reader, strings, flagVars, loopVars,
                    tiles, sections, stops, replaced >>

-----------------------------------------------------------------------------
(* __world_load_tile.                                                      *)

\* The fields of a record, in the order they are read.
FieldsOf(r) ==
    LET When(cond, s) == IF cond THEN s ELSE << >> IN
    << "flags1" >> \o When(0 \in r.flags1, << "flags2" >>)
    \o When(0 \in r.flags2, << "flags3" >>)
    \o When(ActiveFlag \in r.flags1,
            << "type" >> \o When(important[r.type], << "frame_x", "frame_y" >>)
                         \o When(ColourFlag \in r.flags3, << "colour" >>))
    \o When(WallFlag \in r.flags1, << "wall" >> \o When(WallColourFlag \in r.flags3, << "wall_colour" >>))
    \o When(r.flags1 \cap {3, 4} # {}, << "liquid" >>)
    \o When(r.copies # 0, << "copies" >>)

\* The flags and fields that are read of a record when only those of Had are in
\* the file: reading a byte that is missing succeeds and leaves what was there.
Read(r, Had, t) ==
    LET flags1 == IF "flags1" \in Had THEN r.flags1 ELSE {}
        flags2 == IF 0 \in flags1 /\ "flags2" \in Had THEN r.flags2 ELSE {}
        flags3 == IF 0 \in flags2 /\ "flags3" \in Had THEN r.flags3 ELSE {}
    IN [flags1 |-> flags1, flags2 |-> flags2, flags3 |-> flags3,
        type    |-> IF "type" \in Had THEN r.type ELSE 0,
        frame_x |-> IF "frame_x" \in Had THEN r.frame_x ELSE t.frame_x,
        frame_y |-> IF "frame_y" \in Had THEN r.frame_y ELSE t.frame_y,
        colour  |-> r.colour,
        wall    |-> IF "wall" \in Had THEN r.wall ELSE t.wall,
        wall_colour |-> r.wall_colour,
        liquid  |-> IF "liquid" \in Had THEN r.liquid ELSE t.liquid,
        copies  |-> IF flags1 \cap {6, 7} # {} /\ "copies" \in Had THEN r.copies
                    ELSE (IF 6 \in flags1 THEN 1 ELSE 0) + (IF 7 \in flags1 THEN 2 ELSE 0)]

\* A field of two bytes that is missing is an error: the type of some tiles,
\* and the frame of others.
TypeFails(g, Had)  == ActiveFlag \in g.flags1 /\ ShortFlag \in g.flags1 /\ "type" \notin Had
FrameFails(g, Had) == ActiveFlag \in g.flags1 /\ important[g.type] /\ "frame_y" \notin Had

\* The tile after each part of the routine.
WithType(g, t, Had) ==
    LET active == tile_set_active([t EXCEPT !.type = 0], TRUE) IN
    CASE ActiveFlag \notin g.flags1 -> [t EXCEPT !.type = 0]
      [] ActiveFlag \in g.flags1 /\ TypeFails(g, Had) -> active
      [] ActiveFlag \in g.flags1 /\ ~ TypeFails(g, Had) -> [active EXCEPT !.type = g.type]

WithFrame(g, t) ==
    CASE ActiveFlag \notin g.flags1 -> t
      [] ActiveFlag \in g.flags1 /\ ~ important[g.type] ->
            [t EXCEPT !.frame_x = -1, !.frame_y = -1]
      [] OTHER -> [t EXCEPT !.frame_x = g.frame_x,
                            !.frame_y = IF g.type = TimerType THEN 0 ELSE g.frame_y]

WithColours(g, t) ==
    LET u == IF ActiveFlag \in g.flags1 /\ ColourFlag \in g.flags3
             THEN tile_set_colour(t, g.colour) ELSE t
    IN IF WallFlag \in g.flags1 /\ WallColourFlag \in g.flags3
       THEN tile_set_wall_colour(u, g.wall_colour) ELSE u

WithWallAndLiquid(g, t) ==
    LET u == IF WallFlag \in g.flags1 THEN [t EXCEPT !.wall = g.wall] ELSE t IN
    IF g.flags1 \cap {3, 4} = {} THEN u ELSE tile_set_liquid_kind([u EXCEPT !.liquid = g.liquid])

\* A mutant of WithSwitches that sets the switches and never clears them.
WithSwitches_sets(g, t) ==
    LET u == IF g.flags2 \ {0} # {} THEN tile_set_wires(t, g.flags2 \cap WireFlags) ELSE t
    IN tile_set_inactive(tile_set_actuator(u, tile_actuator(u) \/ ActuatorFlag \in g.flags3),
                         tile_inactive(u) \/ InactiveFlag \in g.flags3)

WithSwitches(g, t) ==
    LET u == IF g.flags2 \ {0} # {} THEN tile_set_wires(t, g.flags2 \cap WireFlags) ELSE t
    IN tile_set_inactive(tile_set_actuator(u, ActuatorFlag \in g.flags3),
                         InactiveFlag \in g.flags3)

LoadTile(g, t, Had) ==
    WithSwitches(g, WithWallAndLiquid(g, WithColours(g, WithFrame(g, WithType(g, t, Had)))))

-----------------------------------------------------------------------------
(* __world_read_tile: the columns, the records of a column, the copies.    *)

\* What is read at the end of the file, where no record is left.
Nothing == [flags1 |-> {}, flags2 |-> {}, flags3 |-> {}, type |-> 0,
            frame_x |-> 0, frame_y |-> 0, colour |-> {}, wall |-> 0,
            wall_colour |-> {}, liquid |-> 0, copies |-> 0]

AtEnd == parts >= file.end \/ record > Len(file.columns[column])

\* The record that is read next, and those of its fields that are in the file.
NextRecord == IF AtEnd THEN Nothing ELSE file.columns[column][record]
Present    == LET all == FieldsOf(NextRecord) IN
              {all[k] : k \in {j \in DOMAIN all : parts + j <= file.end}}

\* A mutant of Run, one tile too long.
Run_long(copies)  == {p \in Positions : p[1] = column /\ p[2] \in row .. row + copies + 1}

\* The tiles of the map that a run of copies tiles below <<x, y>> covers.
Run(copies) == {p \in Positions : p[1] = column /\ p[2] \in row .. row + copies}


\* The next position: `y += num_copies', and the increments of the loops.
Advance(copies) ==
    IF row + copies + 1 < MaxTilesY
    THEN /\ row' = row + copies + 1
         /\ record' = record + 1
         /\ UNCHANGED << column, pc >>
    ELSE /\ row' = 0
         /\ record' = 1
         /\ column' = column + 1
         /\ pc' = IF column + 1 = MaxTilesX THEN "loaded" ELSE "tiles"

ReadTile ==
    /\ pc = "tiles"
    /\ LET Had  == Present
           g    == Read(NextRecord, Had, tiles[<<column, row>>])
           tile == LoadTile(g, tiles[<<column, row>>], Had)
       IN /\ ~ TypeFails(g, Had) /\ ~ FrameFails(g, Had)
          /\ tiles' = [p \in Positions |-> IF p \in Run(g.copies) THEN tile ELSE tiles[p]]
          /\ Advance(g.copies)
    /\ parts' = parts + Len(FieldsOf(NextRecord))
    /\ UNCHANGED << headerVars, flagVars, sections, stops, replaced >>

\* A field of two bytes is missing: the tile keeps what it got until then.
ReadTileFails ==
    /\ pc = "tiles"
    /\ LET Had == Present
           t   == tiles[<<column, row>>]
           g   == Read(NextRecord, Had, t)
       IN /\ TypeFails(g, Had) \/ FrameFails(g, Had)
          /\ tiles' = [tiles EXCEPT ![<<column, row>>] =
                [WithType(g, t, Had) EXCEPT !.frame_x = g.frame_x]]
    /\ pc' = "failed"
    /\ UNCHANGED << headerVars, flagVars, loopVars, sections, stops, replaced >>

\* world_section_init: compressing all sections, here one per column, stops
\* where one fails; world_init looks neither at its result nor at that of the
\* loader.
InitSections(n) ==
    /\ pc \in {"loaded", "failed"}
    /\ \A p \in Positions : p[1] < n => ~ tile_pack_raises(tiles[p])
    /\ IF n = MaxTilesX THEN UNCHANGED faults ELSE Fault
    /\ \E tileFrameImportant \in tileFrameImportants :
          sections' = [p \in {q \in Positions : q[1] < n} |->
                          tile_pack(tiles[p], tileFrameImportant[tiles[p].type])]
    /\ pc' = "served"
    /\ UNCHANGED << file, at, fields, reader, result, strings, flagVars,
                    loopVars, tiles, stops, replaced >>

\* It comes to a tile of a type that the game does not know.
InitSectionsRaises ==
    /\ pc \in {"loaded", "failed"}
    /\ \E p \in Positions : tile_pack_raises(tiles[p])
    /\ pc' = "killed"
    /\ UNCHANGED << headerVars, flagVars, loopVars, tiles, sections, stops, replaced >>

\* The game is freed, with its memory.
Shutdown ==
    /\ result = "error" \/ pc = "served"
    /\ FreeReader
    /\ UNCHANGED << pc, flagVars, loopVars, tiles, sections, stops, replaced >>

\* The server stops at any time and is started again: its memory is lost, the
\* tile map is not, and the world file may be another one.
Restart ==
    /\ stops < MaxStops
    /\ stops' = stops + 1
    /\ file' \in {file} \cup OtherFiles
    /\ replaced' = (replaced \/ file' # file)
    /\ UNCHANGED << faults, tiles >>
    /\ at' = 0 /\ fields' = 0 /\ reader' = "none" /\ result' = "reading" /\ strings' = {}
    /\ pc' = "header"
    /\ i' = 0 /\ flag2' = 7 /\ consumed' = 0
    /\ important' = [t \in {} |-> FALSE]
    /\ column' = 0 /\ row' = 0 /\ record' = 1 /\ parts' = 0
    /\ sections' = [p \in {} |-> 0]

Next == \/ ReadImportant \/ ReadHeader \/ StartTiles \/ ReadTile \/ ReadTileFails
        \/ \E n \in 0 .. MaxTilesX : InitSections(n)
        \/ InitSectionsRaises \/ Shutdown \/ Restart

Spec == Init /\ [][Next]_vars

-----------------------------------------------------------------------------
(* Properties.                                                             *)

\* The record that the tile at p was saved in.
Saved(p) ==
    LET records == file.columns[p[1]] IN
    records[CHOOSE k \in DOMAIN records :
                p[2] - FirstRow(records)[k] \in 0 .. records[k].copies]

\* The tiles that were read, all of them from what is in the file.
Done == {p \in Positions : /\ parts <= file.end
                           /\ p[1] < column \/ (p[1] = column /\ p[2] < row)}

\* What a record has is in a packed tile as it was saved; that is not promised of
\* colours, slopes and the kind of a liquid.
HasSaved(packed, r) ==
    /\ r.flags1 \cap {ActiveFlag, WallFlag, ShortFlag} \subseteq packed.flags1
    /\ ActiveFlag \in r.flags1 => packed.type = r.type
    /\ WallFlag \in r.flags1 => packed.wall = r.wall
    /\ r.flags1 \cap {3, 4} # {} => packed.flags1 \cap {3, 4} # {} /\ packed.liquid = r.liquid
    /\ r.flags2 \ {0} # {} => packed.flags2 \cap WireFlags = r.flags2 \cap WireFlags
    /\ packed.flags3 \cap {ActuatorFlag, InactiveFlag} = r.flags3 \cap {ActuatorFlag, InactiveFlag}

\* And a packed tile has only what the record has.
HasOnlySaved(packed, r) ==
    /\ packed.flags1 \cap {ActiveFlag, WallFlag, ShortFlag} \subseteq r.flags1
    /\ packed.flags1 \cap {3, 4} # {} => r.flags1 \cap {3, 4} # {}
    /\ packed.flags2 \cap WireFlags \subseteq r.flags2
    /\ packed.type \in {0, r.type} /\ packed.wall \in {0, r.wall}
    /\ packed.liquid \in {0, r.liquid}

TypeOK == /\ HeaderTypeOK
          /\ pc \in {"header", "tiles", "loaded", "failed", "served", "killed"}
          /\ i \in 0 .. file.types
          /\ flag2 \in 0 .. 7
          /\ consumed \in 0 .. FlagBytes
          /\ important \in [0 .. i - 1 -> BOOLEAN]
          /\ column \in 0 .. MaxTilesX /\ row \in 0 .. MaxTilesY - 1
          /\ record \in Nat \ {0} /\ parts \in Nat
          /\ DOMAIN tiles = Positions
          /\ \A p \in Positions : tiles[p].s_tile_header \subseteq 0 .. 15
          /\ DOMAIN sections \subseteq Positions
          /\ stops \in 0 .. MaxStops
          /\ replaced \in BOOLEAN

WORLD_SECTION_WIDTH == 200

\* A tile that was loaded, and the tile in the data of its section, is packed for
\* the clients with all that it was saved with, but for its frames, colours and
\* slope and the kind of a liquid, whatever runs of equal tiles the file has, and
\* also where the tile map holds tiles of a load that was stopped, of one that
\* failed, or of another file (world.c:198-392 and tile.c:395-499).  Unless it is
\* of another file, it has nothing else: the loader does not clear what a record
\* lacks, except for wires, when it has others, and switches.  A row of such
\* tiles, even with the frames of each, and the rectangle fit in the 13 bytes per
\* tile that the compressor has for them (world_section.c:48-83).
SentAsSaved ==
    /\ \A p \in Done :
         LET packed == IF p \in DOMAIN sections THEN sections[p]
                       ELSE tile_pack(tiles[p], FALSE)
         IN HasSaved(packed, Saved(p)) /\ (~ replaced => HasOnlySaved(packed, Saved(p)))
    /\ \A tile \in {tiles[p] : p \in Positions} :
         12 + WORLD_SECTION_WIDTH * tile_pack_completely(tile, TRUE) <= 13 * WORLD_SECTION_WIDTH

\* Loading never touches a tile that it has not come to, and none at all of a
\* world whose headers it refuses (world.c:381-386 and :954-962).
Reached(p) == \/ p[1] < column \/ (p[1] = column /\ p[2] < row)
              \/ p = <<column, row>> /\ pc \in {"failed", "served", "killed"}

NothingAhead ==
    TypeOK /\ (stops = 0 => \A p \in Positions :
                     tiles[p] # ZeroTile => Reached(p) /\ result = "ok")

-----------------------------------------------------------------------------
(* The inductive invariant of the load.                                    *)

Tiles == [type : Nat, wall : Nat, liquid : Nat, s_tile_header : SUBSET (0 .. 15),
          b_tile_header : SUBSET (0 .. 7), frame_x : Int, frame_y : Int]

\* Which byte the loop over the types is in.
FlagsIInv ==
    /\ i \in 0 .. file.types /\ flag2 \in 0 .. 7 /\ consumed \in Nat
    /\ i + 7 = 8 * consumed + flag2
    /\ important \in [0 .. i - 1 -> BOOLEAN]

LoopIInv ==
    /\ column \in 0 .. MaxTilesX /\ row \in 0 .. MaxTilesY - 1
    /\ record \in Nat \ {0} /\ parts \in Nat
    /\ pc = "header" => column = 0
    /\ pc = "tiles" => column < MaxTilesX

LoadIInv ==
    /\ HeaderIInv
    /\ pc \in {"header", "tiles", "loaded", "failed", "served", "killed"}
    /\ pc # "header" => result = "ok"
    /\ FlagsIInv
    /\ LoopIInv
    /\ tiles \in [Positions -> Tiles]
    /\ DOMAIN sections \subseteq Positions
    /\ stops \in 0 .. MaxStops /\ replaced \in BOOLEAN
    /\ stops = 0 => \A p \in Positions : tiles[p] # ZeroTile => Reached(p) /\ pc # "header"

\* The bits that no tile of the map has: those of colours, slopes and liquids.
Unpainted(t) == t.s_tile_header \subseteq {5, 6, 7, 8, 9, 11} /\ t.b_tile_header = {}

\* What a tile never has but of the record that it was saved in, also of a load
\* of this file before this one.
Keeps(t, r) ==
    /\ tile_active(t) => ActiveFlag \in r.flags1
    /\ \A w \in WireFlags : tile_wire(t, w) => w \in r.flags2
    /\ t.wall \in {0, r.wall} /\ t.liquid \in {0, r.liquid}

\* What it has of the record when it was loaded.
IsLoaded(t, r) ==
    /\ ActiveFlag \in r.flags1 => tile_active(t)
    /\ tile_inactive(t) <=> InactiveFlag \in r.flags3
    /\ tile_actuator(t) <=> ActuatorFlag \in r.flags3
    /\ r.flags2 \ {0} # {} => \A w \in WireFlags : tile_wire(t, w) <=> w \in r.flags2
    /\ t.type = r.type /\ r.wall \in {0, t.wall} /\ r.liquid \in {0, t.liquid}

\* The loops are at the first tile of a record, as long as the file has records.
AtRecord ==
    /\ pc = "header" => column = 0 /\ row = 0 /\ record = 1 /\ parts = 0
    /\ pc = "tiles" /\ parts <= file.end =>
         record \in DOMAIN file.columns[column] /\ row = FirstRow(file.columns[column])[record]

\* The sections are what is packed of their tiles, but for the frames.
Packed ==
    /\ pc # "served" => DOMAIN sections = {}
    /\ \A p \in DOMAIN sections : \A f \in {"flags1", "flags2", "flags3", "type", "wall", "liquid"} :
          sections[p][f] = tile_pack(tiles[p], FALSE)[f]

SentIInv ==
    /\ LoadIInv /\ AtRecord /\ Packed
    /\ \A p \in Positions : Unpainted(tiles[p])
    /\ ~ replaced => \A p \in Positions : Keeps(tiles[p], Saved(p))
    /\ \A p \in Done : IsLoaded(tiles[p], Saved(p))

=============================================================================
