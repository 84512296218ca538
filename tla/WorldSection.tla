---------------------------- MODULE WorldSection ----------------------------
(***************************************************************************)
(* The world is sent to clients in sections, rectangles of tiles kept in   *)
(* compressed form (src/world_section.c).  This module models which tiles  *)
(* belong to which section, the table of dirty sections, the compression   *)
(* of all sections when the world is loaded, and the worker, a timer of    *)
(* the libuv loop, that compresses one dirty section per tick.  Tiles      *)
(* change between two ticks.                                               *)
(***************************************************************************)
EXTENDS Bitmap, FiniteSets

CONSTANTS WORLD_SECTION_WIDTH, WORLD_SECTION_HEIGHT, \* of a section, in tiles
          MaxTilesX, MaxTilesY, \* the size of the world, from the world file
          Tiles,                \* the tiles that change, <<x, y>>
          NoData,               \* a section that was never compressed
          MaxEdits,             \* bound on the changes of a tile
          MaxFaults             \* bound on failing compressions of the worker

max_sections_x == MaxTilesX \div WORLD_SECTION_WIDTH
max_sections_y == MaxTilesY \div WORLD_SECTION_HEIGHT
max_sections   == max_sections_x * max_sections_y

Sections == 0 .. max_sections - 1

\* The whole words of the section_dirty_size bytes of the dirty table.
DirtyWords == (max_sections \div 4) \div 4

\* Worlds are a whole number of sections, at least 16 of them.
ASSUME WorldAssumption ==
    /\ WORLD_SECTION_WIDTH \in Nat \ {0}
    /\ WORLD_SECTION_HEIGHT \in Nat \ {0}
    /\ MaxTilesX \in Nat \ {0}
    /\ MaxTilesY \in Nat \ {0}
    /\ MaxTilesX % WORLD_SECTION_WIDTH = 0
    /\ MaxTilesY % WORLD_SECTION_HEIGHT = 0
    /\ max_sections >= 16
    /\ Tiles \subseteq (0 .. MaxTilesX - 1) \X (0 .. MaxTilesY - 1)
    /\ MaxEdits \in Nat /\ MaxFaults \in Nat

\* Coordinates of tiles are passed as uint16_t.
ASSUME CoordinatesFit == MaxTilesX <= 65535 /\ MaxTilesY <= 65535

VARIABLES
    status,         \* "none", "partial" if compressing all failed, "ready"
    started,        \* the worker's timer runs
    tile,           \* how often each tile has changed
    section_data,   \* the tiles as of the last compression of each section
    section_dirty,  \* the dirty table
    faults          \* failing compressions of the worker so far

vars == << status, started, tile, section_data, section_dirty, faults >>

-----------------------------------------------------------------------------
(* Which tiles belong to which section.                                    *)

UInt16(n) == n % 65536

world_section_num_to_coords(section) ==
    [x |-> section \div max_sections_y, y |-> section % max_sections_y]

world_section_to_tile_rect(section) ==
    LET coords == world_section_num_to_coords(section) IN
    [x |-> coords.x * WORLD_SECTION_WIDTH, y |-> coords.y * WORLD_SECTION_HEIGHT,
     w |-> WORLD_SECTION_WIDTH, h |-> WORLD_SECTION_HEIGHT]

world_section_for_tile_coords(x, y) ==
    [x |-> (x \div WORLD_SECTION_WIDTH) * WORLD_SECTION_WIDTH,
     y |-> (y \div WORLD_SECTION_HEIGHT) * WORLD_SECTION_HEIGHT,
     w |-> WORLD_SECTION_WIDTH, h |-> WORLD_SECTION_HEIGHT]

world_section_coords_to_num(x, y) == max_sections_y * x + y

\* A mutant: the order of rows and columns swapped, as in the macro
\* WORLD_SECTION_TO_OFFSET.
world_section_num_swapped(x, y) ==
    world_section_coords_to_num(y \div WORLD_SECTION_HEIGHT, x \div WORLD_SECTION_WIDTH)

world_section_num_for_tile_coords(x, y) ==
    LET rect == world_section_for_tile_coords(UInt16(x), UInt16(y)) IN
    world_section_coords_to_num(rect.x \div WORLD_SECTION_WIDTH,
                                rect.y \div WORLD_SECTION_HEIGHT)

InRect(x, y, r) == x \in r.x .. r.x + r.w - 1 /\ y \in r.y .. r.y + r.h - 1

-----------------------------------------------------------------------------
\* A mutant of world_section_compress with width and height swapped.
world_section_compress_swapped(section) ==
    LET r == world_section_to_tile_rect(section) IN
    [t \in {u \in Tiles : InRect(u[1], u[2], [r EXCEPT !.w = r.h, !.h = r.w])} |-> tile[t]]

\* world_section_compress: the tiles of a section's rectangle.
world_section_compress(section) ==
    [t \in {u \in Tiles : InRect(u[1], u[2], world_section_to_tile_rect(section))}
        |-> tile[t]]

Dirty == {s \in Sections : BitmapGet(section_dirty, s)}

Init == /\ status = "none"
        /\ started = FALSE
        /\ tile = [t \in Tiles |-> 0]
        /\ section_data = [s \in Sections |-> NoData]
        /\ section_dirty = Zeroed(DirtyWords)
        /\ faults = 0

\* world_section_init, as far as world_section_compress_all, which compresses
\* the first n sections and stops where one fails; world_init goes on anyway.
WorldSectionInit(n) ==
    /\ status = "none"
    /\ section_data' = [s \in Sections |-> IF s < n THEN world_section_compress(s)
                                           ELSE section_data[s]]
    /\ status' = IF n = max_sections THEN "ready" ELSE "partial"
    /\ UNCHANGED << started, tile, section_dirty, faults >>

\* world_section_compressor_start, of which the only call is commented out
\* (world.c:969): the worker is modelled as it would run.
CompressorStart == /\ status # "none"
                   /\ ~ started
                   /\ started' = TRUE
                   /\ UNCHANGED << status, tile, section_data, section_dirty, faults >>

\* A tile changes: whoever changes it marks the section it is in as dirty.
Edit(t) == /\ status # "none"
           /\ tile[t] < MaxEdits
           /\ tile' = [tile EXCEPT ![t] = @ + 1]
           /\ section_dirty' =
                 BitmapSet(section_dirty, world_section_num_for_tile_coords(t[1], t[2]))
           /\ UNCHANGED << status, started, section_data, faults >>

-----------------------------------------------------------------------------
(* __compress_section, one tick of the worker.                             *)

\* The sections of F could not be compressed.
Fails(F) == /\ faults + Cardinality(F) <= MaxFaults
            /\ faults' = faults + Cardinality(F)

\* The first dirty sections fail to compress, and the next one is stored.
CompressSection(section) ==
    /\ started
    /\ section \in Dirty
    /\ Fails({s \in Dirty : s < section})
    /\ section_data' = [section_data EXCEPT ![section] = world_section_compress(section)]
    /\ section_dirty' = BitmapClear(section_dirty, section)
    /\ UNCHANGED << status, started, tile >>

\* Mutants of CompressNone: it compresses into section_data and not into a
\* staging buffer, and it forgets the sections that failed.
CompressNone_noStaging ==
    /\ started
    /\ Dirty # {}
    /\ Fails(Dirty)
    /\ section_data' = [s \in Sections |-> IF s \in Dirty THEN NoData ELSE section_data[s]]
    /\ UNCHANGED << status, started, tile, section_dirty >>

CompressNone_forget ==
    /\ started
    /\ Dirty # {}
    /\ Fails(Dirty)
    /\ section_dirty' = Zeroed(DirtyWords)
    /\ UNCHANGED << status, started, tile, section_data >>

\* Every dirty section fails to compress; the staging buffer is dropped.
CompressNone ==
    /\ started
    /\ Dirty # {}
    /\ Fails(Dirty)
    /\ UNCHANGED << status, started, tile, section_data, section_dirty >>

-----------------------------------------------------------------------------
Tick == CompressNone \/ \E s \in Sections : CompressSection(s)

Next == \/ \E n \in 0 .. max_sections : WorldSectionInit(n)
        \/ CompressorStart
        \/ \E t \in Tiles : Edit(t)
        \/ Tick

Spec == Init /\ [][Next]_vars

\* The timer fires every 100 ms once it is started.
FairSpec == Spec /\ WF_vars(Tick)

-----------------------------------------------------------------------------
(* Properties.                                                             *)

\* What a section's data may be: never compressed, or some state of its tiles.
Snapshots(section) ==
    [{t \in Tiles : InRect(t[1], t[2], world_section_to_tile_rect(section))} -> Nat]

TypeOK == /\ status \in {"none", "partial", "ready"}
          /\ started \in BOOLEAN
          /\ tile \in [Tiles -> 0 .. MaxEdits]
          /\ section_dirty \in Bitmaps(DirtyWords)
          /\ faults \in 0 .. MaxFaults
          /\ DOMAIN section_data = Sections
          /\ \A s \in Sections : section_data[s] \in Snapshots(s) \cup {NoData}

\* Once the sections are ready, a section that is not dirty holds its tiles as
\* they are now, whatever was edited or failed to compress on the way: a client
\* is never sent stale tiles without a newer version being on its way
\* (world_section.c:139-165).
CleanIsFresh ==
    status = "ready" =>
        \A s \in Sections \ Dirty : section_data[s] = world_section_compress(s)

\* world_section.c:145-148: the data of a section are only exchanged with a
\* whole, current compression of it, never with that of a failed round.
GoodDataStays ==
    [][\A s \in Sections : section_data'[s] # section_data[s] =>
            section_data'[s] = world_section_compress(s)]_vars

\* world_section.c:150-151: every change of a tile gets compressed in the end,
\* also when some rounds fail, if the changes stop.
EveryEditIsCompressed ==
    \A s \in Sections :
        status = "ready" /\ started
            ~> section_data[s] = world_section_compress(s)

\* world_section.c:233-234: a section that could not be compressed remains
\* dirty.
FailedRemainsDirty ==
    status # "none" =>
        \A s \in Sections : section_data[s] = world_section_compress(s) \/ s \in Dirty

=============================================================================
