------------------------- MODULE WorldSectionProofs -------------------------
(***************************************************************************)
(* Theorems about WorldSection, for worlds and sections of any size: every *)
(* tile is in the rectangle of exactly one section, the dirty table has a  *)
(* bit for every section, and a clean section is never stale.              *)
(***************************************************************************)
EXTENDS WorldSection, DataProofs, FiniteSetTheorems

\* Dividing n by b, when n is known as b times q and a rest.
LEMMA Quotient ==
    ASSUME NEW b \in Nat \ {0}, NEW q \in Nat, NEW r \in 0 .. b - 1
    PROVE  (q * b + r) \div b = q /\ ((q * b + r) % b) = r
OBVIOUS

LEMMA QuotientNatural ==
    ASSUME NEW b \in Nat \ {0}, NEW n \in Nat, NEW q \in Int, NEW r \in 0 .. b - 1,
           r = n - b * q
    PROVE  q \in Nat /\ n = q * b + r
<1>1. n = q * b + r
  OBVIOUS
<1>2. ~ (q <= -1)
  <2>1. SUFFICES ASSUME q <= -1 PROVE FALSE
    OBVIOUS
  <2>2. b * q <= - b
    BY <2>1
  <2> QED BY <2>2
<1> QED BY <1>1, <1>2

LEMMA Division ==
    ASSUME NEW b \in Nat \ {0}, NEW n \in Nat
    PROVE  /\ n \div b \in Nat
           /\ n % b \in 0 .. b - 1
           /\ n = (n \div b) * b + (n % b)
<1>1. n % b = n - b * (n \div b)
  BY Z3
<1>2. n % b \in 0 .. b - 1 /\ n \div b \in Int
  BY SMT
<1> DEFINE q == n \div b
           r == n % b
<1>3. q \in Int /\ r \in 0 .. b - 1 /\ r = n - b * q
  BY <1>1, <1>2
<1> HIDE DEF q, r
<1>4. q \in Nat /\ n = q * b + r
  BY <1>3, QuotientNatural
<1>5. n \div b \in Nat /\ n = (n \div b) * b + (n % b)
  BY <1>4 DEF q, r
<1> QED BY <1>2, <1>5

\* A dividend that is a multiple of the divisor.
LEMMA WholeQuotient ==
    ASSUME NEW b \in Nat \ {0}, NEW n \in Nat \ {0}, n % b = 0
    PROVE  n \div b \in Nat \ {0} /\ n = (n \div b) * b
<1> DEFINE q == n \div b
<1>1. q \in Nat /\ n = q * b + 0
  BY Division
<1> HIDE DEF q
<1>2. q # 0 /\ n = q * b
  BY <1>1
<1> QED BY <1>1, <1>2 DEF q

LEMMA Sizes ==
    /\ max_sections_x \in Nat \ {0}
    /\ max_sections_y \in Nat \ {0}
    /\ max_sections \in Nat
    /\ MaxTilesX = max_sections_x * WORLD_SECTION_WIDTH
    /\ MaxTilesY = max_sections_y * WORLD_SECTION_HEIGHT
<1>1. max_sections_x \in Nat \ {0} /\ MaxTilesX = max_sections_x * WORLD_SECTION_WIDTH
  BY WorldAssumption, WholeQuotient, Zenon DEF max_sections_x
<1>2. max_sections_y \in Nat \ {0} /\ MaxTilesY = max_sections_y * WORLD_SECTION_HEIGHT
  BY WorldAssumption, WholeQuotient, Zenon DEF max_sections_y
<1>3. max_sections \in Nat
  BY <1>1, <1>2 DEF max_sections
<1> QED BY <1>1, <1>2, <1>3

\* The dirty table, of max_sections / 4 bytes, has a bit for every section
\* of a world of 16 sections or more (world_section.c:266).
THEOREM DirtyTableFits ==
    /\ DirtyWords \in Nat
    /\ \A s \in Sections : s \in Nat /\ s < DirtyWords * BitsPerWord
<1>1. max_sections \in Nat /\ max_sections >= 16
  BY Sizes, WorldAssumption, Zenon
<1>2. (max_sections \div 4) \div 4 \in Nat
  BY <1>1
<1>3. \A s \in 0 .. max_sections - 1 : s < ((max_sections \div 4) \div 4) * 32
  BY <1>1
<1> QED BY <1>1, <1>2, <1>3 DEF Sections, DirtyWords, BitsPerWord

-----------------------------------------------------------------------------
\* The numbers of b consecutive cells, cell by cell.
LEMMA InCell ==
    ASSUME NEW b \in Nat \ {0}, NEW n \in Nat, NEW q \in Nat
    PROVE  n \in q * b .. q * b + b - 1 <=> n \div b = q
<1>1. ASSUME n \in q * b .. q * b + b - 1 PROVE n \div b = q
  <2> DEFINE r == n - q * b
  <2>1. r \in 0 .. b - 1 /\ n = q * b + r
    BY <1>1
  <2> HIDE DEF r
  <2> QED BY <2>1, Quotient
<1>2. ASSUME n \div b = q PROVE n \in q * b .. q * b + b - 1
  <2> DEFINE r == n % b
  <2>1. r \in 0 .. b - 1 /\ n = q * b + r
    BY <1>2, Division
  <2> HIDE DEF r
  <2>2. q * b \in Int
    OBVIOUS
  <2> QED BY <2>1, <2>2
<1> QED BY <1>1, <1>2

\* A number below k cells of b is in one of them.
LEMMA CellBound ==
    ASSUME NEW b \in Nat \ {0}, NEW k \in Nat, NEW n \in 0 .. k * b - 1
    PROVE  n \div b \in 0 .. k - 1
<1> DEFINE q == n \div b
           r == n % b
<1>1. n \in Nat
  OBVIOUS
<1>2. q \in Nat /\ r \in 0 .. b - 1 /\ n = q * b + r
  BY <1>1, Division
<1> HIDE DEF q, r
<1>3. ~ (q >= k)
  <2>1. SUFFICES ASSUME q >= k PROVE FALSE
    OBVIOUS
  <2>2. q * b >= k * b
    BY <1>2, <2>1
  <2>3. k * b \in Int /\ q * b \in Int
    BY <1>2
  <2> QED BY <1>2, <2>2, <2>3
<1>4. q \in 0 .. k - 1
  BY <1>2, <1>3
<1> QED BY <1>4 DEF q

\* The number of a cell in a grid of k columns of m cells.
LEMMA GridNumber ==
    ASSUME NEW k \in Nat, NEW m \in Nat, NEW x \in 0 .. k - 1, NEW y \in 0 .. m - 1
    PROVE  m * x + y \in 0 .. k * m - 1
<1>1. m * x >= 0 /\ m * x \in Int
  OBVIOUS
<1>2. m * x <= m * (k - 1)
  OBVIOUS
<1>3. m * (k - 1) = k * m - m
  OBVIOUS
<1>4. k * m \in Int /\ m * (k - 1) \in Int
  OBVIOUS
<1> QED BY <1>1, <1>2, <1>3, <1>4

\* The section of a tile is the number of its cell in the grid of sections.
LEMMA SectionNumber ==
    ASSUME NEW x \in 0 .. MaxTilesX - 1, NEW y \in 0 .. MaxTilesY - 1
    PROVE  /\ world_section_num_for_tile_coords(x, y)
                = max_sections_y * (x \div WORLD_SECTION_WIDTH) + (y \div WORLD_SECTION_HEIGHT)
           /\ x \div WORLD_SECTION_WIDTH \in 0 .. max_sections_x - 1
           /\ y \div WORLD_SECTION_HEIGHT \in 0 .. max_sections_y - 1
<1> DEFINE W == WORLD_SECTION_WIDTH
           H == WORLD_SECTION_HEIGHT
<1>1. W \in Nat \ {0} /\ H \in Nat \ {0} /\ MaxTilesX \in Nat /\ MaxTilesY \in Nat
  BY WorldAssumption
<1>2. x \in Nat /\ y \in Nat /\ UInt16(x) = x /\ UInt16(y) = y
  BY <1>1, CoordinatesFit DEF UInt16
<1>3. x \in 0 .. max_sections_x * W - 1 /\ y \in 0 .. max_sections_y * H - 1
  BY Sizes, Zenon
<1>4. x \div W \in 0 .. max_sections_x - 1 /\ y \div H \in 0 .. max_sections_y - 1
  BY <1>1, <1>3, Sizes, CellBound
<1>5. ASSUME NEW b \in Nat \ {0}, NEW n \in Nat PROVE ((n \div b) * b) \div b = n \div b
  <2> DEFINE q == n \div b
  <2>1. q \in Nat
    BY Division
  <2> HIDE DEF q
  <2>2. 0 \in 0 .. b - 1 /\ q * b = q * b + 0
    BY <2>1
  <2>3. (q * b) \div b = q
    BY <2>1, <2>2, Quotient
  <2> QED BY <2>3 DEF q
<1>6. ((x \div W) * W) \div W = x \div W /\ ((y \div H) * H) \div H = y \div H
  BY <1>1, <1>2, <1>5
<1> QED BY <1>2, <1>4, <1>6, Zenon DEF world_section_num_for_tile_coords,
           world_section_for_tile_coords, world_section_coords_to_num

\* Every tile of the world is in the rectangle of the section that
\* world_section_num_for_tile_coords names, which is a section of the world,
\* and in that of no other one (world_section.c:298-363).
THEOREM OneSectionPerTile ==
    ASSUME NEW x \in 0 .. MaxTilesX - 1, NEW y \in 0 .. MaxTilesY - 1
    PROVE  /\ world_section_num_for_tile_coords(x, y) \in Sections
           /\ \A s \in Sections :
                InRect(x, y, world_section_to_tile_rect(s))
                    <=> s = world_section_num_for_tile_coords(x, y)
<1> DEFINE m == max_sections_y
           cx == x \div WORLD_SECTION_WIDTH
           cy == y \div WORLD_SECTION_HEIGHT
<1>1. m \in Nat \ {0} /\ max_sections_x \in Nat /\ cx \in 0 .. max_sections_x - 1 /\ cy \in 0 .. m - 1
  BY SectionNumber, Sizes
<1>2. world_section_num_for_tile_coords(x, y) = m * cx + cy
  BY SectionNumber
<1>3. ASSUME NEW s \in Sections
      PROVE  InRect(x, y, world_section_to_tile_rect(s))
                <=> s \div m = cx /\ s % m = cy
  <2>1. s \in Nat
    BY Sizes DEF Sections
  <2>2. s \div m \in Nat /\ s % m \in 0 .. m - 1
    BY <1>1, <2>1, Division, Zenon
  <2>3. /\ WORLD_SECTION_WIDTH \in Nat \ {0} /\ WORLD_SECTION_HEIGHT \in Nat \ {0}
        /\ x \in Nat /\ y \in Nat
    BY WorldAssumption
  <2> DEFINE X == s \div m
             Y == s % m
  <2>4. Y \in Nat
    BY <1>1, <2>2
  <2>5. x \in X * WORLD_SECTION_WIDTH .. X * WORLD_SECTION_WIDTH + WORLD_SECTION_WIDTH - 1
            <=> cx = X
    BY <2>2, <2>3, InCell
  <2>6. y \in Y * WORLD_SECTION_HEIGHT .. Y * WORLD_SECTION_HEIGHT + WORLD_SECTION_HEIGHT - 1
            <=> cy = Y
    BY <2>4, <2>3, InCell
  <2> QED BY <2>5, <2>6, Zenon
           DEF InRect, world_section_to_tile_rect, world_section_num_to_coords
<1> HIDE DEF m, cx, cy
<1>4. m * cx + cy \in 0 .. max_sections_x * m - 1
  BY <1>1, GridNumber
<1>5. m * cx + cy \in Sections
  BY <1>4 DEF Sections, max_sections, m
<1>6. ASSUME NEW s \in Sections PROVE s = m * cx + cy <=> s \div m = cx /\ s % m = cy
  <2>1. s \in Nat
    BY Sizes DEF Sections
  <2>2. s = (s \div m) * m + (s % m)
    BY <1>1, <2>1, Division
  <2>3. m * cx = cx * m
    BY <1>1
  <2>4. (cx * m + cy) \div m = cx /\ ((cx * m + cy) % m) = cy
    BY <1>1, Quotient
  <2> QED BY <2>2, <2>3, <2>4, Zenon
<1> QED BY <1>2, <1>3, <1>5, <1>6, Zenon

-----------------------------------------------------------------------------
(* The worker and the dirty table.                                         *)

IInv == TypeOK /\ CleanIsFresh

LEMMA SectionsFinite == IsFiniteSet(Sections)
BY Sizes, FS_Interval DEF Sections

\* What the worker keeps when the sections of F fail.
LEMMA FailsType ==
    ASSUME NEW F \in SUBSET Sections, faults \in 0 .. MaxFaults, Fails(F)
    PROVE  faults' \in 0 .. MaxFaults
<1>1. Cardinality(F) \in Nat
  BY SectionsFinite, FS_Subset, FS_CardinalityType
<1> QED BY <1>1, WorldAssumption DEF Fails

\* A compressed section is a snapshot of its tiles.
LEMMA CompressType ==
    ASSUME TypeOK, NEW s \in Sections
    PROVE  world_section_compress(s) \in Snapshots(s)
BY DEF TypeOK, world_section_compress, Snapshots

\* bitmap_set and bitmap_clear on the dirty table.
LEMMA SetDirty ==
    ASSUME section_dirty \in Bitmaps(DirtyWords), NEW s \in Sections
    PROVE  /\ BitmapSet(section_dirty, s) \in Bitmaps(DirtyWords)
           /\ \A r \in Sections : BitmapGet(BitmapSet(section_dirty, s), r)
                                    <=> r = s \/ BitmapGet(section_dirty, r)
BY DirtyTableFits, SetSetsOneBit

LEMMA ClearDirty ==
    ASSUME section_dirty \in Bitmaps(DirtyWords), NEW s \in Sections
    PROVE  /\ BitmapClear(section_dirty, s) \in Bitmaps(DirtyWords)
           /\ \A r \in Sections : BitmapGet(BitmapClear(section_dirty, s), r)
                                    <=> r # s /\ BitmapGet(section_dirty, r)
BY DirtyTableFits, ClearClearsOneBit

LEMMA InitIInv == Init => IInv
<1> SUFFICES ASSUME Init PROVE IInv
  OBVIOUS
<1>1. section_dirty \in Bitmaps(DirtyWords)
  BY DirtyTableFits, ZeroedHasNoBit DEF Init
<1>2. TypeOK
  <2>1. 0 \in 0 .. MaxEdits /\ 0 \in 0 .. MaxFaults
    BY WorldAssumption
  <2>2. /\ tile \in [Tiles -> 0 .. MaxEdits]
        /\ DOMAIN section_data = Sections
        /\ \A s \in Sections : section_data[s] = NoData
    BY <2>1 DEF Init
  <2> QED BY <1>1, <2>1, <2>2, Zenon DEF Init, TypeOK
<1>3. CleanIsFresh
  BY DEF Init, CleanIsFresh
<1> QED BY <1>2, <1>3 DEF IInv

LEMMA WorldSectionInitKeeps ==
    ASSUME IInv, NEW n \in 0 .. max_sections, WorldSectionInit(n)
    PROVE  IInv'
<1> USE DEF IInv, WorldSectionInit
<1>1. \A s \in Sections : world_section_compress(s)' = world_section_compress(s)
  BY DEF world_section_compress
<1>2. \A s \in Sections : section_data'[s] = IF s < n THEN world_section_compress(s)
                                              ELSE section_data[s]
  OBVIOUS
<1>3. \A s \in Sections : section_data'[s] \in Snapshots(s) \cup {NoData}
  BY <1>2, CompressType DEF TypeOK
<1>4. TypeOK'
  BY <1>3 DEF TypeOK, Snapshots
<1>5. CleanIsFresh'
  <2>1. ASSUME n = max_sections, NEW s \in Sections PROVE s < n
    BY <2>1, Sizes DEF Sections
  <2>2. n # max_sections => status' # "ready"
    OBVIOUS
  <2> QED BY <1>1, <1>2, <2>1, <2>2 DEF CleanIsFresh, Dirty
<1> QED BY <1>4, <1>5

LEMMA EditKeeps ==
    ASSUME IInv, NEW t \in Tiles, Edit(t)
    PROVE  IInv'
<1> USE DEF IInv, Edit
<1> DEFINE u == world_section_num_for_tile_coords(t[1], t[2])
<1>1. /\ u \in Sections
      /\ \A s \in Sections : InRect(t[1], t[2], world_section_to_tile_rect(s)) <=> s = u
  <2>1. t[1] \in 0 .. MaxTilesX - 1 /\ t[2] \in 0 .. MaxTilesY - 1
    BY WorldAssumption
  <2> QED BY <2>1, OneSectionPerTile
<1> HIDE DEF u
<1>2. section_dirty' = BitmapSet(section_dirty, u)
  BY DEF u
<1>3. /\ section_dirty' \in Bitmaps(DirtyWords)
      /\ \A s \in Sections : BitmapGet(section_dirty', s) <=> s = u \/ BitmapGet(section_dirty, s)
  BY <1>1, <1>2, SetDirty DEF TypeOK
<1>4. TypeOK'
  <2>1. tile' \in [Tiles -> 0 .. MaxEdits]
    BY WorldAssumption DEF TypeOK
  <2> QED BY <1>3, <2>1 DEF TypeOK, Snapshots
<1>5. \A s \in Sections \ {u} : world_section_compress(s)' = world_section_compress(s)
  <2> SUFFICES ASSUME NEW s \in Sections \ {u},
                      NEW v \in {w \in Tiles : InRect(w[1], w[2], world_section_to_tile_rect(s))}
               PROVE  tile'[v] = tile[v]
    BY DEF world_section_compress
  <2>1. v # t
    BY <1>1
  <2> QED BY <2>1 DEF TypeOK
<1>6. CleanIsFresh'
  <2> SUFFICES ASSUME status' = "ready", NEW s \in Sections, ~ BitmapGet(section_dirty', s)
               PROVE  section_data'[s] = world_section_compress(s)'
    BY DEF CleanIsFresh, Dirty
  <2>1. s # u /\ ~ BitmapGet(section_dirty, s)
    BY <1>3
  <2> QED BY <1>5, <2>1 DEF CleanIsFresh, Dirty
<1> QED BY <1>4, <1>6

LEMMA CompressSectionKeeps ==
    ASSUME IInv, NEW r \in Sections, CompressSection(r)
    PROVE  IInv'
<1> USE DEF IInv, CompressSection
<1>1. \A s \in Sections : world_section_compress(s)' = world_section_compress(s)
  BY DEF world_section_compress
<1>2. /\ section_dirty' \in Bitmaps(DirtyWords)
      /\ \A s \in Sections : BitmapGet(section_dirty', s) <=> s # r /\ BitmapGet(section_dirty, s)
  BY ClearDirty DEF TypeOK
<1>3. \A s \in Sections : section_data'[s] = IF s = r THEN world_section_compress(r)
                                              ELSE section_data[s]
  BY DEF TypeOK
<1>4. faults' \in 0 .. MaxFaults
  <2>1. {s \in Dirty : s < r} \in SUBSET Sections
    BY DEF Dirty
  <2> QED BY <2>1, FailsType DEF TypeOK
<1>5. TypeOK'
  <2>1. \A s \in Sections : section_data'[s] \in Snapshots(s) \cup {NoData}
    BY <1>3, CompressType DEF TypeOK
  <2>2. DOMAIN section_data' = Sections
    BY DEF TypeOK
  <2> QED BY <1>2, <1>4, <2>1, <2>2 DEF TypeOK, Snapshots
<1>6. CleanIsFresh'
  BY <1>1, <1>2, <1>3 DEF CleanIsFresh, Dirty
<1> QED BY <1>5, <1>6

LEMMA NextKeeps == IInv /\ [Next]_vars => IInv'
<1> SUFFICES ASSUME IInv, [Next]_vars PROVE IInv'
  OBVIOUS
<1> DEFINE Same == UNCHANGED << status, tile, section_data, section_dirty >>
<1>1. ASSUME Same, started' \in BOOLEAN, faults' \in 0 .. MaxFaults PROVE IInv'
  <2>1. \A s \in Sections : world_section_compress(s)' = world_section_compress(s)
    BY <1>1 DEF world_section_compress
  <2>2. Dirty' = Dirty
    BY <1>1 DEF Dirty
  <2>3. CleanIsFresh'
    BY <1>1, <2>1, <2>2 DEF CleanIsFresh, IInv
  <2>4. TypeOK'
    BY <1>1 DEF TypeOK, IInv, Snapshots
  <2> QED BY <2>3, <2>4 DEF IInv
<1>2. CASE \E n \in 0 .. max_sections : WorldSectionInit(n)
  BY <1>2, WorldSectionInitKeeps
<1>3. CASE CompressorStart
  BY <1>1, <1>3 DEF CompressorStart, IInv, TypeOK
<1>4. CASE \E t \in Tiles : Edit(t)
  BY <1>4, EditKeeps
<1>5. CASE \E s \in Sections : CompressSection(s)
  BY <1>5, CompressSectionKeeps
<1>6. CASE CompressNone
  <2>1. Dirty \in SUBSET Sections
    BY DEF Dirty
  <2>2. faults' \in 0 .. MaxFaults
    BY <1>6, <2>1, FailsType DEF CompressNone, IInv, TypeOK
  <2> QED BY <1>1, <1>6, <2>2 DEF CompressNone, IInv, TypeOK
<1>7. CASE UNCHANGED vars
  BY <1>1, <1>7 DEF vars, IInv, TypeOK
<1> QED BY <1>2, <1>3, <1>4, <1>5, <1>6, <1>7 DEF Next, Tick

THEOREM Invariance == Spec => []IInv
<1>1. Init => IInv
  BY InitIInv
<1>2. IInv /\ [Next]_vars => IInv'
  BY NextKeeps
<1> QED BY <1>1, <1>2, PTL DEF Spec

\* Section data are always a whole snapshot of a section's tiles, and the dirty
\* table keeps its shape (world_section.c:139-165).
THEOREM TypeCorrectness == Spec => []TypeOK
<1>1. IInv => TypeOK
  BY DEF IInv
<1> QED BY <1>1, Invariance, PTL

\* A section that is not dirty is never stale, for worlds of any size, any
\* edits and any failures (world_section.c:139-165).
THEOREM CleanSectionsAreFresh == Spec => []CleanIsFresh
<1>1. IInv => CleanIsFresh
  BY DEF IInv
<1> QED BY <1>1, Invariance, PTL

\* Section data are only replaced by a whole, current compression of the
\* section (world_section.c:145-148).
THEOREM StagingProtectsData == Spec => GoodDataStays
<1> DEFINE Stays == \A s \in Sections : section_data'[s] # section_data[s] =>
                        section_data'[s] = world_section_compress(s)
<1>1. IInv /\ [Next]_vars => [Stays]_vars
  <2> SUFFICES ASSUME IInv, Next, NEW s \in Sections, section_data'[s] # section_data[s]
               PROVE  section_data'[s] = world_section_compress(s)
    OBVIOUS
  <2>1. CASE \E n \in 0 .. max_sections : WorldSectionInit(n)
    BY <2>1 DEF WorldSectionInit
  <2>2. CASE \E r \in Sections : CompressSection(r)
    BY <2>2 DEF CompressSection, IInv, TypeOK
  <2> QED BY <2>1, <2>2 DEF Next, Tick, CompressorStart, Edit, CompressNone
<1> QED BY <1>1, Invariance, PTL DEF Spec, GoodDataStays
=============================================================================
