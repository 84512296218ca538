------------------------------ MODULE MCWorld ------------------------------
(***************************************************************************)
(* WorldLoad for a world of two columns of three tiles and ten types, of   *)
(* which those above seven take two bytes.  There are files with every     *)
(* arrangement of tiles, files with types that the game does not know, and *)
(* files with the headers of the versions around each guard, with no or    *)
(* two anglers, cut off at the beginning, in the middle and in the part    *)
(* that depends on the version.  After a restart the world may be one of   *)
(* three others.                                                           *)
(***************************************************************************)
EXTENDS WorldLoad

\* The flag bytes of a record follow from what it has.
Record(type, switches, wires, painted, wall, liquid, copies) ==
    LET flags3 == switches \cup (IF painted THEN {3, 4} ELSE {})
        flags2 == wires \cup (IF flags3 # {} THEN {0} ELSE {})
    IN [flags1 |-> (IF type # 0 THEN {ActiveFlag} ELSE {})
                   \cup (IF type > MaxByteType THEN {ShortFlag} ELSE {})
                   \cup (IF wall # 0 THEN {WallFlag} ELSE {})
                   \cup liquid
                   \cup (IF flags2 # {} THEN {0} ELSE {})
                   \cup (IF copies > 0 THEN {6} ELSE {}),
        flags2 |-> flags2, flags3 |-> flags3, type |-> type,
        frame_x |-> 18, frame_y |-> 36,
        colour |-> {0, 2}, wall |-> wall, wall_colour |-> {1},
        liquid |-> IF liquid = {} THEN 0 ELSE 200, copies |-> copies]

Air(n)    == Record(0, {}, {}, FALSE, 0, {}, n)
Lava(n)   == Record(0, {}, {}, FALSE, 2, {4}, n)
Brick(n)  == Record(1, {2}, {2}, TRUE, 2, {}, n)
Chest(n)  == Record(3, {1}, {1, 3}, FALSE, 0, {3}, n)
Statue(n) == Record(9, {1}, {2}, TRUE, 2, {4}, n)

Kinds(n) == {Air(n), Lava(n), Brick(n), Chest(n), Statue(n)}

Columns == {<< r >> : r \in Kinds(2)}
           \cup {<< r, s >> : r \in Kinds(1), s \in Kinds(0)}
           \cup {<< r, s >> : r \in Kinds(0), s \in Kinds(1)}
           \cup {<< Brick(0), r, Statue(0) >> : r \in Kinds(0)}

\* Types 3 and 9 have frames.
File(version, types, anglers, cut, first, end) ==
    [version |-> version, positions |-> 2, types |-> types, anglers |-> anglers, kills |-> 2,
     cut |-> cut, flags |-> IF types > 8 THEN (0 :> {3}) @@ (1 :> {1}) ELSE (0 :> {3}),
     columns |-> (0 :> first) @@ (1 :> << Chest(1), Air(0) >>), end |-> end]

Guards == {95, 99, 101, 104, 107, 108, 109, 112, 113, 118, 128, 129, 131, 140, 141, 179, 180, 182}

Versions == UNION {{g - 1, g} : g \in Guards}

Cuts == {0, 1, 5, 8, 9, 12, 14, 50} \cup {k \in 95 .. 130 : k % 4 = 0}

\* Types 10 and 11: the game has no entry for them, but lets the first one pass.
Strange(n) == {Record(10, {}, {}, FALSE, 2, {}, n), Record(11, {1}, {}, FALSE, 0, {3}, n)}

\* Whole headers, and tiles that are whole or end in one of the columns; or
\* headers that are cut off, with nothing behind them.
WorldFiles ==
    {File(194, 10, 0, 999, c, end) : c \in Columns, end \in {2, 5, 9, 99}}
    \cup {File(194, 12, 0, 999, << Air(0), r >>, 99) : r \in Strange(1)}
    \cup {File(v, 4, a, 999, << Brick(2) >>, 99) : v \in Versions, a \in {0, 2}}
    \cup {File(v, 4, 2, cut, << Brick(2) >>, 0) : v \in Versions, cut \in Cuts}

SavedAgain == {File(194, 10, 0, 999, << Air(2) >>, 99),
               File(194, 10, 0, 999, << Lava(1), Chest(0) >>, 99),
               File(194, 10, 0, 999, << Statue(0), Air(1) >>, 5)}

Table == (0 :> {3, 4, 5}) @@ (1 :> {2, 3})
=============================================================================
