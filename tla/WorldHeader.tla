----------------------------- MODULE WorldHeader -----------------------------
(***************************************************************************)
(* Reading a world file up to its tiles (world_init, src/world.c): the     *)
(* file header and the header of the world, whose fields depend on the     *)
(* version of the file.  The file is as the game writes it, of a version   *)
(* from before the oldest guard to after the newest one, and may be cut    *)
(* off behind any field.  A read of one byte never fails; what its caller  *)
(* gets at the end of the file is what it had before.  Strings are not     *)
(* empty.  WorldLoad goes on with the tiles.                               *)
(***************************************************************************)
EXTENDS Integers, SequencesExt

CONSTANTS Files,        \* records; of the header they have the numbers below
          MaxFaults     \* bound on failing allocations and calls

ASSUME HeaderAssumption ==
    /\ \A f \in Files : /\ {f.version, f.types, f.anglers, f.kills, f.cut} \subseteq Nat
                        /\ f.positions \in Nat \ {0, 1}
    /\ MaxFaults \in Nat

VARIABLES
    file,
    at,         \* the statement that is next
    fields,     \* how many fields of the file are behind the reader's position
    reader,     \* world->reader: "none", "made", "open" or "closed"
    result,     \* "reading", "ok" when the tiles are next, "error" or "crashed"
    strings,    \* the strings that were malloc'ed and not freed
    faults

headerVars == << file, at, fields, reader, result, strings, faults >>

-----------------------------------------------------------------------------
(* The statements of the two functions, in order.  Consecutive reads of    *)
(* one kind are one statement: they are in one condition, or each returns  *)
(* alike.  "wide" reads fail at the end of the file, "byte" reads do not.  *)
(* The length of the others depends on the file, and is filled in below.   *)

\* The flags of struct world that the file has.
world_flags ==
    {"crimson", "downed_boss_1", "downed_boss_2", "downed_boss_3", "downed_queen_bee",
     "downed_mech_1", "downed_mech_2", "downed_mech_3", "downed_mech_any", "downed_plant",
     "downed_golem", "downed_slime_king", "downed_goblins", "downed_clowns", "downed_frost",
     "downed_pirates", "downed_fishron", "downed_martians", "downed_ancient_cultist",
     "downed_moonlord", "downed_halloween_king", "downed_halloween_tree",
     "downed_christmas_ice_queen", "downed_christmas_santank", "downed_christmas_tree",
     "downed_tower_solar", "downed_tower_vortex", "downed_tower_nebula",
     "downed_tower_stardust", "active_tower_solar", "active_tower_vortex",
     "active_tower_nebula", "active_tower_stardust", "lunar_apocalypse_up",
     "saved_goblin", "saved_wizard", "saved_mech", "saved_angler", "saved_stylist",
     "saved_tax_collector", "shadow_orb_smashed", "spawn_meteor", "hard_mode", "raining",
     "fast_forward_time"}

\* The members of struct world that the header fills, with the number of values
\* in each; its arrays of any length are not among them.
world ==
    [version |-> 1, worldID |-> 1, left_world |-> 1, right_world |-> 1, top_world |-> 1,
     bottom_world |-> 1, max_tiles_x |-> 1, max_tiles_y |-> 1, creation_time |-> 1,
     expert_mode |-> 1, moon_type |-> 1, tree_x |-> 3, tree_style |-> 4, cave_back_x |-> 3,
     cave_back_style |-> 4, ice_back_style |-> 1, jungle_back_style |-> 1,
     hell_back_style |-> 1, spawn_tile |-> 2, world_surface |-> 1, rock_layer |-> 1,
     temp_time |-> 1, temp_day_time |-> 1, temp_blood_moon |-> 1, temp_moon_phase |-> 1,
     temp_eclipse |-> 1, dungeon |-> 2, shadow_orb_count |-> 1, altar_count |-> 1,
     invasion_delay |-> 1, invasion_size |-> 1, invasion_size_start |-> 1,
     invasion_type |-> 1, invasion_x |-> 1, slime_rain_time |-> 1, sundial_cooldown |-> 1,
     rain_time |-> 1, max_rain |-> 1, ore_tiers |-> 3, bg |-> 8, cloud_bg_active |-> 1,
     num_clouds |-> 1, wind_speed |-> 1, cultist_delay |-> 1, angler_quest |-> 1]

Since(version, field) == [field EXCEPT !.from = version]

Statement(kind, name, n) == [kind |-> kind, name |-> name, n |-> n, from |-> 0]

Elements(member) == IF member \in world_flags THEN 1 ELSE world[member]

\* A statement that reads these members is named after the first of them.
Members(kind, names) ==
    Statement(kind, names[1],
              Cardinality(UNION {{m} \X (1 .. Elements(m)) : m \in {names[k] : k \in DOMAIN names}}))

Wide(names)     == Members("wide", names)
Unsigned(names) == Members("wide", names)
Bytes(names)    == Members("byte", names)
String(name)    == Statement("string", name, 1)
Array(name)     == Statement("array", name, 0)
Stop(version)   == Since(version, Statement("stop", "stop", 0))

\* __world_read_file_header.
FileHeader ==
    << Wide(<< "version" >>), Statement("metadata", "metadata", 3),
       Array("positions"), Statement("wide", "num_important", 1),
       Statement("flags", "important", 0) >>

\* __world_read_header, world_name to max_tiles_x.  The version of the
\* generator, and a number behind it, are not kept.
Identity ==
    << String("world_name"),
       Since(179, String("seed_text")),
       Since(179, Statement("wide", "generator", 1)),
       Since(182, Statement("byte", "skipped", 1)),
       Wide(<< "worldID", "left_world", "right_world", "top_world", "bottom_world" >>),
       Unsigned(<< "max_tiles_y", "max_tiles_x" >>) >>

\* expert_mode to crimson.
Appearance ==
    << Since(112, Bytes(<< "expert_mode" >>)), Since(141, Wide(<< "creation_time" >>)),
       Bytes(<< "moon_type" >>),
       Wide(<< "tree_x", "tree_style", "cave_back_x", "cave_back_style", "ice_back_style",
               "jungle_back_style", "hell_back_style", "spawn_tile", "world_surface",
               "rock_layer", "temp_time" >>),
       Bytes(<< "temp_day_time" >>), Wide(<< "temp_moon_phase" >>),
       Bytes(<< "temp_blood_moon", "temp_eclipse" >>), Wide(<< "dungeon" >>),
       Bytes(<< "crimson" >>) >>

\* downed_boss_1 to hard_mode.
Progress ==
    << Bytes(<< "downed_boss_1", "downed_boss_2", "downed_boss_3", "downed_queen_bee",
                "downed_mech_1", "downed_mech_2", "downed_mech_3", "downed_mech_any",
                "downed_plant", "downed_golem" >>),
       Since(118, Bytes(<< "downed_slime_king" >>)),
       Bytes(<< "saved_goblin", "saved_wizard", "saved_mech", "downed_goblins",
                "downed_clowns", "downed_frost", "downed_pirates", "shadow_orb_smashed",
                "spawn_meteor", "shadow_orb_count" >>),
       Wide(<< "altar_count" >>), Bytes(<< "hard_mode" >>) >>

\* invasion_delay to wind_speed.
Weather ==
    << Wide(<< "invasion_delay", "invasion_size", "invasion_type", "invasion_x" >>),
       Since(118, Wide(<< "slime_rain_time" >>)), Since(113, Bytes(<< "sundial_cooldown" >>)),
       Bytes(<< "raining" >>), Wide(<< "rain_time", "max_rain", "ore_tiers" >>),
       Bytes(<< "bg" >>), Wide(<< "cloud_bg_active", "num_clouds", "wind_speed" >>) >>

\* What versions 128, 131 and 140 brought.
Events ==
    << Stop(128), Bytes(<< "fast_forward_time" >>),
       Stop(131),
       Bytes(<< "downed_fishron", "downed_martians", "downed_ancient_cultist",
                "downed_moonlord", "downed_halloween_king", "downed_halloween_tree",
                "downed_christmas_ice_queen", "downed_christmas_santank",
                "downed_christmas_tree" >>),
       Stop(140),
       Bytes(<< "downed_tower_solar", "downed_tower_vortex", "downed_tower_nebula",
                "downed_tower_stardust", "active_tower_solar", "active_tower_vortex",
                "active_tower_nebula", "active_tower_stardust", "lunar_apocalypse_up" >>) >>

\* A mutant of Newer that stops for the kill counts' own version.
Newer_stop ==
    << Stop(95), Statement("anglers", "anglers", 0),
       Stop(99), Bytes(<< "saved_angler" >>),
       Stop(101), Wide(<< "angler_quest" >>),
       Stop(104), Bytes(<< "saved_stylist" >>), Since(129, Bytes(<< "saved_tax_collector" >>)),
       Since(107, Wide(<< "invasion_size_start" >>)), Since(108, Wide(<< "cultist_delay" >>)),
       Stop(110), Array("kill_counts") >>

\* The fields of newer versions.
Newer ==
    << Stop(95), Statement("anglers", "anglers", 0),
       Stop(99), Bytes(<< "saved_angler" >>),
       Stop(101), Wide(<< "angler_quest" >>),
       Stop(104), Bytes(<< "saved_stylist" >>), Since(129, Bytes(<< "saved_tax_collector" >>)),
       Since(107, Wide(<< "invasion_size_start" >>)), Since(108, Wide(<< "cultist_delay" >>)),
       Stop(109), Array("kill_counts") >>

Statements == FileHeader \o Identity \o Appearance \o Progress \o Weather \o Newer \o Events

Length(k) == CASE k.name = "positions"   -> 1 + file.positions
               [] k.name = "important"   -> (file.types + 7) \div 8
               [] k.name = "anglers"     -> 1 + file.anglers
               [] k.name = "kill_counts" -> 1 + file.kills
               [] OTHER                  -> k.n

\* The seed of version 179 is a number.
Kind(k) == IF k.name = "seed_text" /\ file.version = 179 THEN "wide" ELSE k.kind

HeaderInit ==
        /\ file \in Files
        /\ at = 0
        /\ fields = 0
        /\ reader = "none"
        /\ result = "reading"
        /\ strings = {}
        /\ faults = 0

-----------------------------------------------------------------------------
(* Outcomes.  Behind out: the name is freed.                               *)

Fault == faults < MaxFaults /\ faults' = faults + 1

\* A mutant of Leave that frees nothing.
Leave_keep(r) == result' = r /\ strings' = strings /\ UNCHANGED at

Leave(r) == result' = r /\ strings' = strings \ {"world_name"} /\ UNCHANGED at

Proceed == at' = at + 1 /\ UNCHANGED result

\* A mutant of MoveOver that does not stop at the end of the file.
MoveOver_past(n) == fields' = fields + n

\* The reader moves over n fields, to the end of the file at most.
MoveOver(n) == fields' = Min({fields + n, file.cut})

There(n) == fields + n <= file.cut

-----------------------------------------------------------------------------
(* The reader.  world_init makes it and opens the file; its destructor     *)
(* closes the file when the game is freed.                                 *)

\* Nobody looks whether there is memory for the reader itself.
binary_reader_new ==
    /\ result = "reading" /\ reader = "none"
    /\ \/ reader' = "made" /\ UNCHANGED << result, faults >>
       \/ Fault /\ result' \in {"error", "crashed"} /\ UNCHANGED reader
    /\ UNCHANGED << file, at, fields, strings >>

binary_reader_open ==
    /\ result = "reading" /\ reader = "made"
    /\ \/ reader' = "open" /\ Proceed /\ UNCHANGED faults
       \/ Fault /\ result' = "error" /\ UNCHANGED << at, reader >>
    /\ UNCHANGED << file, fields, strings >>

\* A file that was not opened is not closed.
binary_reader_close == reader' = IF reader = "open" THEN "closed" ELSE reader

FreeReader ==
    /\ result \in {"ok", "error"} /\ reader # "closed"
    /\ binary_reader_close
    /\ UNCHANGED << file, at, fields, result, strings, faults >>

-----------------------------------------------------------------------------
(* The statements: s is the one that is next.                              *)

statement == LET k == Statements[at] IN [k EXCEPT !.n = Length(k), !.kind = Kind(k)]

At(kinds) == /\ result = "reading"
             /\ at \in DOMAIN Statements
             /\ statement.kind \in kinds
             /\ statement.from <= file.version

\* A version without the fields of the statement, or with those behind a stop.
NotInVersion ==
    /\ result = "reading" /\ at \in DOMAIN Statements
    /\ (statement.from > file.version) # (statement.kind = "stop")
    /\ Proceed
    /\ UNCHANGED << file, fields, reader, strings, faults >>

StopEarly ==
    /\ result = "reading" /\ at \in DOMAIN Statements
    /\ statement.kind = "stop" /\ statement.from > file.version
    /\ Leave("ok")
    /\ UNCHANGED << file, fields, reader, faults >>

ReadBytes ==
    /\ At({"byte"})
    /\ MoveOver(statement.n)
    /\ Proceed
    /\ UNCHANGED << file, reader, strings, faults >>

\* The mask of the types with frames: nobody looks whether there is memory for
\* the table; positions[0] says that the header of the world is next.
ReadFlags ==
    /\ At({"flags"})
    /\ MoveOver(statement.n)
    /\ \/ Proceed /\ UNCHANGED faults
       \/ file.types > 0 /\ Fault /\ result' = "crashed" /\ UNCHANGED at
    /\ UNCHANGED << file, reader, strings >>

\* The seed is freed when the number behind it has been read.  A seed that is a
\* number is printed to memory that nobody looks at.
ReadWide ==
    /\ At({"wide"})
    /\ MoveOver(statement.n)
    /\ \/ /\ There(statement.n) /\ Proceed /\ UNCHANGED faults
          /\ strings' = CASE statement.name = "generator" -> strings \ {"seed_text"}
                          [] statement.name = "seed_text" -> strings \cup {statement.name}
                          [] OTHER -> strings
       \/ ~ There(statement.n) /\ Leave("error") /\ UNCHANGED faults
       \/ /\ There(statement.n) /\ statement.name = "seed_text" /\ Fault
          /\ result' = "crashed" /\ UNCHANGED << at, strings >>
    /\ UNCHANGED << file, reader >>

\* __world_read_file_metadata fails, and is only logged.
ReadMetadata ==
    /\ At({"metadata"})
    /\ MoveOver(statement.n)
    /\ Proceed
    /\ UNCHANGED << file, reader, strings, faults >>

\* binary_reader_read_string allocates the string; the name is then copied.
ReadString ==
    /\ At({"string"})
    /\ MoveOver(1)
    /\ \/ There(1) /\ Proceed /\ strings' = strings \cup {statement.name} /\ UNCHANGED faults
       \/ ~ There(1) /\ Leave("error") /\ UNCHANGED faults
       \/ There(1) /\ Fault /\ Leave("error")
    /\ UNCHANGED << file, reader >>

\* A mutant of ReadArray that goes on when an element is missing.
ReadArray_goesOn ==
    /\ At({"array"})
    /\ MoveOver(statement.n)
    /\ Proceed
    /\ UNCHANGED << file, reader, strings, faults >>

\* An array behind the number of its elements: of the positions, for which
\* nobody looks whether there is memory (the first would be read to NULL, which
\* the reader takes for nothing), or __world_read_npc_killcounts.
ReadArray ==
    /\ At({"array"})
    /\ MoveOver(statement.n)
    /\ \/ There(statement.n) /\ Proceed /\ UNCHANGED << strings, faults >>
       \/ ~ There(statement.n) /\ Leave("error") /\ UNCHANGED faults
       \/ There(1) /\ Fault
          /\ IF statement.name = "positions" /\ There(3)
             THEN result' = "crashed" /\ UNCHANGED << at, strings >>
             ELSE Leave("error")
    /\ UNCHANGED << file, reader >>

\* __world_read_anglers, whose result is ignored.  Each string is copied and
\* freed.  The first one is written behind the end of the array, which may kill
\* the process; without memory for the array the process dies, without memory
\* for a string the others are not read.
ReadAnglers ==
    /\ At({"anglers"})
    /\ \/ MoveOver(statement.n) /\ Proceed /\ UNCHANGED faults
       \/ There(2) /\ statement.n > 1 /\ MoveOver(2) /\ result' = "crashed"
          /\ UNCHANGED << at, faults >>
       \/ There(2) /\ statement.n > 1 /\ Fault /\ Proceed
          /\ \E n \in 2 .. statement.n : There(n) /\ MoveOver(n)
    /\ UNCHANGED << file, reader, strings >>

\* The header was read to its end.
HeaderDone ==
    /\ result = "reading" /\ at > Len(Statements)
    /\ Leave("ok")
    /\ UNCHANGED << file, fields, reader, faults >>

HeaderNext ==
        \/ binary_reader_new \/ binary_reader_open
        \/ NotInVersion \/ StopEarly \/ ReadBytes \/ ReadFlags \/ ReadWide
        \/ ReadMetadata \/ ReadString \/ ReadArray \/ ReadAnglers \/ HeaderDone

-----------------------------------------------------------------------------
(* Properties.                                                             *)

\* The versions that brought the fields that were not always there.
Introduced ==
    [anglers |-> 95, saved_angler |-> 99, angler_quest |-> 101, saved_stylist |-> 104,
     invasion_size_start |-> 107, cultist_delay |-> 108, kill_counts |-> 109,
     expert_mode |-> 112, sundial_cooldown |-> 113, downed_slime_king |-> 118,
     slime_rain_time |-> 118, fast_forward_time |-> 128, saved_tax_collector |-> 129,
     downed_fishron |-> 131, downed_tower_solar |-> 140, creation_time |-> 141,
     seed_text |-> 179, generator |-> 179, skipped |-> 182]

Has(k) == k.name \in DOMAIN Introduced => Introduced[k.name] <= file.version

\* The fields of the file that are in front of the k-th statement's: of each
\* statement that the version has, as many as it reads.
InFront(k) == UNION {{j} \X (1 .. Length(Statements[j])) :
                         j \in {t \in 1 .. k - 1 : Has(Statements[t])}}

Offset(k) == Cardinality(InFront(k))

\* No read that would notice the end of the file meets it.
Noticed(k) == Kind(k) \in {"wide", "string", "array"}

Whole == \A k \in DOMAIN Statements :
             Has(Statements[k]) /\ Noticed(Statements[k]) => Offset(k + 1) <= file.cut

HeaderTypeOK ==
          /\ at \in 0 .. Len(Statements) + 1
          /\ fields \in 0 .. file.cut
          /\ reader \in {"none", "made", "open", "closed"}
          /\ at > 0 => reader \in {"open", "closed"}
          /\ result \in {"reading", "ok", "error", "crashed"}
          /\ strings \subseteq {"world_name", "seed_text"}
          /\ faults \in 0 .. MaxFaults

\* Whatever the version, each field is read from its own place in the file, and
\* none is left out, though some guards return and others skip
\* (world.c:403-930).
ReadsAsWritten ==
    faults = 0 =>
        /\ result = "reading" /\ at > 0 => fields = Min({Offset(at), file.cut})
        /\ result = "ok" => fields = Min({Offset(Len(Statements) + 1), file.cut})

\* A file is refused if and only if a field of more than one byte is missing;
\* missing anglers and flags go unnoticed (world.c:807 and
\* binary_reader.c:141-145).
RefusedIffCutOff ==
    faults = 0 /\ result \in {"ok", "error"} =>
        (result = "ok" <=> Whole)

\* On every way out the name was freed, and the seed too, unless the number
\* behind it was missing (world.c:450-458 and :926-927).
StringsAreFreed ==
    result \in {"ok", "error"} =>
        \/ strings = {}
        \/ strings = {"seed_text"} /\ statement.name = "generator" /\ result = "error"

-----------------------------------------------------------------------------
(* The inductive invariant of the headers.                                 *)

\* The version has what is behind every stop in front of the k-th statement.
Passed(k) == \A j \in 1 .. k - 1 :
                 Statements[j].kind = "stop" => Statements[j].from <= file.version

\* No field in front of the k-th statement is missing that a read would notice.
Intact(k) == \A j \in 1 .. k - 1 :
                 Has(Statements[j]) /\ Noticed(Statements[j]) => Offset(j + 1) <= file.cut

Reading ==
    result = "reading" =>
        /\ at = 0 => fields = 0 /\ strings = {}
        /\ Passed(at)
        /\ faults = 0 /\ at > 0 => fields = Min({Offset(at), file.cut}) /\ Intact(at)
        /\ "seed_text" \in strings => /\ at > 1
                                      /\ Statements[at - 1].name = "seed_text"
                                      /\ Statements[at - 1].from <= file.version

Finished ==
    /\ result = "ok" => /\ strings = {}
                        /\ faults = 0 => /\ fields = Min({Offset(Len(Statements) + 1), file.cut})
                                         /\ Whole
    /\ result = "error" => /\ faults = 0 => ~ Whole
                           /\ StringsAreFreed

HeaderIInv == file \in Files /\ HeaderTypeOK /\ Reading /\ Finished

=============================================================================
