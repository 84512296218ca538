----------------------------- MODULE WorldProofs -----------------------------
(***************************************************************************)
(* Theorems about WorldLoad, for files of any version, with any numbers of *)
(* elements and cut off anywhere, and worlds of any size: where each field *)
(* of the headers is read, which files are refused, what is freed, that no *)
(* tile is touched before its turn, and that tiles are sent as they were   *)
(* saved.  The table of statements has 51; the proofs about the headers go *)
(* by their places in it.                                                  *)
(***************************************************************************)
EXTENDS WorldLoad, DataProofs

-----------------------------------------------------------------------------
(* Counting fields. *)

\* What a function makes of the elements of a finite set is a finite set.
LEMMA FiniteImage ==
    ASSUME NEW S, IsFiniteSet(S), NEW f, f = [x \in S |-> f[x]]
    PROVE  IsFiniteSet({f[x] : x \in S})
<1> DEFINE T == {f[x] : x \in S}
<1>1. f \in [S -> T] /\ \A t \in T : \E x \in S : f[x] = t
  OBVIOUS
<1> HIDE DEF T
<1>2. f \in Surjection(S, T)
  BY <1>1 DEF Surjection
<1> QED BY <1>2, FS_Surjection DEF T

\* A finite set of things with as many values each as size says.
LEMMA FiniteFields ==
    ASSUME NEW D, IsFiniteSet(D), NEW size, \A d \in D : size[d] \in Nat
    PROVE  IsFiniteSet(UNION {{d} \X (1 .. size[d]) : d \in D})
<1> DEFINE f == [d \in D |-> {d} \X (1 .. size[d])]
           S == {f[d] : d \in D}
<1>1. f = [x \in D |-> f[x]]
  OBVIOUS
<1>2. IsFiniteSet(S)
  <2> HIDE DEF f
  <2> QED BY <1>1, FiniteImage
<1>3. \A T \in S : IsFiniteSet(T)
  <2> SUFFICES ASSUME NEW d \in D PROVE IsFiniteSet({d} \X (1 .. size[d]))
    OBVIOUS
  <2>1. IsFiniteSet({d}) /\ IsFiniteSet(1 .. size[d])
    <3>1. 1 \in Int /\ size[d] \in Int
      OBVIOUS
    <3> QED BY <3>1, FS_Singleton, FS_Interval
  <2> QED BY <2>1, FS_Product
<1>4. UNION {{d} \X (1 .. size[d]) : d \in D} = UNION S
  OBVIOUS
<1> HIDE DEF S, f
<1> QED BY <1>2, <1>3, <1>4, FS_UNION

-----------------------------------------------------------------------------
(* The table of statements. *)

Member == world_flags \cup DOMAIN world

LEMMA ElementsType == \A m \in Member : Elements(m) \in Nat \ {0}
<1>1. \A m \in DOMAIN world : world[m] \in Nat \ {0}
  BY DEF world
<1> QED BY <1>1 DEF Member, Elements

LEMMA MembersAre ==
    ASSUME NEW kind, NEW names \in Seq(Member), names # << >>
    PROVE  /\ Members(kind, names).kind = kind /\ Members(kind, names).name = names[1]
           /\ Members(kind, names).from = 0
           /\ Members(kind, names).n \in Nat \ {0}
           /\ DOMAIN Members(kind, names) = {"kind", "name", "n", "from"}
<1> DEFINE N == {names[k] : k \in DOMAIN names}
           size == [m \in N |-> Elements(m)]
           V == UNION {{m} \X (1 .. Elements(m)) : m \in N}
<1>1. IsFiniteSet(N)
  <2>1. names = [x \in DOMAIN names |-> names[x]] /\ DOMAIN names = 1 .. Len(names) /\ Len(names) \in Nat
    OBVIOUS
  <2>2. IsFiniteSet(DOMAIN names)
    <3>1. 1 \in Int /\ Len(names) \in Int
      BY <2>1
    <3>2. IsFiniteSet(1 .. Len(names))
      BY <3>1, FS_Interval
    <3> QED BY <2>1, <3>2
  <2> QED BY <2>1, <2>2, FiniteImage
<1>2. N \subseteq Member /\ names[1] \in N
  OBVIOUS
<1> HIDE DEF N
<1>3. \A d \in N : size[d] = Elements(d) /\ size[d] \in Nat
  BY <1>2, ElementsType
<1>4. IsFiniteSet(UNION {{d} \X (1 .. size[d]) : d \in N})
  <2> HIDE DEF size
  <2> QED BY <1>1, <1>3, FiniteFields
<1>5. V = UNION {{d} \X (1 .. size[d]) : d \in N}
  BY <1>3
<1>6. << names[1], 1 >> \in V
  <2>1. 1 \in 1 .. Elements(names[1])
    BY <1>2, ElementsType
  <2> QED BY <1>2, <2>1
<1> HIDE DEF V, size
<1>7. IsFiniteSet(V) /\ V # {}
  BY <1>4, <1>5, <1>6
<1>8. Cardinality(V) \in Nat /\ Cardinality(V) # 0
  BY <1>7, FS_CardinalityType, FS_EmptySet
<1>9. Members(kind, names) = Statement(kind, names[1], Cardinality(V))
  BY DEF Members, V, N
<1> QED BY <1>8, <1>9 DEF Statement

\* What is known of all statements.
Known(s) ==
    /\ s.kind = "wide" => s.n # 0 /\ s.name # "important"
    /\ s.kind = "string" => s.n = 1 /\ s.name \in {"world_name", "seed_text"}
    /\ s.kind = "array" => s.name \in {"positions", "kill_counts"}
    /\ s.kind = "stop" => s.name = "stop" /\ s.n = 0
    /\ s.name = "seed_text" => s.kind = "string"

\* A statement that is no stop says itself which version brought its fields.
Plain(s) ==
    /\ s.kind # "stop"
    /\ s.name \in DOMAIN Introduced => Introduced[s.name] = s.from
    /\ s.name \notin DOMAIN Introduced => s.from = 0

Names == Member \cup {"metadata", "positions", "num_important", "important", "world_name",
                      "seed_text", "generator", "skipped", "anglers", "kill_counts", "stop"}

StatementRecords ==
    [kind : {"wide", "byte", "string", "array", "stop", "metadata", "flags", "anglers"},
     name : Names, n : Nat, from : Nat]

KnownStatements == {s \in StatementRecords : Known(s)}

PlainStatements == {s \in KnownStatements : Plain(s)}

NoSeed == {s \in KnownStatements : s.name # "seed_text"}

LEMMA MemberNames == Member \cap {"important", "seed_text", "stop"} = {}
<1>1. "important" \notin world_flags /\ "seed_text" \notin world_flags /\ "stop" \notin world_flags
  BY DEF world_flags
<1>2. "important" \notin DOMAIN world /\ "seed_text" \notin DOMAIN world /\ "stop" \notin DOMAIN world
  BY DEF world
<1> QED BY <1>1, <1>2 DEF Member

LEMMA MembersKnown ==
    ASSUME NEW kind \in {"wide", "byte"}, NEW names \in Seq(Member), names # << >>
    PROVE  /\ Members(kind, names) \in NoSeed
           /\ names[1] \notin DOMAIN Introduced => Members(kind, names) \in PlainStatements
<1> DEFINE s == Members(kind, names)
<1>1. names[1] \in Member
  OBVIOUS
<1>2. s = [kind |-> kind, name |-> names[1], n |-> s.n, from |-> 0] /\ s.n \in Nat /\ s.n # 0
  <2>1. s = Statement(kind, names[1], s.n)
    BY DEF Members, Statement
  <2> QED BY <2>1, MembersAre DEF Statement
<1> HIDE DEF s
<1>3. /\ s.kind = kind /\ s.name = names[1] /\ s.from = 0
      /\ s \in StatementRecords
  <2>1. names[1] \in Names
    BY <1>1 DEF Names
  <2> HIDE DEF s
  <2>2. \A n \in Nat : [kind |-> kind, name |-> names[1], n |-> n, from |-> 0] \in
                          StatementRecords
    BY <2>1 DEF StatementRecords
  <2>3. s.kind = kind /\ s.name = names[1] /\ s.from = 0
    BY <1>2
  <2> QED BY <1>2, <2>2, <2>3
<1>4. Known(s) /\ s.name # "seed_text"
  BY <1>1, <1>2, <1>3, MemberNames DEF Known
<1>5. names[1] \notin DOMAIN Introduced => Plain(s)
  BY <1>3 DEF Plain
<1> QED BY <1>3, <1>4, <1>5 DEF s, NoSeed, PlainStatements, KnownStatements

LEMMA MembersSince ==
    ASSUME NEW kind \in {"wide", "byte"}, NEW names \in Seq(Member), names # << >>,
           names[1] \in DOMAIN Introduced, NEW v \in Nat, v = Introduced[names[1]]
    PROVE  Since(v, Members(kind, names)) \in NoSeed \cap PlainStatements
<1> DEFINE s == Members(kind, names)
           t == Since(v, s)
<1>1. s \in StatementRecords /\ Known(s) /\ s.name # "seed_text"
  BY MembersKnown DEF NoSeed, KnownStatements
<1>2. s.kind = kind /\ s.name = names[1]
  BY MembersAre
<1>3. t = [s EXCEPT !.from = v]
  BY DEF Since
<1> HIDE DEF s, t
<1>4. /\ t \in StatementRecords
      /\ t.kind = s.kind /\ t.name = s.name /\ t.n = s.n /\ t.from = v
  BY <1>1, <1>3 DEF StatementRecords
<1>5. Known(t) /\ Plain(t)
  BY <1>1, <1>2, <1>4 DEF Known, Plain
<1> QED BY <1>1, <1>4, <1>5 DEF s, t, NoSeed, PlainStatements, KnownStatements

\* The statements of a segment without stops and seeds.
Segment == PlainStatements \cap NoSeed

LEMMA ReadsKnown ==
    ASSUME NEW names \in Seq(Member), names # << >>, names[1] \notin DOMAIN Introduced
    PROVE  {Wide(names), Unsigned(names), Bytes(names)} \subseteq Segment
BY MembersKnown DEF Wide, Unsigned, Bytes, Segment

LEMMA ReadsSince ==
    ASSUME NEW m \in Member, m \in DOMAIN Introduced, NEW v \in Nat, v = Introduced[m]
    PROVE  {Since(v, Wide(<< m >>)), Since(v, Bytes(<< m >>))} \subseteq Segment
<1> DEFINE names == << m >>
<1>1. names \in Seq(Member) /\ names # << >> /\ names[1] = m
  OBVIOUS
<1> HIDE DEF names
<1>2. Since(v, Wide(names)) \in Segment /\ Since(v, Bytes(names)) \in Segment
  BY <1>1, MembersSince DEF Wide, Bytes, Segment
<1> QED BY <1>2 DEF names

LEMMA OthersKnown ==
    ASSUME NEW kind \in {"metadata", "flags", "array", "byte", "wide", "string"},
           NEW name \in Names \ {"seed_text"}, NEW n \in Nat, NEW from \in Nat,
           name \in DOMAIN Introduced => Introduced[name] = from,
           name \notin DOMAIN Introduced => from = 0,
           Known([kind |-> kind, name |-> name, n |-> n, from |-> from])
    PROVE  /\ Since(from, Statement(kind, name, n)) \in Segment
           /\ from = 0 => Statement(kind, name, n) \in Segment
<1> DEFINE s == [kind |-> kind, name |-> name, n |-> n, from |-> from]
           t == Statement(kind, name, n)
<1>1. t = [kind |-> kind, name |-> name, n |-> n, from |-> 0]
  BY DEF Statement
<1>2. Since(from, t) = s
  BY <1>1 DEF Since
<1>3. /\ s \in StatementRecords /\ s.kind = kind /\ s.name = name /\ s.n = n /\ s.from = from
      /\ s.kind # "stop"
  BY DEF StatementRecords
<1> HIDE DEF s, t
<1>4. Plain(s)
  BY <1>3 DEF Plain
<1>5. Known(s)
  BY DEF s
<1>6. from = 0 => t = s
  BY <1>1 DEF s
<1> QED BY <1>2, <1>3, <1>4, <1>5, <1>6 DEF t, Segment, NoSeed, PlainStatements, KnownStatements

\* What is known of a statement behind the first stop.
Behind(s, kind, name, from) ==
    s \in NoSeed /\ s.kind = kind /\ s.name = name /\ s.from = from

LEMMA StopsAre == ASSUME NEW v \in Nat PROVE Behind(Stop(v), "stop", "stop", v)
<1> DEFINE s == [kind |-> "stop", name |-> "stop", n |-> 0, from |-> v]
<1>1. Stop(v) = s
  BY DEF Stop, Since, Statement
<1>2. s \in StatementRecords /\ s.kind = "stop" /\ s.name = "stop" /\ s.n = 0 /\ s.from = v
  BY DEF StatementRecords, Names
<1> HIDE DEF s
<1> QED BY <1>1, <1>2 DEF Behind, NoSeed, KnownStatements, Known

LEMMA ReadsAre ==
    ASSUME NEW kind \in {"wide", "byte"}, NEW names \in Seq(Member), names # << >>, NEW v \in Nat
    PROVE  /\ Behind(Members(kind, names), kind, names[1], 0)
           /\ Behind(Since(v, Members(kind, names)), kind, names[1], v)
<1> DEFINE s == Members(kind, names)
           t == Since(v, s)
<1>1. s \in StatementRecords /\ Known(s) /\ s.name # "seed_text"
  BY MembersKnown DEF NoSeed, KnownStatements
<1>2. s.kind = kind /\ s.name = names[1] /\ s.from = 0
  BY MembersAre
<1>3. t = [s EXCEPT !.from = v]
  BY DEF Since
<1> HIDE DEF s, t
<1>4. t \in StatementRecords /\ t.kind = s.kind /\ t.name = s.name /\ t.n = s.n /\ t.from = v
  BY <1>1, <1>3 DEF StatementRecords
<1>5. Known(t)
  BY <1>1, <1>4 DEF Known
<1> QED BY <1>1, <1>2, <1>4, <1>5 DEF s, t, Behind, NoSeed, KnownStatements

LEMMA FileHeaderKnown == FileHeader \in Seq(Segment) /\ Len(FileHeader) = 5
<1>1. Wide(<< "version" >>) \in Segment
  <2>1. << "version" >> \in Seq(Member)
    BY DEF Member, world
  <2>2. "version" \notin DOMAIN Introduced
    BY DEF Introduced
  <2> QED BY <2>1, <2>2, ReadsKnown
<1>2. Statement("metadata", "metadata", 3) \in Segment
  <2>1. "metadata" \in Names \ {"seed_text"}
    BY DEF Names
  <2>2. "metadata" \notin DOMAIN Introduced
    BY DEF Introduced
  <2>3. Known([kind |-> "metadata", name |-> "metadata", n |-> 3, from |-> 0])
    BY DEF Known
  <2> QED BY <2>1, <2>2, <2>3, OthersKnown
<1>3. Array("positions") \in Segment
  <2>1. "positions" \in Names \ {"seed_text"}
    BY DEF Names
  <2>2. "positions" \notin DOMAIN Introduced
    BY DEF Introduced
  <2>3. Known([kind |-> "array", name |-> "positions", n |-> 0, from |-> 0])
    BY DEF Known
  <2> QED BY <2>1, <2>2, <2>3, OthersKnown DEF Array
<1>4. Statement("wide", "num_important", 1) \in Segment
  <2>1. "num_important" \in Names \ {"seed_text"}
    BY DEF Names
  <2>2. "num_important" \notin DOMAIN Introduced
    BY DEF Introduced
  <2>3. Known([kind |-> "wide", name |-> "num_important", n |-> 1, from |-> 0])
    BY DEF Known
  <2> QED BY <2>1, <2>2, <2>3, OthersKnown
<1>5. Statement("flags", "important", 0) \in Segment
  <2>1. "important" \in Names \ {"seed_text"}
    BY DEF Names
  <2>2. "important" \notin DOMAIN Introduced
    BY DEF Introduced
  <2>3. Known([kind |-> "flags", name |-> "important", n |-> 0, from |-> 0])
    BY DEF Known
  <2> QED BY <2>1, <2>2, <2>3, OthersKnown
<1> QED BY <1>1, <1>2, <1>3, <1>4, <1>5 DEF FileHeader

LEMMA AppearanceKnown == Appearance \in Seq(Segment) /\ Len(Appearance) = 9
<1>1. Since(112, Bytes(<< "expert_mode" >>)) \in Segment
  <2>1. "expert_mode" \in Member
    BY DEF Member, world
  <2>2. "expert_mode" \in DOMAIN Introduced /\ Introduced["expert_mode"] = 112
    BY DEF Introduced
  <2> QED BY <2>1, <2>2, ReadsSince
<1>2. Since(141, Wide(<< "creation_time" >>)) \in Segment
  <2>1. "creation_time" \in Member
    BY DEF Member, world
  <2>2. "creation_time" \in DOMAIN Introduced /\ Introduced["creation_time"] = 141
    BY DEF Introduced
  <2> QED BY <2>1, <2>2, ReadsSince
<1>3. Bytes(<< "moon_type" >>) \in Segment
  <2>1. << "moon_type" >> \in Seq(Member)
    BY DEF Member, world
  <2>2. "moon_type" \notin DOMAIN Introduced
    BY DEF Introduced
  <2> QED BY <2>1, <2>2, ReadsKnown
<1>4. Wide(<< "tree_x", "tree_style", "cave_back_x", "cave_back_style", "ice_back_style",
    "jungle_back_style", "hell_back_style", "spawn_tile", "world_surface", "rock_layer",
    "temp_time" >>)
        \in Segment
  <2>1. << "tree_x", "tree_style", "cave_back_x", "cave_back_style", "ice_back_style",
      "jungle_back_style", "hell_back_style", "spawn_tile", "world_surface", "rock_layer",
      "temp_time" >> \in Seq(Member)
    BY DEF Member, world
  <2>2. "tree_x" \notin DOMAIN Introduced
    BY DEF Introduced
  <2> QED BY <2>1, <2>2, ReadsKnown
<1>5. Bytes(<< "temp_day_time" >>) \in Segment
  <2>1. << "temp_day_time" >> \in Seq(Member)
    BY DEF Member, world
  <2>2. "temp_day_time" \notin DOMAIN Introduced
    BY DEF Introduced
  <2> QED BY <2>1, <2>2, ReadsKnown
<1>6. Wide(<< "temp_moon_phase" >>) \in Segment
  <2>1. << "temp_moon_phase" >> \in Seq(Member)
    BY DEF Member, world
  <2>2. "temp_moon_phase" \notin DOMAIN Introduced
    BY DEF Introduced
  <2> QED BY <2>1, <2>2, ReadsKnown
<1>7. Bytes(<< "temp_blood_moon", "temp_eclipse" >>) \in Segment
  <2>1. << "temp_blood_moon", "temp_eclipse" >> \in Seq(Member)
    BY DEF Member, world
  <2>2. "temp_blood_moon" \notin DOMAIN Introduced
    BY DEF Introduced
  <2> QED BY <2>1, <2>2, ReadsKnown
<1>8. Wide(<< "dungeon" >>) \in Segment
  <2>1. << "dungeon" >> \in Seq(Member)
    BY DEF Member, world
  <2>2. "dungeon" \notin DOMAIN Introduced
    BY DEF Introduced
  <2> QED BY <2>1, <2>2, ReadsKnown
<1>9. Bytes(<< "crimson" >>) \in Segment
  <2>1. << "crimson" >> \in Seq(Member)
    BY DEF Member, world_flags
  <2>2. "crimson" \notin DOMAIN Introduced
    BY DEF Introduced
  <2> QED BY <2>1, <2>2, ReadsKnown
<1> QED BY <1>1, <1>2, <1>3, <1>4, <1>5, <1>6, <1>7, <1>8, <1>9 DEF Appearance

LEMMA ProgressKnown == Progress \in Seq(Segment) /\ Len(Progress) = 5
<1>1. Bytes(<< "downed_boss_1", "downed_boss_2", "downed_boss_3", "downed_queen_bee",
    "downed_mech_1", "downed_mech_2", "downed_mech_3", "downed_mech_any", "downed_plant",
    "downed_golem" >>)
        \in Segment
  <2>1. << "downed_boss_1", "downed_boss_2", "downed_boss_3", "downed_queen_bee",
      "downed_mech_1", "downed_mech_2", "downed_mech_3", "downed_mech_any", "downed_plant",
      "downed_golem" >> \in Seq(Member)
    BY DEF Member, world_flags
  <2>2. "downed_boss_1" \notin DOMAIN Introduced
    BY DEF Introduced
  <2> QED BY <2>1, <2>2, ReadsKnown
<1>2. Since(118, Bytes(<< "downed_slime_king" >>)) \in Segment
  <2>1. "downed_slime_king" \in Member
    BY DEF Member, world_flags
  <2>2. "downed_slime_king" \in DOMAIN Introduced /\ Introduced["downed_slime_king"] = 118
    BY DEF Introduced
  <2> QED BY <2>1, <2>2, ReadsSince
<1>3. Bytes(<< "saved_goblin", "saved_wizard", "saved_mech", "downed_goblins",
    "downed_clowns", "downed_frost", "downed_pirates", "shadow_orb_smashed", "spawn_meteor",
    "shadow_orb_count" >>)
        \in Segment
  <2>1. << "saved_goblin", "saved_wizard", "saved_mech", "downed_goblins", "downed_clowns",
      "downed_frost", "downed_pirates", "shadow_orb_smashed", "spawn_meteor",
      "shadow_orb_count" >> \in Seq(Member)
    BY DEF Member, world_flags, world
  <2>2. "saved_goblin" \notin DOMAIN Introduced
    BY DEF Introduced
  <2> QED BY <2>1, <2>2, ReadsKnown
<1>4. Wide(<< "altar_count" >>) \in Segment
  <2>1. << "altar_count" >> \in Seq(Member)
    BY DEF Member, world
  <2>2. "altar_count" \notin DOMAIN Introduced
    BY DEF Introduced
  <2> QED BY <2>1, <2>2, ReadsKnown
<1>5. Bytes(<< "hard_mode" >>) \in Segment
  <2>1. << "hard_mode" >> \in Seq(Member)
    BY DEF Member, world_flags
  <2>2. "hard_mode" \notin DOMAIN Introduced
    BY DEF Introduced
  <2> QED BY <2>1, <2>2, ReadsKnown
<1> QED BY <1>1, <1>2, <1>3, <1>4, <1>5 DEF Progress

LEMMA WeatherKnown == Weather \in Seq(Segment) /\ Len(Weather) = 7
<1>1. Wide(<< "invasion_delay", "invasion_size", "invasion_type", "invasion_x" >>)
        \in Segment
  <2>1. << "invasion_delay", "invasion_size", "invasion_type",
      "invasion_x" >> \in Seq(Member)
    BY DEF Member, world
  <2>2. "invasion_delay" \notin DOMAIN Introduced
    BY DEF Introduced
  <2> QED BY <2>1, <2>2, ReadsKnown
<1>2. Since(118, Wide(<< "slime_rain_time" >>)) \in Segment
  <2>1. "slime_rain_time" \in Member
    BY DEF Member, world
  <2>2. "slime_rain_time" \in DOMAIN Introduced /\ Introduced["slime_rain_time"] = 118
    BY DEF Introduced
  <2> QED BY <2>1, <2>2, ReadsSince
<1>3. Since(113, Bytes(<< "sundial_cooldown" >>)) \in Segment
  <2>1. "sundial_cooldown" \in Member
    BY DEF Member, world
  <2>2. "sundial_cooldown" \in DOMAIN Introduced /\ Introduced["sundial_cooldown"] = 113
    BY DEF Introduced
  <2> QED BY <2>1, <2>2, ReadsSince
<1>4. Bytes(<< "raining" >>) \in Segment
  <2>1. << "raining" >> \in Seq(Member)
    BY DEF Member, world_flags
  <2>2. "raining" \notin DOMAIN Introduced
    BY DEF Introduced
  <2> QED BY <2>1, <2>2, ReadsKnown
<1>5. Wide(<< "rain_time", "max_rain", "ore_tiers" >>) \in Segment
  <2>1. << "rain_time", "max_rain", "ore_tiers" >> \in Seq(Member)
    BY DEF Member, world
  <2>2. "rain_time" \notin DOMAIN Introduced
    BY DEF Introduced
  <2> QED BY <2>1, <2>2, ReadsKnown
<1>6. Bytes(<< "bg" >>) \in Segment
  <2>1. << "bg" >> \in Seq(Member)
    BY DEF Member, world
  <2>2. "bg" \notin DOMAIN Introduced
    BY DEF Introduced
  <2> QED BY <2>1, <2>2, ReadsKnown
<1>7. Wide(<< "cloud_bg_active", "num_clouds", "wind_speed" >>) \in Segment
  <2>1. << "cloud_bg_active", "num_clouds", "wind_speed" >> \in Seq(Member)
    BY DEF Member, world
  <2>2. "cloud_bg_active" \notin DOMAIN Introduced
    BY DEF Introduced
  <2> QED BY <2>1, <2>2, ReadsKnown
<1> QED BY <1>1, <1>2, <1>3, <1>4, <1>5, <1>6, <1>7 DEF Weather

LEMMA OtherIs ==
    /\ Behind(Statement("anglers", "anglers", 0), "anglers", "anglers", 0)
    /\ Behind(Array("kill_counts"), "array", "kill_counts", 0)
<1>1. ASSUME NEW kind \in {"anglers", "array"}, NEW name \in {"anglers", "kill_counts"},
             kind = "array" => name = "kill_counts"
      PROVE  Behind(Statement(kind, name, 0), kind, name, 0)
  <2> DEFINE s == Statement(kind, name, 0)
  <2>1. s \in StatementRecords /\ s.kind = kind /\ s.name = name /\ s.n = 0 /\ s.from = 0
    BY DEF Statement, StatementRecords, Names
  <2> HIDE DEF s
  <2>2. Known(s) /\ s.name # "seed_text"
    BY <1>1, <2>1 DEF Known
  <2> QED BY <2>1, <2>2 DEF s, Behind, NoSeed, KnownStatements
<1> QED BY <1>1 DEF Array

LEMMA NewerIs ==
    /\ Len(Newer) = 13
    /\ Behind(Newer[1], "stop", "stop", 95)
    /\ Behind(Newer[2], "anglers", "anglers", 0)
    /\ Behind(Newer[3], "stop", "stop", 99)
    /\ Behind(Newer[4], "byte", "saved_angler", 0)
    /\ Behind(Newer[5], "stop", "stop", 101)
    /\ Behind(Newer[6], "wide", "angler_quest", 0)
    /\ Behind(Newer[7], "stop", "stop", 104)
    /\ Behind(Newer[8], "byte", "saved_stylist", 0)
    /\ Behind(Newer[9], "byte", "saved_tax_collector", 129)
    /\ Behind(Newer[10], "wide", "invasion_size_start", 107)
    /\ Behind(Newer[11], "wide", "cultist_delay", 108)
    /\ Behind(Newer[12], "stop", "stop", 109)
    /\ Behind(Newer[13], "array", "kill_counts", 0)
<1>1. Behind(Newer[1], "stop", "stop", 95)
  BY StopsAre DEF Newer
<1>2. Behind(Newer[2], "anglers", "anglers", 0)
  BY OtherIs DEF Newer
<1>3. Behind(Newer[3], "stop", "stop", 99)
  BY StopsAre DEF Newer
<1>4. Behind(Newer[4], "byte", "saved_angler", 0)
  <2>1. << "saved_angler" >> \in Seq(Member)
    BY DEF Member, world_flags
  <2>2. Behind(Bytes(<< "saved_angler" >>), "byte", "saved_angler", 0)
    BY <2>1, ReadsAre DEF Bytes
  <2> QED BY <2>2 DEF Newer
<1>5. Behind(Newer[5], "stop", "stop", 101)
  BY StopsAre DEF Newer
<1>6. Behind(Newer[6], "wide", "angler_quest", 0)
  <2>1. << "angler_quest" >> \in Seq(Member)
    BY DEF Member, world
  <2>2. Behind(Wide(<< "angler_quest" >>), "wide", "angler_quest", 0)
    BY <2>1, ReadsAre DEF Wide
  <2> QED BY <2>2 DEF Newer
<1>7. Behind(Newer[7], "stop", "stop", 104)
  BY StopsAre DEF Newer
<1>8. Behind(Newer[8], "byte", "saved_stylist", 0)
  <2>1. << "saved_stylist" >> \in Seq(Member)
    BY DEF Member, world_flags
  <2>2. Behind(Bytes(<< "saved_stylist" >>), "byte", "saved_stylist", 0)
    BY <2>1, ReadsAre DEF Bytes
  <2> QED BY <2>2 DEF Newer
<1>9. Behind(Newer[9], "byte", "saved_tax_collector", 129)
  <2>1. << "saved_tax_collector" >> \in Seq(Member)
    BY DEF Member, world_flags
  <2>2. Behind(Since(129, Bytes(<< "saved_tax_collector" >>)), "byte", "saved_tax_collector",
      129)
    BY <2>1, ReadsAre DEF Bytes
  <2> QED BY <2>2 DEF Newer
<1>10. Behind(Newer[10], "wide", "invasion_size_start", 107)
  <2>1. << "invasion_size_start" >> \in Seq(Member)
    BY DEF Member, world
  <2>2. Behind(Since(107, Wide(<< "invasion_size_start" >>)), "wide", "invasion_size_start",
      107)
    BY <2>1, ReadsAre DEF Wide
  <2> QED BY <2>2 DEF Newer
<1>11. Behind(Newer[11], "wide", "cultist_delay", 108)
  <2>1. << "cultist_delay" >> \in Seq(Member)
    BY DEF Member, world
  <2>2. Behind(Since(108, Wide(<< "cultist_delay" >>)), "wide", "cultist_delay", 108)
    BY <2>1, ReadsAre DEF Wide
  <2> QED BY <2>2 DEF Newer
<1>12. Behind(Newer[12], "stop", "stop", 109)
  BY StopsAre DEF Newer
<1>13. Behind(Newer[13], "array", "kill_counts", 0)
  BY OtherIs DEF Newer
<1>14. Len(Newer) = 13
  BY DEF Newer
<1> QED BY <1>1, <1>2, <1>3, <1>4, <1>5, <1>6, <1>7, <1>8, <1>9, <1>10, <1>11, <1>12, <1>13, <1>14

LEMMA EventsIs ==
    /\ Len(Events) = 6
    /\ Behind(Events[1], "stop", "stop", 128)
    /\ Behind(Events[2], "byte", "fast_forward_time", 0)
    /\ Behind(Events[3], "stop", "stop", 131)
    /\ Behind(Events[4], "byte", "downed_fishron", 0)
    /\ Behind(Events[5], "stop", "stop", 140)
    /\ Behind(Events[6], "byte", "downed_tower_solar", 0)
<1>1. Behind(Events[1], "stop", "stop", 128)
  BY StopsAre DEF Events
<1>2. Behind(Events[2], "byte", "fast_forward_time", 0)
  <2>1. << "fast_forward_time" >> \in Seq(Member)
    BY DEF Member, world_flags
  <2>2. Behind(Bytes(<< "fast_forward_time" >>), "byte", "fast_forward_time", 0)
    BY <2>1, ReadsAre DEF Bytes
  <2> QED BY <2>2 DEF Events
<1>3. Behind(Events[3], "stop", "stop", 131)
  BY StopsAre DEF Events
<1>4. Behind(Events[4], "byte", "downed_fishron", 0)
  <2>1. << "downed_fishron", "downed_martians", "downed_ancient_cultist", "downed_moonlord",
      "downed_halloween_king", "downed_halloween_tree", "downed_christmas_ice_queen",
      "downed_christmas_santank", "downed_christmas_tree" >> \in Seq(Member)
    BY DEF Member, world_flags
  <2>2. Behind(Bytes(<< "downed_fishron", "downed_martians", "downed_ancient_cultist",
      "downed_moonlord", "downed_halloween_king", "downed_halloween_tree",
      "downed_christmas_ice_queen", "downed_christmas_santank", "downed_christmas_tree" >>),
      "byte", "downed_fishron", 0)
    BY <2>1, ReadsAre DEF Bytes
  <2> QED BY <2>2 DEF Events
<1>5. Behind(Events[5], "stop", "stop", 140)
  BY StopsAre DEF Events
<1>6. Behind(Events[6], "byte", "downed_tower_solar", 0)
  <2>1. << "downed_tower_solar", "downed_tower_vortex", "downed_tower_nebula",
      "downed_tower_stardust", "active_tower_solar", "active_tower_vortex",
      "active_tower_nebula", "active_tower_stardust",
      "lunar_apocalypse_up" >> \in Seq(Member)
    BY DEF Member, world_flags
  <2>2. Behind(Bytes(<< "downed_tower_solar", "downed_tower_vortex", "downed_tower_nebula",
      "downed_tower_stardust", "active_tower_solar", "active_tower_vortex",
      "active_tower_nebula", "active_tower_stardust", "lunar_apocalypse_up" >>), "byte",
      "downed_tower_solar", 0)
    BY <2>1, ReadsAre DEF Bytes
  <2> QED BY <2>2 DEF Events
<1>7. Len(Events) = 6
  BY DEF Events
<1> QED BY <1>1, <1>2, <1>3, <1>4, <1>5, <1>6, <1>7

LEMMA IdentityKnown ==
    /\ Identity \in Seq(PlainStatements) /\ Len(Identity) = 6
    /\ \A k \in {1, 3, 4, 5, 6} : Identity[k] \in NoSeed
    /\ Identity[2].kind = "string" /\ Identity[2].name = "seed_text" /\ Identity[2].from = 179
    /\ Identity[3].kind = "wide" /\ Identity[3].name = "generator" /\ Identity[3].from = 179
<1>1. String("world_name") \in Segment
  <2>1. "world_name" \in Names \ {"seed_text"}
    BY DEF Names
  <2>2. "world_name" \notin DOMAIN Introduced
    BY DEF Introduced
  <2>3. Known([kind |-> "string", name |-> "world_name", n |-> 1, from |-> 0])
    BY DEF Known
  <2> QED BY <2>1, <2>2, <2>3, OthersKnown DEF String
<1>2. /\ Since(179, String("seed_text")) \in PlainStatements
      /\ Since(179, String("seed_text")).kind = "string"
      /\ Since(179, String("seed_text")).name = "seed_text"
      /\ Since(179, String("seed_text")).from = 179
  <2> DEFINE s == [kind |-> "string", name |-> "seed_text", n |-> 1, from |-> 179]
  <2>1. Since(179, String("seed_text")) = s
    BY DEF Since, String, Statement
  <2>2. "seed_text" \in DOMAIN Introduced /\ Introduced["seed_text"] = 179
    BY DEF Introduced
  <2>3. /\ s \in StatementRecords
        /\ s.kind = "string" /\ s.name = "seed_text" /\ s.n = 1 /\ s.from = 179
    BY DEF StatementRecords, Names
  <2> HIDE DEF s
  <2>4. Known(s) /\ Plain(s)
    BY <2>2, <2>3 DEF Known, Plain
  <2> QED BY <2>1, <2>3, <2>4 DEF PlainStatements, KnownStatements
<1>3. /\ Since(179, Statement("wide", "generator", 1)) \in Segment
      /\ Since(179, Statement("wide", "generator", 1)).kind = "wide"
      /\ Since(179, Statement("wide", "generator", 1)).name = "generator"
      /\ Since(179, Statement("wide", "generator", 1)).from = 179
  <2>1. "generator" \in Names \ {"seed_text"}
    BY DEF Names
  <2>2. "generator" \in DOMAIN Introduced /\ Introduced["generator"] = 179
    BY DEF Introduced
  <2>3. Known([kind |-> "wide", name |-> "generator", n |-> 1, from |-> 179])
    BY DEF Known
  <2>4. Since(179, Statement("wide", "generator", 1)) \in Segment
    BY <2>1, <2>2, <2>3, OthersKnown
  <2> QED BY <2>4 DEF Since, Statement
<1>4. Since(182, Statement("byte", "skipped", 1)) \in Segment
  <2>1. "skipped" \in Names \ {"seed_text"}
    BY DEF Names
  <2>2. "skipped" \in DOMAIN Introduced /\ Introduced["skipped"] = 182
    BY DEF Introduced
  <2>3. Known([kind |-> "byte", name |-> "skipped", n |-> 1, from |-> 182])
    BY DEF Known
  <2> QED BY <2>1, <2>2, <2>3, OthersKnown
<1>5. Wide(<< "worldID", "left_world", "right_world", "top_world", "bottom_world" >>) \in Segment
  <2>1. << "worldID", "left_world", "right_world", "top_world", "bottom_world" >> \in Seq(Member)
    BY DEF Member, world
  <2>2. "worldID" \notin DOMAIN Introduced
    BY DEF Introduced
  <2> QED BY <2>1, <2>2, ReadsKnown
<1>6. Unsigned(<< "max_tiles_y", "max_tiles_x" >>) \in Segment
  <2>1. << "max_tiles_y", "max_tiles_x" >> \in Seq(Member)
    BY DEF Member, world
  <2>2. "max_tiles_y" \notin DOMAIN Introduced
    BY DEF Introduced
  <2> QED BY <2>1, <2>2, ReadsKnown
<1>7. /\ Identity[1] = String("world_name") /\ Identity[2] = Since(179, String("seed_text"))
      /\ Identity[3] = Since(179, Statement("wide", "generator", 1))
      /\ Identity[4] = Since(182, Statement("byte", "skipped", 1))
      /\ Identity[5] = Wide(<< "worldID", "left_world", "right_world", "top_world", "bottom_world" >>)
      /\ Identity[6] = Unsigned(<< "max_tiles_y", "max_tiles_x" >>)
  BY DEF Identity
<1>8. Identity \in Seq(PlainStatements) /\ Len(Identity) = 6
  BY <1>1, <1>2, <1>3, <1>4, <1>5, <1>6 DEF Identity, Segment
<1> QED BY <1>1, <1>2, <1>3, <1>4, <1>5, <1>6, <1>7, <1>8 DEF Segment

LEMMA ElementsOfSequence ==
    ASSUME NEW S, NEW q \in Seq(S), NEW n \in Nat, Len(q) = n
    PROVE  \A k \in 1 .. n : q[k] \in S
OBVIOUS

LEMMA SequenceOf ==
    ASSUME NEW S, NEW T, S \subseteq T, NEW q \in Seq(S)
    PROVE  q \in Seq(T)
OBVIOUS

\* t is q of n elements and r of m elements.
Joins(t, q, r, n, m, S) ==
    /\ t \in Seq(S) /\ Len(t) = n + m
    /\ \A k \in 1 .. n : t[k] = q[k]
    /\ \A k \in 1 .. m : t[n + k] = r[k]

LEMMA Joined ==
    ASSUME NEW S, NEW q \in Seq(S), NEW r \in Seq(S), NEW n \in Nat, NEW m \in Nat,
           Len(q) = n, Len(r) = m
    PROVE  Joins(q \o r, q, r, n, m, S)
BY DEF Joins

\* The statements in front of the first stop, and their places.
Beginning == FileHeader \o Identity \o Appearance \o Progress \o Weather

LEMMA BeginningIs ==
    /\ Beginning \in Seq(PlainStatements) /\ Len(Beginning) = 32
    /\ \A k \in 1 .. 32 : k # 7 => Beginning[k] \in NoSeed
    /\ Beginning[7] = Identity[2] /\ Beginning[8] = Identity[3]
<1> DEFINE P == PlainStatements
           a == FileHeader \o Identity
           b == a \o Appearance
           c == b \o Progress
<1>1. /\ FileHeader \in Seq(P) /\ Len(FileHeader) = 5 /\ Identity \in Seq(P) /\ Len(Identity) = 6
      /\ Appearance \in Seq(P) /\ Len(Appearance) = 9 /\ Progress \in Seq(P) /\ Len(Progress) = 5
      /\ Weather \in Seq(P) /\ Len(Weather) = 7
  BY FileHeaderKnown, IdentityKnown, AppearanceKnown, ProgressKnown, WeatherKnown DEF Segment
<1> HIDE DEF P
<1>2. Joins(a, FileHeader, Identity, 5, 6, P)
  BY <1>1, Joined
<1> HIDE DEF a
<1>3. a \in Seq(P) /\ Len(a) = 11
  BY <1>2 DEF Joins
<1>4. Joins(b, a, Appearance, 11, 9, P)
  BY <1>1, <1>3, Joined
<1> HIDE DEF b
<1>5. b \in Seq(P) /\ Len(b) = 20
  BY <1>4 DEF Joins
<1>6. Joins(c, b, Progress, 20, 5, P)
  BY <1>1, <1>5, Joined
<1> HIDE DEF c
<1>7. c \in Seq(P) /\ Len(c) = 25
  BY <1>6 DEF Joins
<1>8. Joins(Beginning, c, Weather, 25, 7, P)
  BY <1>1, <1>7, Joined DEF Beginning, a, b, c
<1>9. ASSUME NEW k \in 1 .. 25 PROVE Beginning[k] = c[k]
  BY <1>8 DEF Joins
<1>10. ASSUME NEW k \in 1 .. 20 PROVE Beginning[k] = b[k]
  <2>1. k \in 1 .. 25
    OBVIOUS
  <2>2. c[k] = b[k]
    BY <1>6 DEF Joins
  <2> QED BY <1>9, <2>1, <2>2
<1>11. ASSUME NEW k \in 1 .. 11 PROVE Beginning[k] = a[k]
  <2>1. k \in 1 .. 20
    OBVIOUS
  <2>2. b[k] = a[k]
    BY <1>4 DEF Joins
  <2> QED BY <1>10, <2>1, <2>2
<1>12. ASSUME NEW k \in 1 .. 5 PROVE Beginning[k] = FileHeader[k]
  BY <1>2, <1>11 DEF Joins
<1>13. ASSUME NEW k \in 1 .. 6 PROVE Beginning[5 + k] = Identity[k]
  BY <1>2, <1>11 DEF Joins
<1>14. ASSUME NEW k \in 1 .. 9 PROVE Beginning[11 + k] = Appearance[k]
  <2>1. 11 + k \in 1 .. 20
    OBVIOUS
  <2>2. b[11 + k] = Appearance[k]
    BY <1>4 DEF Joins
  <2> QED BY <1>10, <2>1, <2>2
<1>15. ASSUME NEW k \in 1 .. 5 PROVE Beginning[20 + k] = Progress[k]
  <2>1. 20 + k \in 1 .. 25
    OBVIOUS
  <2>2. c[20 + k] = Progress[k]
    BY <1>6 DEF Joins
  <2> QED BY <1>9, <2>1, <2>2
<1>16. ASSUME NEW k \in 1 .. 7 PROVE Beginning[25 + k] = Weather[k]
  BY <1>8 DEF Joins
<1>17. Beginning[7] = Identity[2] /\ Beginning[8] = Identity[3]
  <2>1. Beginning[5 + 2] = Identity[2] /\ Beginning[5 + 3] = Identity[3]
    BY <1>13
  <2> QED BY <2>1
<1>18. ASSUME NEW k \in 1 .. 32, k # 7 PROVE Beginning[k] \in NoSeed
  <2>1. CASE k \in 1 .. 5
    <3>1. FileHeader[k] \in NoSeed
      BY <2>1, FileHeaderKnown DEF Segment
    <3> QED BY <1>12, <2>1, <3>1
  <2>2. CASE k \in 6 .. 11
    <3>1. PICK j \in {1, 3, 4, 5, 6} : k = 5 + j
      BY <1>18, <2>2
    <3> QED BY <1>13, <3>1, IdentityKnown
  <2>3. CASE k \in 12 .. 20
    <3>1. PICK j \in 1 .. 9 : k = 11 + j
      BY <2>3
    <3>2. Appearance[j] \in NoSeed
      BY AppearanceKnown, ElementsOfSequence DEF Segment
    <3> QED BY <1>14, <3>1, <3>2
  <2>4. CASE k \in 21 .. 25
    <3>1. PICK j \in 1 .. 5 : k = 20 + j
      BY <2>4
    <3>2. Progress[j] \in NoSeed
      BY ProgressKnown, ElementsOfSequence DEF Segment
    <3> QED BY <1>15, <3>1, <3>2
  <2>5. CASE k \in 26 .. 32
    <3>1. PICK j \in 1 .. 7 : k = 25 + j
      BY <2>5
    <3>2. Weather[j] \in NoSeed
      BY WeatherKnown, ElementsOfSequence DEF Segment
    <3> QED BY <1>16, <3>1, <3>2
  <2> QED BY <2>1, <2>2, <2>3, <2>4, <2>5
<1>19. Beginning \in Seq(PlainStatements) /\ Len(Beginning) = 32
  BY <1>8 DEF Joins, P
<1> QED BY <1>17, <1>18, <1>19

LEMMA Layout ==
    /\ Statements \in Seq(KnownStatements) /\ Len(Statements) = 51
    /\ \A k \in 1 .. 32 : Statements[k] \in PlainStatements
    /\ \A k \in 1 .. 51 : k # 7 => Statements[k] \in NoSeed
    /\ Statements[7] = Identity[2] /\ Statements[8] = Identity[3]
    /\ \A k \in 1 .. 13 : Statements[32 + k] = Newer[k]
    /\ \A k \in 1 .. 6 : Statements[45 + k] = Events[k]
<1> DEFINE K == KnownStatements
           a == Beginning \o Newer
<1>1. Newer \in Seq(NoSeed) /\ Len(Newer) = 13
  <2>1. \A k \in 1 .. 13 : Newer[k] \in NoSeed
    BY NewerIs DEF Behind
  <2>2. Newer \in Seq({Newer[k] : k \in 1 .. 13}) /\ Len(Newer) = 13
    BY DEF Newer
  <2> HIDE DEF Newer
  <2> QED BY <2>1, <2>2
<1>2. Events \in Seq(NoSeed) /\ Len(Events) = 6
  <2>1. \A k \in 1 .. 6 : Events[k] \in NoSeed
    BY EventsIs DEF Behind
  <2>2. Events \in Seq({Events[k] : k \in 1 .. 6}) /\ Len(Events) = 6
    BY DEF Events
  <2> QED BY <2>1, <2>2
<1>3. Beginning \in Seq(K) /\ Newer \in Seq(K) /\ Events \in Seq(K) /\ Len(Beginning) = 32
  <2>1. PlainStatements \subseteq K /\ NoSeed \subseteq K
    BY DEF PlainStatements, NoSeed
  <2> HIDE DEF K
  <2> QED BY <1>1, <1>2, <2>1, BeginningIs, SequenceOf
<1> HIDE DEF K
<1>4. Joins(a, Beginning, Newer, 32, 13, K)
  BY <1>1, <1>3, Joined
<1> HIDE DEF a
<1>5. a \in Seq(K) /\ Len(a) = 45
  BY <1>4 DEF Joins
<1>6. Joins(Statements, a, Events, 45, 6, K)
  BY <1>2, <1>3, <1>5, Joined DEF Statements, a, Beginning
<1>7. Statements \in Seq(K) /\ Len(Statements) = 51
  BY <1>6 DEF Joins
<1>8. ASSUME NEW k \in 1 .. 45 PROVE Statements[k] = a[k]
  BY <1>6 DEF Joins
<1>9. ASSUME NEW k \in 1 .. 6 PROVE Statements[45 + k] = Events[k]
  BY <1>6 DEF Joins
<1>10. ASSUME NEW k \in 1 .. 13 PROVE Statements[32 + k] = Newer[k]
  <2>1. 32 + k \in 1 .. 45
    OBVIOUS
  <2>2. a[32 + k] = Newer[k]
    BY <1>4 DEF Joins
  <2> QED BY <1>8, <2>1, <2>2
<1>11. ASSUME NEW k \in 1 .. 32 PROVE Statements[k] = Beginning[k]
  <2>1. k \in 1 .. 45
    OBVIOUS
  <2>2. a[k] = Beginning[k]
    BY <1>4 DEF Joins
  <2> QED BY <1>8, <2>1, <2>2
<1>12. ASSUME NEW k \in 1 .. 51, k # 7 PROVE Statements[k] \in NoSeed
  <2>1. CASE k \in 1 .. 32
    BY <1>11, <1>12, <2>1, BeginningIs
  <2>2. CASE k \in 33 .. 45
    <3>1. PICK j \in 1 .. 13 : k = 32 + j
      BY <2>2
    <3>2. Newer[j] \in NoSeed
      BY <1>1, ElementsOfSequence
    <3> QED BY <1>10, <3>1, <3>2
  <2>3. CASE k \in 46 .. 51
    <3>1. PICK j \in 1 .. 6 : k = 45 + j
      BY <2>3
    <3>2. Events[j] \in NoSeed
      BY <1>2, ElementsOfSequence
    <3> QED BY <1>9, <3>1, <3>2
  <2> QED BY <2>1, <2>2, <2>3
<1>13. ASSUME NEW k \in 1 .. 32 PROVE Statements[k] \in PlainStatements
  <2>1. Beginning[k] \in PlainStatements
    BY BeginningIs, ElementsOfSequence
  <2> QED BY <1>11, <2>1
<1>14. Statements[7] = Identity[2] /\ Statements[8] = Identity[3]
  <2>1. Statements[7] = Beginning[7] /\ Statements[8] = Beginning[8]
    BY <1>11
  <2> QED BY <2>1, BeginningIs
<1> QED BY <1>7, <1>9, <1>10, <1>12, <1>13, <1>14 DEF K

-----------------------------------------------------------------------------
(* The places of fields. *)

LEMMA FileType ==
    ASSUME file \in Files
    PROVE  /\ file.version \in Nat /\ file.types \in Nat /\ file.anglers \in Nat
           /\ file.kills \in Nat /\ file.cut \in Nat /\ file.positions \in Nat
BY HeaderAssumption

LEMMA LengthIs ==
    ASSUME file \in Files, NEW s \in KnownStatements
    PROVE  /\ Length(s) \in Nat
           /\ Noticed(s) => Length(s) # 0
           /\ s.kind = "stop" => Length(s) = 0 /\ Has(s)
<1>1. Known(s) /\ s \in StatementRecords /\ s.n \in Nat
  BY DEF KnownStatements, StatementRecords
<1>2. 1 + file.positions \in Nat \ {0} /\ 1 + file.anglers \in Nat \ {0} /\ 1 + file.kills \in Nat \ {0}
  BY FileType
<1>3. (file.types + 7) \div 8 \in Nat
  BY FileType
<1>4. /\ s.name = "positions" => Length(s) = 1 + file.positions
      /\ s.name = "important" => Length(s) = (file.types + 7) \div 8
      /\ s.name = "anglers" => Length(s) = 1 + file.anglers
      /\ s.name = "kill_counts" => Length(s) = 1 + file.kills
      /\ s.name \notin {"positions", "important", "anglers", "kill_counts"} => Length(s) = s.n
  BY DEF Length
<1>5. Length(s) \in Nat
  BY <1>1, <1>2, <1>3, <1>4
<1>6. Noticed(s) => Length(s) # 0
  <2>1. Noticed(s) => s.kind \in {"wide", "string", "array"}
    BY <1>1 DEF Noticed, Kind, Known
  <2>2. CASE s.kind = "wide"
    BY <1>1, <1>2, <1>4, <2>2 DEF Known
  <2>3. CASE s.kind = "string"
    BY <1>1, <1>4, <2>3 DEF Known
  <2>4. CASE s.kind = "array"
    BY <1>1, <1>2, <1>4, <2>4 DEF Known
  <2> QED BY <2>1, <2>2, <2>3, <2>4
<1>7. s.kind = "stop" => Length(s) = 0 /\ Has(s)
  <2>1. s.kind = "stop" => s.name = "stop" /\ s.n = 0
    BY <1>1 DEF Known
  <2>2. "stop" \notin DOMAIN Introduced
    BY DEF Introduced
  <2> QED BY <1>4, <2>1, <2>2 DEF Has
<1> QED BY <1>5, <1>6, <1>7

LEMMA StatementIs == \A k \in 1 .. 51 : Statements[k] \in KnownStatements
BY Layout, ElementsOfSequence

LEMMA FieldsAreCounted ==
    ASSUME file \in Files, NEW k \in 1 .. 52
    PROVE  IsFiniteSet(InFront(k)) /\ Offset(k) \in Nat
<1> DEFINE D == {t \in 1 .. k - 1 : Has(Statements[t])}
           size == [t \in D |-> Length(Statements[t])]
<1>1. IsFiniteSet(D)
  <2>1. IsFiniteSet(1 .. k - 1)
    <3>1. k - 1 \in Int /\ 1 \in Int
      OBVIOUS
    <3> QED BY <3>1, FS_Interval
  <2> QED BY <2>1, FS_Subset
<1>2. \A d \in D : size[d] = Length(Statements[d]) /\ size[d] \in Nat
  <2> SUFFICES ASSUME NEW d \in D PROVE Length(Statements[d]) \in Nat
    OBVIOUS
  <2>1. d \in 1 .. 51
    OBVIOUS
  <2> QED BY <2>1, StatementIs, LengthIs
<1>3. InFront(k) = UNION {{d} \X (1 .. size[d]) : d \in D}
  BY <1>2 DEF InFront
<1> HIDE DEF D, size
<1>4. IsFiniteSet(InFront(k))
  BY <1>1, <1>2, <1>3, FiniteFields
<1> QED BY <1>4, FS_CardinalityType DEF Offset

LEMMA NextOffset ==
    ASSUME file \in Files, NEW k \in 1 .. 51
    PROVE  /\ Has(Statements[k]) => Offset(k + 1) = Offset(k) + Length(Statements[k])
           /\ ~ Has(Statements[k]) => Offset(k + 1) = Offset(k)
<1> DEFINE n == Length(Statements[k])
           T == {k} \X (1 .. n)
<1>1. n \in Nat
  BY StatementIs, LengthIs
<1>2. k \in 1 .. 52 /\ \A t : t \in 1 .. (k + 1) - 1 <=> t \in 1 .. k - 1 \/ t = k
  OBVIOUS
<1>3. IsFiniteSet(InFront(k)) /\ Offset(k) \in Nat
  BY <1>2, FieldsAreCounted
<1>4. CASE ~ Has(Statements[k])
  <2>1. {t \in 1 .. (k + 1) - 1 : Has(Statements[t])} = {t \in 1 .. k - 1 : Has(Statements[t])}
    BY <1>2, <1>4
  <2> QED BY <1>4, <2>1 DEF Offset, InFront
<1>5. CASE Has(Statements[k])
  <2>1. InFront(k + 1) = InFront(k) \cup T
    <3>1. {t \in 1 .. (k + 1) - 1 : Has(Statements[t])} = {t \in 1 .. k - 1 : Has(Statements[t])} \cup {k}
      BY <1>2, <1>5
    <3> QED BY <3>1 DEF InFront
  <2>2. IsFiniteSet(T) /\ Cardinality(T) = n
    <3>1. IsFiniteSet({k}) /\ Cardinality({k}) = 1
      BY FS_Singleton
    <3>2. IsFiniteSet(1 .. n) /\ Cardinality(1 .. n) = n
      <4>1. 1 \in Int /\ n \in Int /\ n >= 0
        BY <1>1
      <4> HIDE DEF n
      <4>2. IsFiniteSet(1 .. n) /\ Cardinality(1 .. n) = IF 1 > n THEN 0 ELSE n - 1 + 1
        BY <4>1, FS_Interval
      <4> QED BY <4>1, <4>2
    <3> HIDE DEF n
    <3>3. IsFiniteSet(T) /\ Cardinality(T) = 1 * n
      BY ZenonT(60), <3>1, <3>2, FS_Product
    <3> QED BY <1>1, <3>3
  <2>3. InFront(k) \cap T = {}
    <3>1. \A t \in 1 .. k - 1 : t # k
      OBVIOUS
    <3> QED BY <3>1 DEF InFront
  <2> HIDE DEF T, n
  <2>4. Cardinality(InFront(k) \cup T) = Cardinality(InFront(k)) + Cardinality(T) - 0
    BY <1>3, <2>2, <2>3, FS_Union, FS_EmptySet
  <2>5. Offset(k + 1) = Cardinality(InFront(k) \cup T) /\ Offset(k) = Cardinality(InFront(k))
    BY <2>1 DEF Offset
  <2>6. Offset(k + 1) = Offset(k) + n
    BY <1>1, <1>3, <2>2, <2>4, <2>5
  <2> QED BY <1>5, <2>6 DEF n
<1> QED BY <1>4, <1>5

\* Behind the last statement of a version no field is left.
LEMMA LastOffset ==
    ASSUME file \in Files, NEW k \in 1 .. 52,
           \A j \in k .. 51 : Has(Statements[j]) => Length(Statements[j]) = 0
    PROVE  Offset(52) = Offset(k)
<1>1. ASSUME NEW x PROVE x \in InFront(52) <=> x \in InFront(k)
  <2>1. ASSUME x \in InFront(k) PROVE x \in InFront(52)
    <3>1. PICK j \in 1 .. k - 1 : Has(Statements[j]) /\ x \in {j} \X (1 .. Length(Statements[j]))
      BY <2>1 DEF InFront
    <3>2. j \in 1 .. 52 - 1
      OBVIOUS
    <3> QED BY <3>1, <3>2 DEF InFront
  <2>2. ASSUME x \in InFront(52) PROVE x \in InFront(k)
    <3>1. PICK j \in 1 .. 52 - 1 : Has(Statements[j]) /\ x \in {j} \X (1 .. Length(Statements[j]))
      BY <2>2 DEF InFront
    <3>2. Length(Statements[j]) # 0
      BY <3>1
    <3>3. ~ (j \in k .. 51)
      BY <3>1, <3>2
    <3>4. j \in 1 .. k - 1
      BY <3>3
    <3> QED BY <3>1, <3>4 DEF InFront
  <2> QED BY <2>1, <2>2
<1> QED BY <1>1 DEF Offset

-----------------------------------------------------------------------------
(* The guards of the versions. *)

LEMMA PassedNext ==
    ASSUME NEW k \in 1 .. 51
    PROVE  Passed(k + 1) <=> /\ Passed(k)
                             /\ Statements[k].kind = "stop" => Statements[k].from <= file.version
<1>1. \A j : j \in 1 .. (k + 1) - 1 <=> j \in 1 .. k - 1 \/ j = k
  OBVIOUS
<1> QED BY <1>1 DEF Passed

\* The stops in front of each of the newer statements.
LEMMA PassedNewer ==
    ASSUME file \in Files
    PROVE  /\ \A k \in 1 .. 33 : Passed(k)
           /\ Passed(34) <=> 95 <= file.version
           /\ Passed(36) <=> 99 <= file.version
           /\ Passed(38) <=> 101 <= file.version
           /\ Passed(40) <=> 104 <= file.version
           /\ (Passed(41) <=> Passed(40)) /\ (Passed(42) <=> Passed(40)) /\ (Passed(43) <=> Passed(40))
           /\ Passed(45) <=> 109 <= file.version
           /\ Passed(47) <=> 128 <= file.version
           /\ Passed(49) <=> 131 <= file.version
           /\ Passed(51) <=> 140 <= file.version
<1>1. file.version \in Nat
  BY FileType
<1>2. ASSUME NEW k \in 1 .. 33 PROVE Passed(k)
  <2> SUFFICES ASSUME NEW j \in 1 .. k - 1 PROVE Statements[j].kind # "stop"
    BY DEF Passed
  <2>1. j \in 1 .. 32
    OBVIOUS
  <2> QED BY <2>1, Layout DEF PlainStatements, Plain
<1>3. /\ Statements[33] = Newer[1] /\ Statements[34] = Newer[2] /\ Statements[35] = Newer[3]
      /\ Statements[36] = Newer[4] /\ Statements[37] = Newer[5] /\ Statements[38] = Newer[6]
      /\ Statements[39] = Newer[7] /\ Statements[40] = Newer[8] /\ Statements[41] = Newer[9]
      /\ Statements[42] = Newer[10] /\ Statements[43] = Newer[11] /\ Statements[44] = Newer[12]
      /\ Statements[45] = Newer[13]
  BY Layout
<1>4. /\ Statements[46] = Events[1] /\ Statements[47] = Events[2] /\ Statements[48] = Events[3]
      /\ Statements[49] = Events[4] /\ Statements[50] = Events[5] /\ Statements[51] = Events[6]
  BY Layout
<1>5. Passed(34) <=> Passed(33) /\ 95 <= file.version
  BY <1>3, PassedNext, NewerIs DEF Behind
<1>6. Passed(35) <=> Passed(34)
  BY <1>3, PassedNext, NewerIs DEF Behind
<1>7. Passed(36) <=> Passed(35) /\ 99 <= file.version
  BY <1>3, PassedNext, NewerIs DEF Behind
<1>8. Passed(37) <=> Passed(36)
  BY <1>3, PassedNext, NewerIs DEF Behind
<1>9. Passed(38) <=> Passed(37) /\ 101 <= file.version
  BY <1>3, PassedNext, NewerIs DEF Behind
<1>10. Passed(39) <=> Passed(38)
  BY <1>3, PassedNext, NewerIs DEF Behind
<1>11. Passed(40) <=> Passed(39) /\ 104 <= file.version
  BY <1>3, PassedNext, NewerIs DEF Behind
<1>12. Passed(41) <=> Passed(40)
  BY <1>3, PassedNext, NewerIs DEF Behind
<1>13. Passed(42) <=> Passed(41)
  BY <1>3, PassedNext, NewerIs DEF Behind
<1>14. Passed(43) <=> Passed(42)
  BY <1>3, PassedNext, NewerIs DEF Behind
<1>15. Passed(44) <=> Passed(43)
  BY <1>3, PassedNext, NewerIs DEF Behind
<1>16. Passed(45) <=> Passed(44) /\ 109 <= file.version
  BY <1>3, PassedNext, NewerIs DEF Behind
<1>17. Passed(46) <=> Passed(45)
  BY <1>3, PassedNext, NewerIs DEF Behind
<1>18. Passed(47) <=> Passed(46) /\ 128 <= file.version
  BY <1>4, PassedNext, EventsIs DEF Behind
<1>19. Passed(48) <=> Passed(47)
  BY <1>4, PassedNext, EventsIs DEF Behind
<1>20. Passed(49) <=> Passed(48) /\ 131 <= file.version
  BY <1>4, PassedNext, EventsIs DEF Behind
<1>21. Passed(50) <=> Passed(49)
  BY <1>4, PassedNext, EventsIs DEF Behind
<1>22. Passed(51) <=> Passed(50) /\ 140 <= file.version
  BY <1>4, PassedNext, EventsIs DEF Behind
<1>23. Passed(33)
  BY <1>2
<1> QED BY <1>1, <1>5, <1>6, <1>7, <1>8, <1>9, <1>10, <1>11, <1>12, <1>13, <1>14, <1>15, <1>16, <1>17, <1>18, <1>19, <1>20, <1>21, <1>22, <1>23, <1>2

\* A statement reads fields of the version exactly when its own guard and all
\* stops in front of it let it.
LEMMA Guarded ==
    ASSUME file \in Files, NEW k \in 1 .. 51, Statements[k].kind # "stop"
    PROVE  Has(Statements[k]) <=> Statements[k].from <= file.version /\ Passed(k)
<1>1. file.version \in Nat
  BY FileType
<1>2. CASE k \in 1 .. 32
  <2>1. Plain(Statements[k]) /\ Statements[k].from \in Nat
    BY <1>2, Layout DEF PlainStatements, KnownStatements, StatementRecords
  <2>2. Passed(k)
    BY <1>2, PassedNewer
  <2>3. Has(Statements[k]) <=> Statements[k].from <= file.version
    BY <1>1, <2>1 DEF Plain, Has
  <2> QED BY <2>2, <2>3
<1>3. ASSUME NEW j \in 1 .. 51, NEW kind, NEW name, NEW from, Behind(Statements[j], kind, name, from),
             name \in DOMAIN Introduced
      PROVE  (Has(Statements[j]) <=> Introduced[name] <= file.version) /\ Statements[j].from = from
  BY <1>3 DEF Behind, Has
<1>4. CASE k = 34
  <2>1. Behind(Statements[34], "anglers", "anglers", 0)
    BY Layout, NewerIs
  <2>2. "anglers" \in DOMAIN Introduced /\ Introduced["anglers"] = 95
    BY DEF Introduced
  <2>3. (Has(Statements[34]) <=> 95 <= file.version) /\ Statements[34].from = 0
    BY <1>3, <2>1, <2>2
  <2> QED BY <1>1, <1>4, <2>3, PassedNewer
<1>5. CASE k = 36
  <2>1. Behind(Statements[36], "byte", "saved_angler", 0)
    BY Layout, NewerIs
  <2>2. "saved_angler" \in DOMAIN Introduced /\ Introduced["saved_angler"] = 99
    BY DEF Introduced
  <2>3. (Has(Statements[36]) <=> 99 <= file.version) /\ Statements[36].from = 0
    BY <1>3, <2>1, <2>2
  <2> QED BY <1>1, <1>5, <2>3, PassedNewer
<1>6. CASE k = 38
  <2>1. Behind(Statements[38], "wide", "angler_quest", 0)
    BY Layout, NewerIs
  <2>2. "angler_quest" \in DOMAIN Introduced /\ Introduced["angler_quest"] = 101
    BY DEF Introduced
  <2>3. (Has(Statements[38]) <=> 101 <= file.version) /\ Statements[38].from = 0
    BY <1>3, <2>1, <2>2
  <2> QED BY <1>1, <1>6, <2>3, PassedNewer
<1>7. CASE k = 40
  <2>1. Behind(Statements[40], "byte", "saved_stylist", 0)
    BY Layout, NewerIs
  <2>2. "saved_stylist" \in DOMAIN Introduced /\ Introduced["saved_stylist"] = 104
    BY DEF Introduced
  <2>3. (Has(Statements[40]) <=> 104 <= file.version) /\ Statements[40].from = 0
    BY <1>3, <2>1, <2>2
  <2> QED BY <1>1, <1>7, <2>3, PassedNewer
<1>8. CASE k = 41
  <2>1. Behind(Statements[41], "byte", "saved_tax_collector", 129)
    BY Layout, NewerIs
  <2>2. "saved_tax_collector" \in DOMAIN Introduced /\ Introduced["saved_tax_collector"] = 129
    BY DEF Introduced
  <2>3. (Has(Statements[41]) <=> 129 <= file.version) /\ Statements[41].from = 129
    BY <1>3, <2>1, <2>2
  <2> QED BY <1>1, <1>8, <2>3, PassedNewer
<1>9. CASE k = 42
  <2>1. Behind(Statements[42], "wide", "invasion_size_start", 107)
    BY Layout, NewerIs
  <2>2. "invasion_size_start" \in DOMAIN Introduced /\ Introduced["invasion_size_start"] = 107
    BY DEF Introduced
  <2>3. (Has(Statements[42]) <=> 107 <= file.version) /\ Statements[42].from = 107
    BY <1>3, <2>1, <2>2
  <2> QED BY <1>1, <1>9, <2>3, PassedNewer
<1>10. CASE k = 43
  <2>1. Behind(Statements[43], "wide", "cultist_delay", 108)
    BY Layout, NewerIs
  <2>2. "cultist_delay" \in DOMAIN Introduced /\ Introduced["cultist_delay"] = 108
    BY DEF Introduced
  <2>3. (Has(Statements[43]) <=> 108 <= file.version) /\ Statements[43].from = 108
    BY <1>3, <2>1, <2>2
  <2> QED BY <1>1, <1>10, <2>3, PassedNewer
<1>11. CASE k = 45
  <2>1. Behind(Statements[45], "array", "kill_counts", 0)
    BY Layout, NewerIs
  <2>2. "kill_counts" \in DOMAIN Introduced /\ Introduced["kill_counts"] = 109
    BY DEF Introduced
  <2>3. (Has(Statements[45]) <=> 109 <= file.version) /\ Statements[45].from = 0
    BY <1>3, <2>1, <2>2
  <2> QED BY <1>1, <1>11, <2>3, PassedNewer
<1>12. CASE k = 47
  <2>1. Behind(Statements[47], "byte", "fast_forward_time", 0)
    BY Layout, EventsIs
  <2>2. "fast_forward_time" \in DOMAIN Introduced /\ Introduced["fast_forward_time"] = 128
    BY DEF Introduced
  <2>3. (Has(Statements[47]) <=> 128 <= file.version) /\ Statements[47].from = 0
    BY <1>3, <2>1, <2>2
  <2> QED BY <1>1, <1>12, <2>3, PassedNewer
<1>13. CASE k = 49
  <2>1. Behind(Statements[49], "byte", "downed_fishron", 0)
    BY Layout, EventsIs
  <2>2. "downed_fishron" \in DOMAIN Introduced /\ Introduced["downed_fishron"] = 131
    BY DEF Introduced
  <2>3. (Has(Statements[49]) <=> 131 <= file.version) /\ Statements[49].from = 0
    BY <1>3, <2>1, <2>2
  <2> QED BY <1>1, <1>13, <2>3, PassedNewer
<1>14. CASE k = 51
  <2>1. Behind(Statements[51], "byte", "downed_tower_solar", 0)
    BY Layout, EventsIs
  <2>2. "downed_tower_solar" \in DOMAIN Introduced /\ Introduced["downed_tower_solar"] = 140
    BY DEF Introduced
  <2>3. (Has(Statements[51]) <=> 140 <= file.version) /\ Statements[51].from = 0
    BY <1>3, <2>1, <2>2
  <2> QED BY <1>1, <1>14, <2>3, PassedNewer
<1>15. k \notin {33, 35, 37, 39, 44, 46, 48, 50}
  <2>1. /\ Statements[33] = Newer[1] /\ Statements[35] = Newer[3] /\ Statements[37] = Newer[5]
        /\ Statements[39] = Newer[7] /\ Statements[44] = Newer[12] /\ Statements[46] = Events[1]
        /\ Statements[48] = Events[3] /\ Statements[50] = Events[5]
    BY Layout
  <2>2. /\ Newer[1].kind = "stop" /\ Newer[3].kind = "stop" /\ Newer[5].kind = "stop"
        /\ Newer[7].kind = "stop" /\ Newer[12].kind = "stop" /\ Events[1].kind = "stop"
        /\ Events[3].kind = "stop" /\ Events[5].kind = "stop"
    BY NewerIs, EventsIs DEF Behind
  <2> QED BY <2>1, <2>2
<1> QED BY <1>2, <1>4, <1>5, <1>6, <1>7, <1>8, <1>9, <1>10, <1>11, <1>12, <1>13, <1>14, <1>15

-----------------------------------------------------------------------------
(* The invariant of the headers. *)

LEMMA MinOfTwo ==
    ASSUME NEW a \in Nat, NEW b \in Nat
    PROVE  Min({a, b}) = IF a <= b THEN a ELSE b
<1>1. \A x \in {a, b} : (\A y \in {a, b} : x <= y) <=> x = IF a <= b THEN a ELSE b
  OBVIOUS
<1>2. \E x \in {a, b} : \A y \in {a, b} : x <= y
  BY <1>1
<1> QED BY <1>1, <1>2 DEF Min

\* The reader goes on, from where it was or from the end of the file.
Moved(from, n, end) == Min({from + n, end})

LEMMA Moving ==
    \A o, n, c, f \in Nat :
        f = Min({o, c}) => /\ Moved(f, n, c) = Moved(o, n, c)
                           /\ n # 0 => (f + n <= c <=> o + n <= c)
<1> TAKE o, n, c, f \in Nat
<1> HAVE f = Min({o, c})
<1>1. /\ f = IF o <= c THEN o ELSE c
      /\ Min({f + n, c}) = IF f + n <= c THEN f + n ELSE c
      /\ Min({o + n, c}) = IF o + n <= c THEN o + n ELSE c
  BY MinOfTwo
<1> QED BY <1>1 DEF Moved

LEMMA Bounded ==
    ASSUME NEW f \in Nat, NEW n \in Nat, NEW c \in Nat
    PROVE  Min({f + n, c}) \in 0 .. c
<1>1. Min({f + n, c}) = IF f + n <= c THEN f + n ELSE c
  BY MinOfTwo
<1> QED BY <1>1

LEMMA SameFile ==
    ASSUME file' = file, NEW k, at' = k
    PROVE  /\ Offset(at)' = Offset(k) /\ (Passed(at)' <=> Passed(k)) /\ (Intact(at)' <=> Intact(k))
           /\ (Whole' <=> Whole) /\ Offset(Len(Statements) + 1)' = Offset(Len(Statements) + 1)
BY DEF Offset, InFront, Has, Length, Passed, Intact, Whole, Noticed, Kind

LEMMA StatementNow ==
    ASSUME file \in Files, at \in 1 .. 51
    PROVE  /\ statement.n = Length(Statements[at]) /\ statement.kind = Kind(Statements[at])
           /\ statement.name = Statements[at].name /\ statement.from = Statements[at].from
<1>1. Statements[at] \in StatementRecords
  BY StatementIs DEF KnownStatements
<1> QED BY <1>1 DEF statement, StatementRecords

LEMMA IntactNext ==
    ASSUME NEW k \in 1 .. 51
    PROVE  Intact(k + 1) <=> /\ Intact(k)
                             /\ Has(Statements[k]) /\ Noticed(Statements[k]) => Offset(k + 1) <= file.cut
<1>1. \A j : j \in 1 .. (k + 1) - 1 <=> j \in 1 .. k - 1 \/ j = k
  OBVIOUS
<1> QED BY <1>1 DEF Intact

LEMMA Proceeds ==
    ASSUME HeaderIInv, result = "reading", at \in 1 .. 51, at' = at + 1,
           UNCHANGED << file, reader, result >>, Passed(at + 1),
           fields' \in 0 .. file.cut, faults' \in 0 .. MaxFaults,
           strings' \subseteq {"world_name", "seed_text"},
           "seed_text" \in strings' => /\ Statements[at].name = "seed_text"
                                       /\ Statements[at].from <= file.version,
           faults' = 0 => /\ faults = 0 /\ fields' = Min({Offset(at + 1), file.cut})
                          /\ Has(Statements[at]) /\ Noticed(Statements[at])
                                => Offset(at + 1) <= file.cut
    PROVE  HeaderIInv'
<1>1. file' = file /\ reader' = reader /\ result' = "reading"
  OBVIOUS
<1>2. at' \in 1 .. 52 /\ at' # 0 /\ at' - 1 = at /\ at' > 1
  OBVIOUS
<1>3. /\ Offset(at)' = Offset(at + 1) /\ (Passed(at)' <=> Passed(at + 1))
      /\ (Intact(at)' <=> Intact(at + 1))
  BY <1>1, SameFile
<1>4. faults' = 0 => Intact(at + 1)
  <2>1. faults = 0 => Intact(at)
    BY DEF HeaderIInv, Reading
  <2> QED BY <2>1, IntactNext
<1>5. HeaderTypeOK'
  <2>1. at > 0 /\ at' \in 0 .. Len(Statements) + 1
    <3>1. Len(Statements) = 51
      BY Layout
    <3> QED BY <1>2, <3>1
  <2>2. reader' \in {"none", "made", "open", "closed"} /\ (at' > 0 => reader' \in {"open", "closed"})
    BY <1>1, <2>1 DEF HeaderIInv, HeaderTypeOK
  <2> QED BY <1>1, <2>1, <2>2 DEF HeaderTypeOK
<1>6. (faults = 0 /\ at > 0 => fields = Min({Offset(at), file.cut}) /\ Intact(at))'
  BY <1>1, <1>3, <1>4
<1>7. ("seed_text" \in strings => /\ at > 1 /\ Statements[at - 1].name = "seed_text"
                                  /\ Statements[at - 1].from <= file.version)'
  BY <1>1, <1>2
<1>8. Reading'
  BY <1>1, <1>2, <1>3, <1>6, <1>7 DEF Reading
<1>9. Finished'
  BY <1>1 DEF Finished
<1> QED BY <1>1, <1>5, <1>8, <1>9 DEF HeaderIInv

LEMMA Leaves ==
    ASSUME HeaderIInv, UNCHANGED << file, at, reader >>,
           fields' \in 0 .. file.cut, faults' \in 0 .. MaxFaults,
           strings' \subseteq {"world_name", "seed_text"},
           result' \in {"ok", "error", "crashed"},
           result' = "ok" => /\ strings' = {}
                             /\ faults' = 0 => fields' = Min({Offset(52), file.cut}) /\ Whole,
           result' = "error" => /\ faults' = 0 => ~ Whole
                                /\ \/ strings' = {}
                                   \/ strings' = {"seed_text"} /\ statement.name = "generator"
    PROVE  HeaderIInv'
<1>1. file' = file /\ reader' = reader /\ at' = at /\ Len(Statements) + 1 = 52
  BY Layout
<1>2. (Whole' <=> Whole) /\ Offset(Len(Statements) + 1)' = Offset(52)
  BY <1>1, SameFile
<1>3. statement' = statement
  BY <1>1 DEF statement, Length, Kind
<1>4. HeaderTypeOK'
  BY <1>1 DEF HeaderIInv, HeaderTypeOK
<1>5. Reading'
  BY DEF Reading
<1>6. (result = "ok" => /\ strings = {}
                        /\ faults = 0 => /\ fields = Min({Offset(Len(Statements) + 1), file.cut})
                                         /\ Whole)'
  BY <1>1, <1>2
<1>7. (result = "error" => (faults = 0 => ~ Whole) /\ StringsAreFreed)'
  BY <1>2, <1>3 DEF StringsAreFreed
<1>8. Finished'
  BY <1>6, <1>7 DEF Finished
<1> QED BY <1>1, <1>4, <1>5, <1>8 DEF HeaderIInv

\* The seed is only kept for the number behind it.
LEMMA SeedIsLast ==
    ASSUME HeaderIInv, result = "reading", "seed_text" \in strings
    PROVE  /\ at = 8 /\ statement.name = "generator" /\ statement.kind = "wide"
           /\ statement.from <= file.version
<1>1. at \in 0 .. 52 /\ at > 1 /\ Statements[at - 1].name = "seed_text" /\ file \in Files
      /\ Statements[at - 1].from <= file.version
  BY Layout DEF HeaderIInv, HeaderTypeOK, Reading
<1>2. at - 1 \in 1 .. 51
  BY <1>1
<1>3. at - 1 = 7
  BY <1>1, <1>2, Layout DEF NoSeed
<1>4. at = 8 /\ at \in 1 .. 51
  BY <1>1, <1>3
<1>5. Statements[7].from = 179 /\ Statements[8].from = 179 /\ Statements[8].kind = "wide"
      /\ Statements[8].name = "generator"
  BY Layout, IdentityKnown
<1>6. 179 <= file.version
  BY <1>1, <1>3, <1>5
<1>7. Kind(Statements[8]) = "wide"
  BY <1>5 DEF Kind
<1> QED BY <1>1, <1>4, <1>5, <1>6, <1>7, StatementNow

LEMMA AtStatement ==
    ASSUME HeaderIInv, NEW kinds, "stop" \notin kinds, At(kinds)
    PROVE  /\ result = "reading" /\ at \in 1 .. 51 /\ file \in Files /\ faults \in 0 .. MaxFaults
           /\ Has(Statements[at]) /\ Passed(at + 1)
           /\ statement.kind = Kind(Statements[at]) /\ statement.kind \in kinds
           /\ statement.name = Statements[at].name
           /\ Statements[at] \in KnownStatements /\ Statements[at].from <= file.version
           /\ Offset(at) \in Nat /\ statement.n \in Nat /\ fields \in Nat /\ fields <= file.cut
           /\ file.cut \in Nat
           /\ Offset(at + 1) = Offset(at) + statement.n
           /\ Noticed(Statements[at]) => statement.n # 0
           /\ faults = 0 => fields = Min({Offset(at), file.cut})
           /\ strings \subseteq {"world_name", "seed_text"}
           /\ "seed_text" \in strings => statement.name = "generator" /\ "wide" \in kinds
<1>1. /\ result = "reading" /\ at \in 1 .. 51 /\ file \in Files /\ faults \in 0 .. MaxFaults
      /\ strings \subseteq {"world_name", "seed_text"} /\ at > 0 /\ fields \in 0 .. file.cut
  <2>1. DOMAIN Statements = 1 .. 51
    BY Layout
  <2>2. at \in 1 .. 51 /\ at > 0
    BY <2>1 DEF At
  <2> QED BY <2>2 DEF HeaderIInv, HeaderTypeOK, At
<1>2. /\ statement.n = Length(Statements[at]) /\ statement.kind = Kind(Statements[at])
      /\ statement.name = Statements[at].name /\ statement.from = Statements[at].from
  BY <1>1, StatementNow
<1>3. statement.kind \in kinds /\ Statements[at].from <= file.version
  BY <1>2 DEF At
<1>4. Statements[at].kind # "stop"
  <2>1. SUFFICES ASSUME Statements[at].kind = "stop" PROVE FALSE
    OBVIOUS
  <2>2. Statements[at].name # "seed_text"
    BY <2>1, <1>1, StatementIs DEF KnownStatements, Known
  <2>3. statement.kind = "stop"
    BY <1>2, <2>1, <2>2 DEF Kind
  <2> QED BY <1>3, <2>3
<1>5. Passed(at) /\ (faults = 0 => fields = Min({Offset(at), file.cut}))
  BY <1>1 DEF HeaderIInv, Reading
<1>6. Has(Statements[at]) /\ Passed(at + 1)
  BY <1>1, <1>3, <1>4, <1>5, Guarded, PassedNext
<1>7. Statements[at] \in KnownStatements
  BY <1>1, StatementIs
<1>8. statement.n \in Nat /\ (Noticed(Statements[at]) => statement.n # 0)
  BY <1>1, <1>2, <1>7, LengthIs
<1>9. Offset(at) \in Nat /\ Offset(at + 1) = Offset(at) + statement.n
  <2>1. at \in 1 .. 52
    BY <1>1
  <2> QED BY <1>1, <1>2, <1>6, <2>1, FieldsAreCounted, NextOffset
<1>10. file.cut \in Nat /\ fields \in Nat /\ fields <= file.cut
  BY <1>1, FileType
<1>11. "seed_text" \in strings => statement.name = "generator" /\ "wide" \in kinds
  BY <1>1, <1>3, SeedIsLast
<1> QED BY <1>1, <1>2, <1>3, <1>5, <1>6, <1>7, <1>8, <1>9, <1>10, <1>11

\* Where the reader is behind a read of the statement, and whether it is whole.
LEMMA AfterRead ==
    ASSUME HeaderIInv, NEW kinds, "stop" \notin kinds, At(kinds), MoveOver(statement.n)
    PROVE  /\ fields' \in 0 .. file.cut
           /\ faults = 0 => fields' = Min({Offset(at + 1), file.cut})
           /\ faults = 0 /\ statement.n # 0 => (There(statement.n) <=> Offset(at + 1) <= file.cut)
<1> DEFINE o == Offset(at)
           n == statement.n
           c == file.cut
           f == fields
           g == fields'
<1>1. /\ o \in Nat /\ n \in Nat /\ c \in Nat /\ fields \in Nat
      /\ Offset(at + 1) = o + n /\ (faults = 0 => fields = Min({o, c}))
  BY AtStatement
<1>2. fields' = Min({fields + n, c}) /\ (There(n) <=> fields + n <= c)
  BY DEF MoveOver, There
<1>3. /\ f \in Nat /\ g = Min({f + n, c}) /\ (faults = 0 => f = Min({o, c}))
  BY <1>1, <1>2
<1> HIDE DEF o, n, c, f, g
<1>4. g \in 0 .. c
  BY <1>1, <1>3, Bounded
<1>5. ASSUME faults = 0 PROVE g = Min({o + n, c}) /\ (n # 0 => (f + n <= c <=> o + n <= c))
  <2>1. f = Min({o, c})
    BY <1>3, <1>5
  <2>2. o \in Nat /\ n \in Nat /\ c \in Nat /\ f \in Nat
    BY <1>1, <1>3
  <2>3. Moved(f, n, c) = Moved(o, n, c) /\ (n # 0 => (f + n <= c <=> o + n <= c))
    BY <2>1, <2>2, Moving
  <2> QED BY <1>3, <2>3 DEF Moved
<1> QED BY <1>1, <1>2, <1>4, <1>5 DEF o, n, c, f, g

\* The statement is read, and the next one is next.
LEMMA GoesOn ==
    ASSUME HeaderIInv, NEW kinds, "stop" \notin kinds, At(kinds),
           MoveOver(statement.n), Proceed, UNCHANGED << file, reader, faults >>,
           strings' \subseteq {"world_name", "seed_text"},
           "seed_text" \in strings' => statement.name = "seed_text",
           Noticed(Statements[at]) => There(statement.n)
    PROVE  HeaderIInv'
<1>1. /\ result = "reading" /\ at \in 1 .. 51 /\ faults \in 0 .. MaxFaults /\ Passed(at + 1)
      /\ statement.name = Statements[at].name /\ Statements[at].from <= file.version
      /\ Noticed(Statements[at]) => statement.n # 0
  BY AtStatement
<1>2. /\ fields' \in 0 .. file.cut
      /\ faults = 0 => fields' = Min({Offset(at + 1), file.cut})
      /\ faults = 0 /\ statement.n # 0 => (There(statement.n) <=> Offset(at + 1) <= file.cut)
  BY AfterRead
<1>3. at' = at + 1 /\ UNCHANGED << file, reader, result >> /\ faults' = faults
  BY DEF Proceed
<1>4. faults' = 0 => /\ faults = 0 /\ fields' = Min({Offset(at + 1), file.cut})
                     /\ Has(Statements[at]) /\ Noticed(Statements[at])
                           => Offset(at + 1) <= file.cut
  BY <1>1, <1>2, <1>3
<1>5. "seed_text" \in strings' => /\ Statements[at].name = "seed_text"
                                  /\ Statements[at].from <= file.version
  BY <1>1
<1>6. faults' \in 0 .. MaxFaults
  BY <1>1, <1>3
<1> QED BY <1>1, <1>2, <1>3, <1>4, <1>5, <1>6, Proceeds

\* The process dies, or the world is refused.
LEMMA Ends ==
    ASSUME HeaderIInv, NEW kinds, "stop" \notin kinds, At(kinds),
           fields' \in 0 .. file.cut, UNCHANGED << file, at, reader >>,
           faults' \in 0 .. MaxFaults,
           \/ result' = "crashed" /\ strings' = strings
           \/ Leave("error") /\ (faults' = 0 => ~ Whole)
    PROVE  HeaderIInv'
<1>1. /\ strings \subseteq {"world_name", "seed_text"}
      /\ "seed_text" \in strings => statement.name = "generator"
  BY AtStatement
<1>2. strings' \subseteq {"world_name", "seed_text"}
  BY <1>1 DEF Leave
<1>3. result' \in {"error", "crashed"}
  BY DEF Leave
<1>4. result' = "error" => /\ faults' = 0 => ~ Whole
                           /\ \/ strings' = {}
                              \/ strings' = {"seed_text"} /\ statement.name = "generator"
  BY <1>1 DEF Leave
<1> QED BY <1>2, <1>3, <1>4, Leaves

\* A read that meets the end of the file.
LEMMA Misses ==
    ASSUME HeaderIInv, NEW kinds, kinds \subseteq {"wide", "string", "array"}, At(kinds),
           MoveOver(statement.n), ~ There(statement.n), UNCHANGED << file, reader, faults >>,
           Leave("error")
    PROVE  HeaderIInv'
<1>0. "stop" \notin kinds
  OBVIOUS
<1>1. /\ at \in 1 .. 51 /\ faults \in 0 .. MaxFaults /\ Has(Statements[at])
      /\ statement.kind = Kind(Statements[at]) /\ statement.kind \in kinds
      /\ Noticed(Statements[at]) => statement.n # 0
  BY <1>0, AtStatement
<1>2. /\ fields' \in 0 .. file.cut
      /\ faults = 0 /\ statement.n # 0 => (There(statement.n) <=> Offset(at + 1) <= file.cut)
  BY <1>0, AfterRead
<1>3. Noticed(Statements[at])
  BY <1>1 DEF Noticed
<1>4. faults = 0 => ~ Whole
  <2>1. DOMAIN Statements = 1 .. 51
    BY Layout
  <2> QED BY <1>1, <1>2, <1>3, <2>1 DEF Whole
<1>5. UNCHANGED << file, at, reader >> /\ faults' \in 0 .. MaxFaults
  BY <1>1 DEF Leave
<1>6. Leave("error") /\ (faults' = 0 => ~ Whole)
  BY <1>4
<1> QED BY <1>0, <1>2, <1>5, <1>6, Ends

\* A fault of a read.
LEMMA Fails ==
    ASSUME HeaderIInv, NEW kinds, "stop" \notin kinds, At(kinds),
           fields' \in 0 .. file.cut, UNCHANGED << file, at, reader >>, Fault,
           (result' = "crashed" /\ strings' = strings) \/ Leave("error")
    PROVE  HeaderIInv'
<1>1. faults \in 0 .. MaxFaults
  BY AtStatement
<1>2. faults' \in 0 .. MaxFaults /\ faults' # 0
  BY <1>1, HeaderAssumption DEF Fault
<1> QED BY <1>2, Ends

\* Every move of the reader ends in the file or at its end.
LEMMA StaysInFile ==
    ASSUME HeaderIInv, NEW kinds, "stop" \notin kinds, At(kinds), NEW n \in Nat, MoveOver(n)
    PROVE  fields' \in 0 .. file.cut
<1>1. fields \in Nat /\ file.cut \in Nat
  BY AtStatement
<1>2. Min({fields + n, file.cut}) \in 0 .. file.cut
  BY <1>1, Bounded
<1> QED BY <1>2 DEF MoveOver

LEMMA StepReaderNew == ASSUME HeaderIInv, binary_reader_new PROVE HeaderIInv'
<1>0. Len(Statements) = 51
  BY Layout
<1>1. at = 0 /\ at' = 0 /\ file \in Files
  BY <1>0 DEF HeaderIInv, HeaderTypeOK, binary_reader_new
<1>2. /\ strings = {} /\ strings' = {} /\ fields = 0 /\ fields' = 0 /\ file' = file
      /\ faults \in 0 .. MaxFaults /\ file.cut \in Nat
  BY <1>1, FileType DEF HeaderIInv, HeaderTypeOK, Reading, binary_reader_new
<1>3. faults' \in 0 .. MaxFaults /\ (result' = "reading" \/ faults' # 0)
      /\ result' \in {"reading", "error", "crashed"} /\ reader' \in {"none", "made"}
  BY <1>2, HeaderAssumption DEF binary_reader_new, Fault
<1>4. HeaderTypeOK'
  BY <1>0, <1>1, <1>2, <1>3 DEF HeaderTypeOK
<1>5. Reading'
  <2>1. Passed(at)'
    BY <1>1 DEF Passed
  <2> QED BY <1>1, <1>2, <2>1 DEF Reading
<1>6. Finished'
  BY <1>2, <1>3 DEF Finished, StringsAreFreed
<1> QED BY <1>1, <1>2, <1>4, <1>5, <1>6 DEF HeaderIInv

LEMMA StepReaderOpen == ASSUME HeaderIInv, binary_reader_open PROVE HeaderIInv'
<1>0. Len(Statements) = 51
  BY Layout
<1>1. at = 0 /\ file \in Files /\ result = "reading"
  BY <1>0 DEF HeaderIInv, HeaderTypeOK, binary_reader_open
<1>2. /\ strings = {} /\ strings' = {} /\ fields = 0 /\ fields' = 0 /\ file' = file
      /\ faults \in 0 .. MaxFaults /\ file.cut \in Nat /\ Passed(0)
  BY <1>1, FileType DEF HeaderIInv, HeaderTypeOK, Reading, binary_reader_open
<1>3. CASE at' = at + 1 /\ result' = result /\ reader' = "open" /\ faults' = faults
  <2>1. at' = 1 /\ result' = "reading"
    BY <1>1, <1>3
  <2>2. HeaderTypeOK'
    BY <1>0, <1>1, <1>2, <1>3, <2>1 DEF HeaderTypeOK
  <2>3. Passed(at)' /\ Intact(at)'
    BY <2>1 DEF Passed, Intact
  <2>4. Offset(1) = 0
    BY FS_EmptySet DEF Offset, InFront
  <2>5. Offset(at)' = 0
    BY <1>2, <2>1, <2>4, SameFile
  <2>6. 0 = Min({0, file.cut})
    BY <1>2, MinOfTwo
  <2>7. Reading'
    BY <1>2, <2>1, <2>3, <2>5, <2>6 DEF Reading
  <2>8. Finished'
    BY <2>1 DEF Finished
  <2> QED BY <1>1, <1>2, <2>2, <2>7, <2>8 DEF HeaderIInv
<1>4. CASE Fault /\ result' = "error" /\ at' = at /\ reader' = reader
  <2>1. faults' \in 0 .. MaxFaults /\ faults' # 0
    BY <1>2, <1>4, HeaderAssumption DEF Fault
  <2> QED BY <1>1, <1>2, <1>4, <2>1, Leaves
<1> QED BY <1>3, <1>4 DEF binary_reader_open, Proceed

LEMMA StepNotInVersion == ASSUME HeaderIInv, NotInVersion PROVE HeaderIInv'
<1> DEFINE k == Statements[at]
<1>1. /\ result = "reading" /\ at \in 1 .. 51 /\ file \in Files /\ faults \in 0 .. MaxFaults
      /\ strings \subseteq {"world_name", "seed_text"} /\ fields \in 0 .. file.cut /\ at > 0
  <2>1. DOMAIN Statements = 1 .. 51
    BY Layout
  <2>2. at \in 1 .. 51 /\ at > 0
    BY <2>1 DEF NotInVersion
  <2> QED BY <2>2 DEF HeaderIInv, HeaderTypeOK, NotInVersion
<1>2. k \in KnownStatements /\ Known(k) /\ k.from \in Nat /\ file.version \in Nat
  BY <1>1, StatementIs, FileType DEF KnownStatements, StatementRecords
<1>3. statement.kind = Kind(k) /\ statement.from = k.from
  BY <1>1, StatementNow
<1>4. Passed(at) /\ (faults = 0 => fields = Min({Offset(at), file.cut}))
  BY <1>1 DEF HeaderIInv, Reading
<1>5. statement.kind = "stop" <=> k.kind = "stop"
  BY <1>2, <1>3 DEF Kind, Known
<1>6. (k.from > file.version) # (k.kind = "stop")
  BY <1>3, <1>5 DEF NotInVersion
<1>7. /\ Passed(at + 1)
      /\ ~ (Has(k) /\ Noticed(k))
      /\ Offset(at + 1) = Offset(at)
  <2>1. at \in 1 .. 52
    BY <1>1
  <2>2. Offset(at) \in Nat
    BY <1>1, <2>1, FieldsAreCounted
  <2>3. CASE k.kind = "stop"
    <3>1. k.from <= file.version
      BY <1>2, <1>6, <2>3
    <3>2. Length(k) = 0 /\ Has(k) /\ ~ Noticed(k)
      BY <1>1, <1>2, <2>3, LengthIs
    <3>3. Offset(at + 1) = Offset(at)
      BY <1>1, <2>2, <3>2, NextOffset
    <3> QED BY <1>1, <1>4, <3>1, <3>2, <3>3, PassedNext
  <2>4. CASE k.kind # "stop"
    <3>1. ~ (k.from <= file.version)
      BY <1>2, <1>6, <2>4
    <3>2. ~ Has(k)
      BY <1>1, <2>4, <3>1, Guarded
    <3>3. Offset(at + 1) = Offset(at)
      BY <1>1, <3>2, NextOffset
    <3> QED BY <1>1, <1>4, <2>4, <3>2, <3>3, PassedNext
  <2> QED BY <2>3, <2>4
<1>8. "seed_text" \notin strings
  <2> SUFFICES ASSUME "seed_text" \in strings PROVE FALSE
    OBVIOUS
  <2>1. statement.kind = "wide" /\ statement.from <= file.version
    BY <1>1, SeedIsLast
  <2> QED BY <1>2, <1>3, <1>5, <1>6, <2>1
<1>9. at' = at + 1 /\ UNCHANGED << file, reader, result >>
      /\ fields' = fields /\ strings' = strings /\ faults' = faults
  BY DEF NotInVersion, Proceed
<1>10. faults' = 0 => /\ faults = 0 /\ fields' = Min({Offset(at + 1), file.cut})
                      /\ Has(Statements[at]) /\ Noticed(Statements[at])
                            => Offset(at + 1) <= file.cut
  BY <1>4, <1>7, <1>9
<1> QED BY <1>1, <1>7, <1>8, <1>9, <1>10, Proceeds

LEMMA StepStopEarly == ASSUME HeaderIInv, StopEarly PROVE HeaderIInv'
<1>1. /\ result = "reading" /\ at \in 1 .. 51 /\ file \in Files /\ faults \in 0 .. MaxFaults
      /\ strings \subseteq {"world_name", "seed_text"} /\ fields \in 0 .. file.cut /\ at > 0
  <2>1. DOMAIN Statements = 1 .. 51
    BY Layout
  <2>2. at \in 1 .. 51 /\ at > 0
    BY <2>1 DEF StopEarly
  <2> QED BY <2>2 DEF HeaderIInv, HeaderTypeOK, StopEarly
<1>2. statement.kind = Kind(Statements[at]) /\ statement.from = Statements[at].from
  BY <1>1, StatementNow
<1>3. /\ Passed(at) /\ (faults = 0 => fields = Min({Offset(at), file.cut}) /\ Intact(at))
      /\ file.version \in Nat /\ Statements[at].from \in Nat
  BY <1>1, StatementIs, FileType DEF HeaderIInv, Reading, KnownStatements, StatementRecords
<1>4. Statements[at].kind = "stop" /\ ~ (Statements[at].from <= file.version)
  <2>1. Known(Statements[at])
    BY <1>1, StatementIs DEF KnownStatements
  <2> QED BY <1>2, <1>3, <2>1 DEF Kind, Known, StopEarly
<1>5. \A j \in at .. 51 : Has(Statements[j]) => Length(Statements[j]) = 0
  <2> SUFFICES ASSUME NEW j \in at .. 51, Has(Statements[j]) PROVE Length(Statements[j]) = 0
    OBVIOUS
  <2>1. j \in 1 .. 51 /\ Statements[j] \in KnownStatements
    BY <1>1, StatementIs
  <2>2. CASE Statements[j].kind = "stop"
    BY <1>1, <2>1, <2>2, LengthIs
  <2>3. CASE Statements[j].kind # "stop"
    <3>1. j # at
      BY <1>4, <2>3
    <3>2. at \in 1 .. j - 1
      BY <1>1, <2>1, <3>1
    <3>3. ~ Passed(j)
      BY <1>4, <3>2 DEF Passed
    <3> QED BY <1>1, <2>1, <2>3, <3>3, Guarded
  <2> QED BY <2>2, <2>3
<1>6. Offset(52) = Offset(at)
  <2>1. at \in 1 .. 52
    BY <1>1
  <2> QED BY <1>1, <1>5, <2>1, LastOffset
<1>7. faults = 0 => Whole
  <2> SUFFICES ASSUME faults = 0, NEW j \in DOMAIN Statements,
                      Has(Statements[j]), Noticed(Statements[j])
               PROVE  Offset(j + 1) <= file.cut
    BY DEF Whole
  <2>1. j \in 1 .. 51
    BY Layout
  <2>2. Length(Statements[j]) # 0
    BY <1>1, <2>1, StatementIs, LengthIs
  <2>3. j \in 1 .. at - 1
    BY <1>1, <1>5, <2>1, <2>2
  <2> QED BY <1>3, <2>3 DEF Intact
<1>8. "seed_text" \notin strings
  <2> SUFFICES ASSUME "seed_text" \in strings PROVE FALSE
    OBVIOUS
  <2>1. statement.from <= file.version
    BY <1>1, SeedIsLast
  <2> QED BY <1>2, <1>4, <2>1
<1>9. result' = "ok" /\ strings' = {} /\ UNCHANGED << file, at, reader >>
      /\ fields' = fields /\ faults' = faults
  BY <1>1, <1>8 DEF StopEarly, Leave
<1>10. faults' = 0 => fields' = Min({Offset(52), file.cut}) /\ Whole
  BY <1>3, <1>6, <1>7, <1>9
<1> QED BY <1>1, <1>9, <1>10, Leaves

LEMMA StepHeaderDone == ASSUME HeaderIInv, HeaderDone PROVE HeaderIInv'
<1>1. Len(Statements) = 51 /\ DOMAIN Statements = 1 .. 51
  BY Layout
<1>2. /\ result = "reading" /\ at \in 0 .. 52 /\ at > 51
      /\ file \in Files /\ faults \in 0 .. MaxFaults
      /\ strings \subseteq {"world_name", "seed_text"} /\ fields \in 0 .. file.cut
  BY <1>1 DEF HeaderIInv, HeaderTypeOK, HeaderDone
<1>3. at = 52 /\ at > 0
  BY <1>2
<1>4. faults = 0 => fields = Min({Offset(52), file.cut}) /\ Intact(52)
  BY <1>2, <1>3 DEF HeaderIInv, Reading
<1>5. faults = 0 => Whole
  <2>1. Intact(52) => Whole
    BY <1>1 DEF Whole, Intact
  <2> QED BY <1>4, <2>1
<1>6. "seed_text" \notin strings
  BY <1>2, <1>3, SeedIsLast
<1>7. result' = "ok" /\ strings' = {} /\ UNCHANGED << file, at, reader >>
      /\ fields' = fields /\ faults' = faults
  BY <1>2, <1>6 DEF HeaderDone, Leave
<1>8. faults' = 0 => fields' = Min({Offset(52), file.cut}) /\ Whole
  BY <1>4, <1>5, <1>7
<1> QED BY <1>2, <1>7, <1>8, Leaves

LEMMA StepReadBytes == ASSUME HeaderIInv, ReadBytes PROVE HeaderIInv'
<1> DEFINE kinds == {"byte"}
<1>1. "stop" \notin kinds /\ "wide" \notin kinds /\ At(kinds)
  BY DEF ReadBytes
<1>2. MoveOver(statement.n) /\ Proceed /\ UNCHANGED << file, reader, faults >> /\ strings' = strings
  BY DEF ReadBytes
<1> HIDE DEF kinds
<1>3. /\ strings \subseteq {"world_name", "seed_text"} /\ "seed_text" \notin strings
      /\ statement.kind = Kind(Statements[at]) /\ statement.kind \in kinds
  BY <1>1, AtStatement
<1>4. ~ Noticed(Statements[at])
  BY <1>3 DEF Noticed, kinds
<1> QED BY <1>1, <1>2, <1>3, <1>4, GoesOn

LEMMA StepReadMetadata == ASSUME HeaderIInv, ReadMetadata PROVE HeaderIInv'
<1> DEFINE kinds == {"metadata"}
<1>1. "stop" \notin kinds /\ "wide" \notin kinds /\ At(kinds)
  BY DEF ReadMetadata
<1>2. MoveOver(statement.n) /\ Proceed /\ UNCHANGED << file, reader, faults >> /\ strings' = strings
  BY DEF ReadMetadata
<1> HIDE DEF kinds
<1>3. /\ strings \subseteq {"world_name", "seed_text"} /\ "seed_text" \notin strings
      /\ statement.kind = Kind(Statements[at]) /\ statement.kind \in kinds
  BY <1>1, AtStatement
<1>4. ~ Noticed(Statements[at])
  BY <1>3 DEF Noticed, kinds
<1> QED BY <1>1, <1>2, <1>3, <1>4, GoesOn

LEMMA StepReadFlags == ASSUME HeaderIInv, ReadFlags PROVE HeaderIInv'
<1> DEFINE kinds == {"flags"}
<1>1. "stop" \notin kinds /\ "wide" \notin kinds /\ At(kinds)
  BY DEF ReadFlags
<1>2. MoveOver(statement.n) /\ UNCHANGED << file, reader >> /\ strings' = strings
  BY DEF ReadFlags
<1> HIDE DEF kinds
<1>3. /\ strings \subseteq {"world_name", "seed_text"} /\ "seed_text" \notin strings
      /\ statement.kind = Kind(Statements[at]) /\ statement.kind \in kinds
  BY <1>1, AtStatement
<1>4. ~ Noticed(Statements[at])
  BY <1>3 DEF Noticed, kinds
<1>5. CASE Proceed /\ faults' = faults
  BY <1>1, <1>2, <1>3, <1>4, <1>5, GoesOn
<1>6. CASE Fault /\ result' = "crashed" /\ at' = at
  <2>1. fields' \in 0 .. file.cut
    BY <1>1, <1>2, AfterRead
  <2> QED BY <1>1, <1>2, <1>6, <2>1, Fails
<1> QED BY <1>5, <1>6 DEF ReadFlags

LEMMA StepReadWide == ASSUME HeaderIInv, ReadWide PROVE HeaderIInv'
<1> DEFINE kinds == {"wide"}
<1>1. "stop" \notin kinds /\ kinds \subseteq {"wide", "string", "array"} /\ At(kinds)
  BY DEF ReadWide
<1>2. MoveOver(statement.n) /\ UNCHANGED << file, reader >>
  BY DEF ReadWide
<1> HIDE DEF kinds
<1>3. /\ strings \subseteq {"world_name", "seed_text"}
      /\ "seed_text" \in strings => statement.name = "generator"
  BY <1>1, AtStatement
<1>4. CASE /\ There(statement.n) /\ Proceed /\ faults' = faults
           /\ strings' = CASE statement.name = "generator" -> strings \ {"seed_text"}
                          [] statement.name = "seed_text" -> strings \cup {statement.name}
                          [] OTHER -> strings
  <2>1. /\ strings' \subseteq {"world_name", "seed_text"}
        /\ "seed_text" \in strings' => statement.name = "seed_text"
    BY <1>3, <1>4
  <2> QED BY <1>1, <1>2, <1>4, <2>1, GoesOn
<1>5. CASE ~ There(statement.n) /\ Leave("error") /\ faults' = faults
  BY <1>1, <1>2, <1>5, Misses
<1>6. CASE There(statement.n) /\ Fault /\ result' = "crashed" /\ at' = at /\ strings' = strings
  <2>1. fields' \in 0 .. file.cut
    BY <1>1, <1>2, AfterRead
  <2> QED BY <1>1, <1>2, <1>6, <2>1, Fails
<1> QED BY <1>4, <1>5, <1>6 DEF ReadWide

LEMMA StepReadString == ASSUME HeaderIInv, ReadString PROVE HeaderIInv'
<1> DEFINE kinds == {"string"}
<1>1. "stop" \notin kinds /\ "wide" \notin kinds /\ kinds \subseteq {"wide", "string", "array"}
      /\ At(kinds)
  BY DEF ReadString
<1> HIDE DEF kinds
<1>2. /\ strings \subseteq {"world_name", "seed_text"} /\ "seed_text" \notin strings
      /\ statement.kind = Kind(Statements[at]) /\ statement.kind \in kinds
      /\ statement.name = Statements[at].name /\ at \in 1 .. 51 /\ file \in Files
      /\ Statements[at] \in KnownStatements
  BY <1>1, AtStatement
<1>3. statement.n = 1 /\ statement.name \in {"world_name", "seed_text"}
  <2>1. Statements[at].kind = "string"
    BY <1>2 DEF Kind, kinds
  <2>2. Statements[at].n = 1 /\ Statements[at].name \in {"world_name", "seed_text"}
    BY <1>2, <2>1 DEF KnownStatements, Known
  <2>3. Length(Statements[at]) = 1
    BY <2>2 DEF Length
  <2> QED BY <1>2, <2>2, <2>3, StatementNow
<1>4. MoveOver(statement.n) /\ UNCHANGED << file, reader >>
  BY <1>3 DEF ReadString
<1>5. CASE /\ There(1) /\ Proceed /\ faults' = faults
           /\ strings' = strings \cup {statement.name}
  <2>1. /\ strings' \subseteq {"world_name", "seed_text"}
        /\ "seed_text" \in strings' => statement.name = "seed_text"
    BY <1>2, <1>3, <1>5
  <2>2. There(statement.n)
    BY <1>3, <1>5
  <2> QED BY <1>1, <1>4, <1>5, <2>1, <2>2, GoesOn
<1>6. CASE ~ There(1) /\ Leave("error") /\ faults' = faults
  <2>1. ~ There(statement.n)
    BY <1>3, <1>6
  <2> QED BY <1>1, <1>4, <1>6, <2>1, Misses
<1>7. CASE There(1) /\ Fault /\ Leave("error")
  <2>1. fields' \in 0 .. file.cut /\ at' = at
    BY <1>1, <1>4, <1>7, AfterRead DEF Leave
  <2> QED BY <1>1, <1>4, <1>7, <2>1, Fails
<1> QED BY <1>5, <1>6, <1>7 DEF ReadString

LEMMA StepReadArray == ASSUME HeaderIInv, ReadArray PROVE HeaderIInv'
<1> DEFINE kinds == {"array"}
<1>1. "stop" \notin kinds /\ "wide" \notin kinds /\ kinds \subseteq {"wide", "string", "array"}
      /\ At(kinds)
  BY DEF ReadArray
<1>2. MoveOver(statement.n) /\ UNCHANGED << file, reader >>
  BY DEF ReadArray
<1> HIDE DEF kinds
<1>3. strings \subseteq {"world_name", "seed_text"} /\ "seed_text" \notin strings
  BY <1>1, AtStatement
<1>4. CASE There(statement.n) /\ Proceed /\ strings' = strings /\ faults' = faults
  BY <1>1, <1>2, <1>3, <1>4, GoesOn
<1>5. CASE ~ There(statement.n) /\ Leave("error") /\ faults' = faults
  BY <1>1, <1>2, <1>5, Misses
<1>6. CASE Fault /\ ((result' = "crashed" /\ at' = at /\ strings' = strings) \/ Leave("error"))
  <2>1. fields' \in 0 .. file.cut /\ at' = at
    BY <1>1, <1>2, <1>6, AfterRead DEF Leave
  <2> QED BY <1>1, <1>2, <1>6, <2>1, Fails
<1> QED BY <1>4, <1>5, <1>6 DEF ReadArray

LEMMA StepReadAnglers == ASSUME HeaderIInv, ReadAnglers PROVE HeaderIInv'
<1> DEFINE kinds == {"anglers"}
<1>1. "stop" \notin kinds /\ "wide" \notin kinds /\ At(kinds)
  BY DEF ReadAnglers
<1>2. UNCHANGED << file, reader >> /\ strings' = strings
  BY DEF ReadAnglers
<1> HIDE DEF kinds
<1>3. /\ strings \subseteq {"world_name", "seed_text"} /\ "seed_text" \notin strings
      /\ statement.kind = Kind(Statements[at]) /\ statement.kind \in kinds
      /\ result = "reading" /\ at \in 1 .. 51 /\ Passed(at + 1) /\ faults \in 0 .. MaxFaults
      /\ statement.n \in Nat
  BY <1>1, AtStatement
<1>4. ~ Noticed(Statements[at])
  BY <1>3 DEF Noticed, kinds
<1>5. CASE MoveOver(statement.n) /\ Proceed /\ faults' = faults
  BY <1>1, <1>2, <1>3, <1>4, <1>5, GoesOn
<1>6. CASE MoveOver(2) /\ result' = "crashed" /\ at' = at /\ faults' = faults
  <2>1. fields' \in 0 .. file.cut
    BY <1>1, <1>6, StaysInFile
  <2>2. faults' \in 0 .. MaxFaults /\ UNCHANGED << file, at, reader >>
    BY <1>2, <1>3, <1>6
  <2> QED BY <1>1, <1>2, <1>6, <2>1, <2>2, Ends
<1>7. CASE Fault /\ Proceed /\ \E n \in 2 .. statement.n : There(n) /\ MoveOver(n)
  <2>1. PICK n \in 2 .. statement.n : MoveOver(n)
    BY <1>7
  <2>2. n \in Nat
    BY <1>3
  <2>3. fields' \in 0 .. file.cut
    BY <1>1, <2>1, <2>2, StaysInFile
  <2>4. faults' \in 0 .. MaxFaults /\ faults' # 0
    BY <1>3, <1>7, HeaderAssumption DEF Fault
  <2>5. at' = at + 1 /\ UNCHANGED << file, reader, result >>
    BY <1>2, <1>7 DEF Proceed
  <2> QED BY <1>2, <1>3, <2>3, <2>4, <2>5, Proceeds
<1> QED BY <1>5, <1>6, <1>7 DEF ReadAnglers

LEMMA HeaderStep == ASSUME HeaderIInv, HeaderNext PROVE HeaderIInv'
BY StepReaderNew, StepReaderOpen, StepNotInVersion, StepStopEarly, StepReadBytes, StepReadFlags,
   StepReadWide, StepReadMetadata, StepReadString, StepReadArray, StepReadAnglers, StepHeaderDone
   DEF HeaderNext

\* What is done behind the headers leaves them as they are, but for faults.
LEMMA BehindHeaders ==
    ASSUME HeaderIInv, UNCHANGED << file, at, fields, reader, result, strings >>,
           faults' = faults \/ Fault
    PROVE  HeaderIInv'
<1>1. /\ file' = file /\ at' = at /\ fields' = fields /\ reader' = reader /\ result' = result
      /\ strings' = strings
  OBVIOUS
<1>2. faults' \in 0 .. MaxFaults /\ (faults' = 0 => faults = 0)
  BY HeaderAssumption DEF HeaderIInv, HeaderTypeOK, Fault
<1>3. /\ (Offset(at)' = Offset(at)) /\ (Passed(at)' <=> Passed(at)) /\ (Intact(at)' <=> Intact(at))
      /\ (Whole' <=> Whole) /\ Offset(Len(Statements) + 1)' = Offset(Len(Statements) + 1)
  BY <1>1, SameFile
<1>4. HeaderTypeOK'
  BY <1>1, <1>2 DEF HeaderIInv, HeaderTypeOK
<1>5. Reading'
  <2>1. Reading
    BY DEF HeaderIInv
  <2> QED BY <1>1, <1>2, <1>3, <2>1 DEF Reading
<1>6. Finished'
  <2>1. Finished
    BY DEF HeaderIInv
  <2>2. StringsAreFreed' <=> StringsAreFreed
    BY <1>1 DEF StringsAreFreed, statement, Length, Kind
  <2> QED BY <1>1, <1>2, <1>3, <2>1, <2>2 DEF Finished
<1> QED BY <1>1, <1>4, <1>5, <1>6 DEF HeaderIInv

LEMMA StepStartTiles == ASSUME HeaderIInv, StartTiles PROVE HeaderIInv'
<1>1. UNCHANGED << file, at, fields, reader, strings >> /\ result = "ok"
  BY DEF StartTiles
<1>2. CASE UNCHANGED << result, faults >>
  BY <1>1, <1>2, BehindHeaders
<1>3. CASE Fault /\ result' = "crashed"
  <2>1. /\ fields' \in 0 .. file.cut /\ strings' \subseteq {"world_name", "seed_text"}
        /\ faults' \in 0 .. MaxFaults
    BY <1>1, <1>3, HeaderAssumption DEF HeaderIInv, HeaderTypeOK, Fault
  <2> QED BY <1>1, <1>3, <2>1, Leaves
<1> QED BY <1>2, <1>3 DEF StartTiles

LEMMA StepFreeReader == ASSUME HeaderIInv, FreeReader PROVE HeaderIInv'
<1>1. /\ file' = file /\ at' = at /\ fields' = fields /\ result' = result /\ strings' = strings
      /\ faults' = faults /\ result \in {"ok", "error"}
      /\ reader' = IF reader = "open" THEN "closed" ELSE reader
  BY DEF FreeReader, binary_reader_close
<1>2. result' = "ok" => /\ strings' = {}
                        /\ faults' = 0 => fields' = Min({Offset(52), file.cut}) /\ Whole
  <2>1. Len(Statements) + 1 = 52
    BY Layout
  <2> QED BY <1>1, <2>1 DEF HeaderIInv, Finished
<1>3. result' = "error" => (faults' = 0 => ~ Whole) /\ StringsAreFreed
  BY <1>1 DEF HeaderIInv, Finished
<1>4. HeaderTypeOK'
  BY <1>1 DEF HeaderIInv, HeaderTypeOK
<1>5. Reading'
  BY <1>1 DEF Reading
<1>6. Finished'
  <2>1. /\ (Whole' <=> Whole) /\ Offset(Len(Statements) + 1)' = Offset(52)
    <3>1. Len(Statements) + 1 = 52
      BY Layout
    <3> QED BY <1>1, <3>1, SameFile
  <2>2. StringsAreFreed' <=> StringsAreFreed
    BY <1>1 DEF StringsAreFreed, statement, Length, Kind
  <2> QED BY <1>1, <1>2, <1>3, <2>1, <2>2 DEF Finished
<1> QED BY <1>1, <1>4, <1>5, <1>6 DEF HeaderIInv

\* The headers from their beginning.
LEMMA Begins ==
    ASSUME file \in Files, at = 0, fields = 0, reader = "none", result = "reading", strings = {},
           faults \in 0 .. MaxFaults
    PROVE  HeaderIInv
<1>1. Len(Statements) = 51
  BY Layout
<1>2. file.cut \in Nat
  BY FileType
<1>3. HeaderTypeOK
  BY <1>1, <1>2 DEF HeaderTypeOK
<1>4. Passed(0)
  BY DEF Passed
<1> QED BY <1>3, <1>4 DEF HeaderIInv, Reading, Finished

LEMMA StepRestart == ASSUME HeaderIInv, Restart PROVE HeaderIInv'
<1>1. /\ file' \in Files /\ at' = 0 /\ fields' = 0 /\ reader' = "none" /\ result' = "reading"
      /\ strings' = {} /\ faults' \in 0 .. MaxFaults
  BY FilesAssumption DEF Restart, HeaderIInv, HeaderTypeOK
<1>2. Len(Statements) = 51
  BY Layout
<1>3. file'.cut \in Nat
  BY <1>1, HeaderAssumption
<1>4. HeaderTypeOK'
  BY <1>1, <1>2, <1>3 DEF HeaderTypeOK
<1>5. Passed(at)'
  BY <1>1 DEF Passed
<1> QED BY <1>1, <1>4, <1>5 DEF HeaderIInv, Reading, Finished

LEMMA HeadersHold == Spec => []HeaderIInv
<1>1. Init => HeaderIInv
  <2>1. 0 \in 0 .. MaxFaults
    BY HeaderAssumption
  <2> QED BY <2>1, Begins DEF Init, HeaderInit
<1>2. HeaderIInv /\ [Next]_vars => HeaderIInv'
  <2> SUFFICES ASSUME HeaderIInv, [Next]_vars PROVE HeaderIInv'
    OBVIOUS
  <2>1. CASE UNCHANGED headerVars
    BY <2>1, BehindHeaders DEF headerVars
  <2>2. CASE ReadHeader
    BY <2>2, HeaderStep DEF ReadHeader
  <2>3. CASE StartTiles
    BY <2>3, StepStartTiles
  <2>4. ASSUME NEW n \in 0 .. MaxTilesX, InitSections(n) PROVE HeaderIInv'
    <3>1. UNCHANGED << file, at, fields, reader, result, strings >> /\ (faults' = faults \/ Fault)
      BY <2>4 DEF InitSections
    <3> QED BY <3>1, BehindHeaders
  <2>5. CASE Shutdown
    BY <2>5, StepFreeReader DEF Shutdown
  <2>6. CASE Restart
    BY <2>6, StepRestart
  <2>7. (ReadImportant \/ ReadTile \/ ReadTileFails \/ InitSectionsRaises \/ UNCHANGED vars)
          => UNCHANGED headerVars
    BY DEF ReadImportant, ReadTile, ReadTileFails, InitSectionsRaises, vars
  <2> QED BY <2>1, <2>2, <2>3, <2>4, <2>5, <2>6, <2>7 DEF Next
<1> QED BY <1>1, <1>2, PTL DEF Spec

-----------------------------------------------------------------------------
(* The tiles. *)

LEMMA BitSets ==
    /\ 0 .. 4 \subseteq 0 .. 7 /\ 5 .. 7 \subseteq 0 .. 15 /\ 0 .. 4 \subseteq 0 .. 15
    /\ {5, 6, 10, 11} \subseteq 0 .. 15
    /\ \A w \in 1 .. 3 : WireBit(w) \in 0 .. 15
BY DEF WireBit

\* The setters keep a tile a tile.
LEMMA SettersKeep ==
    ASSUME NEW t \in Tiles
    PROVE  /\ \A val : /\ tile_set_active(t, val) \in Tiles /\ tile_set_inactive(t, val) \in Tiles
                       /\ tile_set_actuator(t, val) \in Tiles
           /\ \A ws \in SUBSET WireFlags : tile_set_wires(t, ws) \in Tiles
           /\ \A colour : tile_set_colour(t, colour) \in Tiles /\ tile_set_wall_colour(t, colour) \in Tiles
           /\ tile_set_liquid_kind(t) \in Tiles
<1>1. ASSUME NEW bit \in {5, 6, 11}, NEW val PROVE SetBit(t, bit, val) \in Tiles
  <2>1. (IF val THEN t.s_tile_header \cup {bit} ELSE t.s_tile_header \ {bit}) \in SUBSET (0 .. 15)
    BY BitSets DEF Tiles
  <2> QED BY <2>1 DEF SetBit, Tiles
<1>2. ASSUME NEW ws \in SUBSET WireFlags PROVE tile_set_wires(t, ws) \in Tiles
  <2> DEFINE h == (t.s_tile_header \ {WireBit(w) : w \in WireFlags}) \cup {WireBit(w) : w \in ws}
  <2>1. h \in SUBSET (0 .. 15)
    BY BitSets DEF Tiles, WireFlags
  <2>2. tile_set_wires(t, ws) = [t EXCEPT !.s_tile_header = h]
    BY DEF tile_set_wires
  <2> HIDE DEF h
  <2> QED BY <2>1, <2>2 DEF Tiles
<1>3. ASSUME NEW colour PROVE tile_set_colour(t, colour) \in Tiles /\ tile_set_wall_colour(t, colour) \in Tiles
  <2>1. /\ t.s_tile_header \cap ((5 .. 15) \cup colour) \in SUBSET (0 .. 15)
        /\ t.s_tile_header \cap ((5 .. 7) \cup colour) \in SUBSET (0 .. 15)
    BY DEF Tiles
  <2> QED BY <2>1 DEF tile_set_colour, tile_set_wall_colour, Tiles
<1>4. tile_set_liquid_kind(t) \in Tiles
  BY DEF tile_set_liquid_kind, Tiles
<1> QED BY <1>1, <1>2, <1>3, <1>4
        DEF tile_set_active, tile_set_inactive, tile_set_actuator, ActiveBit, InactiveBit, ActuatorBit

\* What is read of a record is a record, whatever fields are missing.
LEMMA ReadGives ==
    ASSUME NEW r \in Records, NEW t \in Tiles, NEW Had
    PROVE  Read(r, Had, t) \in Records
<1> DEFINE flags1 == IF "flags1" \in Had THEN r.flags1 ELSE {}
           flags2 == IF 0 \in flags1 /\ "flags2" \in Had THEN r.flags2 ELSE {}
           flags3 == IF 0 \in flags2 /\ "flags3" \in Had THEN r.flags3 ELSE {}
           copies == IF flags1 \cap {6, 7} # {} /\ "copies" \in Had THEN r.copies
                     ELSE (IF 6 \in flags1 THEN 1 ELSE 0) + (IF 7 \in flags1 THEN 2 ELSE 0)
<1>1. /\ r.flags1 \in SUBSET (0 .. 7) /\ r.flags2 \in SUBSET (0 .. 7) /\ r.flags3 \in SUBSET (0 .. 7)
      /\ r.type \in Nat /\ r.frame_x \in Int /\ r.frame_y \in Int /\ r.colour \in SUBSET ColourBits
      /\ r.wall \in Nat /\ r.wall_colour \in SUBSET ColourBits /\ r.liquid \in Nat /\ r.copies \in Nat
  BY DEF Records
<1>2. /\ t.frame_x \in Int /\ t.frame_y \in Int /\ t.wall \in Nat /\ t.liquid \in Nat
  BY DEF Tiles
<1>3. flags1 \in SUBSET (0 .. 7) /\ flags2 \in SUBSET (0 .. 7) /\ flags3 \in SUBSET (0 .. 7)
  BY <1>1
<1>4. copies \in Nat
  <2>1. copies \in {r.copies, 0, 1, 2, 3}
    OBVIOUS
  <2> QED BY <1>1, <2>1
<1> HIDE DEF copies
<1>5. Read(r, Had, t) =
        [flags1 |-> flags1, flags2 |-> flags2, flags3 |-> flags3,
         type    |-> IF "type" \in Had THEN r.type ELSE 0,
         frame_x |-> IF "frame_x" \in Had THEN r.frame_x ELSE t.frame_x,
         frame_y |-> IF "frame_y" \in Had THEN r.frame_y ELSE t.frame_y,
         colour  |-> r.colour,
         wall    |-> IF "wall" \in Had THEN r.wall ELSE t.wall,
         wall_colour |-> r.wall_colour,
         liquid  |-> IF "liquid" \in Had THEN r.liquid ELSE t.liquid,
         copies  |-> copies]
  BY DEF Read, copies
<1> HIDE DEF flags1, flags2, flags3
<1> QED BY <1>1, <1>2, <1>3, <1>4, <1>5 DEF Records

LEMMA WithTypeKeeps ==
    ASSUME NEW g \in Records, NEW t \in Tiles, NEW Had
    PROVE  WithType(g, t, Had) \in Tiles
<1>1. [t EXCEPT !.type = 0] \in Tiles
  BY DEF Tiles
<1> DEFINE active == tile_set_active([t EXCEPT !.type = 0], TRUE)
<1>2. active \in Tiles
  BY <1>1, SettersKeep
<1> HIDE DEF active
<1>3. [active EXCEPT !.type = g.type] \in Tiles
  BY <1>2 DEF Tiles, Records
<1>4. WithType(g, t, Had) \in {[t EXCEPT !.type = 0], active, [active EXCEPT !.type = g.type]}
  BY DEF WithType, active
<1> QED BY <1>1, <1>2, <1>3, <1>4

Framed(u, x, y) == [u EXCEPT !.frame_x = x, !.frame_y = y]

LEMMA FramesKeep ==
    ASSUME NEW u \in Tiles, NEW x \in Int, NEW y \in Int
    PROVE  Framed(u, x, y) \in Tiles
<1> DEFINE a == [u EXCEPT !.frame_x = x]
           b == [a EXCEPT !.frame_y = y]
<1>1. a \in Tiles
  BY DEF Tiles
<1> HIDE DEF a
<1>2. b \in Tiles
  BY <1>1 DEF Tiles
<1> QED BY <1>2 DEF a, Framed

LEMMA LoadTileKeeps ==
    ASSUME NEW g \in Records, NEW t \in Tiles, NEW Had
    PROVE  LoadTile(g, t, Had) \in Tiles
<1>1. \A u \in Tiles : WithFrame(g, u) \in Tiles
  <2> SUFFICES ASSUME NEW u \in Tiles PROVE WithFrame(g, u) \in Tiles
    OBVIOUS
  <2> DEFINE a == [u EXCEPT !.frame_x = -1, !.frame_y = -1]
             b == [u EXCEPT !.frame_x = g.frame_x,
                            !.frame_y = IF g.type = TimerType THEN 0 ELSE g.frame_y]
  <2>1. a \in Tiles
    <3>1. -1 \in Int /\ a = Framed(u, -1, -1)
      BY DEF Framed
    <3> QED BY <3>1, FramesKeep
  <2>2. b \in Tiles
    <3>1. /\ g.frame_x \in Int
          /\ (IF g.type = TimerType THEN 0 ELSE g.frame_y) \in Int
      BY DEF Records
    <3>2. b = Framed(u, g.frame_x, IF g.type = TimerType THEN 0 ELSE g.frame_y)
      BY DEF Framed
    <3> QED BY <3>1, <3>2, FramesKeep
  <2>3. WithFrame(g, u) \in {u, a, b}
    BY DEF WithFrame
  <2> QED BY <2>1, <2>2, <2>3
<1>2. \A u \in Tiles : WithColours(g, u) \in Tiles
  BY SettersKeep DEF WithColours
<1>3. \A u \in Tiles : WithWallAndLiquid(g, u) \in Tiles
  <2> SUFFICES ASSUME NEW u \in Tiles PROVE WithWallAndLiquid(g, u) \in Tiles
    OBVIOUS
  <2> DEFINE w == IF WallFlag \in g.flags1 THEN [u EXCEPT !.wall = g.wall] ELSE u
             l == [w EXCEPT !.liquid = g.liquid]
  <2>1. w \in Tiles
    BY DEF Tiles, Records
  <2> HIDE DEF w
  <2>2. l \in Tiles
    BY <2>1 DEF Tiles, Records
  <2> HIDE DEF l
  <2>3. WithWallAndLiquid(g, u) \in {w, tile_set_liquid_kind(l)}
    BY DEF WithWallAndLiquid, w, l
  <2> QED BY <2>1, <2>2, <2>3, SettersKeep
<1>4. \A u \in Tiles : WithSwitches(g, u) \in Tiles
  <2> SUFFICES ASSUME NEW u \in Tiles PROVE WithSwitches(g, u) \in Tiles
    OBVIOUS
  <2> DEFINE w == IF g.flags2 \ {0} # {} THEN tile_set_wires(u, g.flags2 \cap WireFlags) ELSE u
  <2>1. w \in Tiles
    <3>1. g.flags2 \cap WireFlags \in SUBSET WireFlags
      OBVIOUS
    <3> QED BY <3>1, SettersKeep
  <2> HIDE DEF w
  <2>2. WithSwitches(g, u) = tile_set_inactive(tile_set_actuator(w, ActuatorFlag \in g.flags3),
                                               InactiveFlag \in g.flags3)
    BY DEF WithSwitches, w
  <2> QED BY <2>1, <2>2, SettersKeep
<1>5. WithType(g, t, Had) \in Tiles
  BY WithTypeKeeps
<1> QED BY <1>1, <1>2, <1>3, <1>4, <1>5 DEF LoadTile

LEMMA NextRecordIs ==
    ASSUME file \in Files, column \in 0 .. MaxTilesX, column < MaxTilesX, record \in Nat \ {0}
    PROVE  NextRecord \in Records
<1>1. Nothing \in Records
  BY DEF Nothing, Records
<1>2. column \in 0 .. MaxTilesX - 1 /\ file.columns \in [0 .. MaxTilesX - 1 -> Seq(Records)]
  BY FilesAssumption
<1>3. file.columns[column] \in Seq(Records)
  BY <1>2
<1> DEFINE s == file.columns[column]
<1>4. record <= Len(s) => s[record] \in Records
  BY <1>3
<1>5. ~ AtEnd => record <= Len(s)
  BY <1>3 DEF AtEnd
<1> QED BY <1>1, <1>4, <1>5 DEF NextRecord

-----------------------------------------------------------------------------
(* The fields of a record that is whole. *)

\* The fields of r that announce something are in the file.
Complete(Had, r) ==
    /\ "flags1" \in Had
    /\ 0 \in r.flags1 => "flags2" \in Had
    /\ 0 \in r.flags2 => "flags3" \in Had
    /\ ActiveFlag \in r.flags1 => "type" \in Had
    /\ WallFlag \in r.flags1 => "wall" \in Had
    /\ r.flags1 \cap {3, 4} # {} => "liquid" \in Had
    /\ r.copies # 0 => "copies" \in Had

Listed(s) == {s[k] : k \in DOMAIN s}

LEMMA ListedJoin ==
    ASSUME NEW S, NEW a \in Seq(S), NEW b \in Seq(S)
    PROVE  a \o b \in Seq(S) /\ Listed(a) \subseteq Listed(a \o b) /\ Listed(b) \subseteq Listed(a \o b)
<1>1. a \o b \in Seq(S) /\ Len(a) \in Nat /\ Len(b) \in Nat /\ Len(a \o b) = Len(a) + Len(b)
  OBVIOUS
<1>2. DOMAIN a = 1 .. Len(a) /\ DOMAIN b = 1 .. Len(b) /\ DOMAIN (a \o b) = 1 .. Len(a) + Len(b)
  BY <1>1
<1>3. ASSUME NEW k \in 1 .. Len(a) PROVE a[k] \in Listed(a \o b)
  <2>1. k \in 1 .. Len(a) + Len(b) /\ (a \o b)[k] = a[k]
    BY <1>1
  <2> QED BY <1>2, <2>1 DEF Listed
<1>4. ASSUME NEW k \in 1 .. Len(b) PROVE b[k] \in Listed(a \o b)
  <2>1. Len(a) + k \in 1 .. Len(a) + Len(b) /\ (a \o b)[Len(a) + k] = b[k]
    BY <1>1
  <2> QED BY <1>2, <2>1 DEF Listed
<1> QED BY <1>1, <1>2, <1>3, <1>4 DEF Listed

RecordFields == {"flags1", "flags2", "flags3", "type", "frame_x", "frame_y", "colour", "wall",
                 "wall_colour", "liquid", "copies"}

LEMMA FieldsAreComplete ==
    ASSUME NEW r
    PROVE  FieldsOf(r) \in Seq(RecordFields) /\ Complete(Listed(FieldsOf(r)), r)
<1> DEFINE F == RecordFields
<1> DEFINE When(cond, s) == IF cond THEN s ELSE << >>
           frames == When(important[r.type], << "frame_x", "frame_y" >>)
           colour == When(ColourFlag \in r.flags3, << "colour" >>)
           type   == << "type" >> \o frames \o colour
           paint  == When(WallColourFlag \in r.flags3, << "wall_colour" >>)
           wall   == << "wall" >> \o paint
<1>1. frames \in Seq(F) /\ colour \in Seq(F) /\ paint \in Seq(F)
  <2>1. << >> \in Seq(F) /\ << "frame_x", "frame_y" >> \in Seq(F) /\ << "colour" >> \in Seq(F)
        /\ << "wall_colour" >> \in Seq(F)
    BY DEF RecordFields
  <2> QED BY <2>1
<1>2. \A x \in F : << x >> \in Seq(F) /\ x \in Listed(<< x >>)
  BY DEF Listed
<1> HIDE DEF frames, colour, paint
<1>3. type \in Seq(F) /\ wall \in Seq(F) /\ "type" \in Listed(type) /\ "wall" \in Listed(wall)
  <2>1. /\ << "type" >> \in Seq(F) /\ "type" \in Listed(<< "type" >>)
        /\ << "wall" >> \in Seq(F) /\ "wall" \in Listed(<< "wall" >>)
    BY <1>2 DEF RecordFields
  <2> HIDE DEF F
  <2>2. << "type" >> \o frames \in Seq(F) /\ "type" \in Listed(<< "type" >> \o frames)
    BY <1>1, <2>1, ListedJoin
  <2> QED BY <1>1, <2>1, <2>2, ListedJoin
<1> HIDE DEF type, wall
<1> DEFINE a1 == << "flags1" >>
           a2 == When(0 \in r.flags1, << "flags2" >>)
           a3 == When(0 \in r.flags2, << "flags3" >>)
           a4 == When(ActiveFlag \in r.flags1, type)
           a5 == When(WallFlag \in r.flags1, wall)
           a6 == When(r.flags1 \cap {3, 4} # {}, << "liquid" >>)
           a7 == When(r.copies # 0, << "copies" >>)
           b2 == a1 \o a2
           b3 == b2 \o a3
           b4 == b3 \o a4
           b5 == b4 \o a5
           b6 == b5 \o a6
           b7 == b6 \o a7
<1>4. /\ a1 \in Seq(F) /\ a2 \in Seq(F) /\ a3 \in Seq(F) /\ a4 \in Seq(F)
      /\ a5 \in Seq(F) /\ a6 \in Seq(F) /\ a7 \in Seq(F)
  <2>1. << >> \in Seq(F)
    OBVIOUS
  <2>2. /\ << "flags1" >> \in Seq(F) /\ << "flags2" >> \in Seq(F) /\ << "flags3" >> \in Seq(F)
        /\ << "liquid" >> \in Seq(F) /\ << "copies" >> \in Seq(F)
    BY <1>2 DEF RecordFields
  <2> QED BY <1>3, <2>1, <2>2
<1>5. /\ "flags1" \in Listed(a1)
      /\ 0 \in r.flags1 => "flags2" \in Listed(a2)
      /\ 0 \in r.flags2 => "flags3" \in Listed(a3)
      /\ ActiveFlag \in r.flags1 => "type" \in Listed(a4)
      /\ WallFlag \in r.flags1 => "wall" \in Listed(a5)
      /\ r.flags1 \cap {3, 4} # {} => "liquid" \in Listed(a6)
      /\ r.copies # 0 => "copies" \in Listed(a7)
  BY <1>2, <1>3 DEF RecordFields
<1>6. FieldsOf(r) = b7
  BY DEF FieldsOf, type, wall, frames, colour, paint
<1> HIDE DEF F, When, a1, a2, a3, a4, a5, a6, a7, b2, b3, b4, b5, b6, b7
<1>7. b2 \in Seq(F) /\ Listed(a1) \subseteq Listed(b2) /\ Listed(a2) \subseteq Listed(b2)
  BY <1>4, ListedJoin DEF b2
<1>8. b3 \in Seq(F) /\ Listed(b2) \subseteq Listed(b3) /\ Listed(a3) \subseteq Listed(b3)
  BY <1>4, <1>7, ListedJoin DEF b3
<1>9. b4 \in Seq(F) /\ Listed(b3) \subseteq Listed(b4) /\ Listed(a4) \subseteq Listed(b4)
  BY <1>4, <1>8, ListedJoin DEF b4
<1>10. b5 \in Seq(F) /\ Listed(b4) \subseteq Listed(b5) /\ Listed(a5) \subseteq Listed(b5)
  BY <1>4, <1>9, ListedJoin DEF b5
<1>11. b6 \in Seq(F) /\ Listed(b5) \subseteq Listed(b6) /\ Listed(a6) \subseteq Listed(b6)
  BY <1>4, <1>10, ListedJoin DEF b6
<1>12. b7 \in Seq(F) /\ Listed(b6) \subseteq Listed(b7) /\ Listed(a7) \subseteq Listed(b7)
  BY <1>4, <1>11, ListedJoin DEF b7
<1>13. FieldsOf(r) \in Seq(RecordFields)
  BY <1>6, <1>12 DEF F
<1> QED BY <1>5, <1>6, <1>7, <1>8, <1>9, <1>10, <1>11, <1>12, <1>13 DEF Complete

LEMMA HasAField ==
    ASSUME NEW r
    PROVE  Len(FieldsOf(r)) \in Nat \ {0}
<1> DEFINE all == FieldsOf(r)
<1>1. all \in Seq(RecordFields)
  BY FieldsAreComplete
<1>2. "flags1" \in Listed(all)
  BY FieldsAreComplete DEF Complete
<1> HIDE DEF all
<1>3. DOMAIN all # {} /\ DOMAIN all = 1 .. Len(all) /\ Len(all) \in Nat
  BY <1>1, <1>2 DEF Listed
<1> QED BY <1>3 DEF all

-----------------------------------------------------------------------------
(* The rows of the records of a column. *)

\* The recursive function FirstRow is what its definition says.
LEMMA FirstRowSteps ==
    ASSUME NEW records \in Seq(Records), records # << >>
    PROVE  /\ FirstRow(records)[1] = 0
           /\ \A k \in 2 .. Len(records) :
                 FirstRow(records)[k] = FirstRow(records)[k - 1] + records[k - 1].copies + 1
<1> DEFINE L == 1 .. Len(records)
           step == [a \in Nat \X Nat |->
                       IF a[1] + 1 \in L THEN a[2] + records[a[1] + 1].copies + 1 ELSE a[2]]
           Solves(s) == s = [k \in DOMAIN records |->
                                IF k = 1 THEN 0 ELSE s[k - 1] + records[k - 1].copies + 1]
<1>1. \A k \in L : records[k].copies \in Nat
  <2>1. ASSUME NEW k \in L PROVE records[k] \in Records
    BY ElementOfSequence
  <2> QED BY <2>1 DEF Records
<1>2. Len(records) \in Nat \ {0} /\ DOMAIN records = L
  OBVIOUS
<1>3. step \in [Nat \X Nat -> Nat]
  BY <1>1
<1>4. PICK f : Repeats(f, Nat, 0, step)
  <2> HIDE DEF step
  <2> QED BY <1>3, PrimitiveRecursion
<1> DEFINE s == [k \in L |-> f[k - 1]]
<1>5. ASSUME NEW k \in L, k # 1 PROVE s[k] = s[k - 1] + records[k - 1].copies + 1
  <2>1. k - 2 \in Nat /\ (k - 2) + 1 = k - 1 /\ k - 1 \in L /\ (k - 1) - 1 = k - 2
    BY <1>2, <1>5
  <2>2. f[k - 1] = step[<< k - 2, f[k - 2] >>]
    BY <1>4, <2>1 DEF Repeats
  <2>3. step[<< k - 2, f[k - 2] >>] = f[k - 2] + records[k - 1].copies + 1
    BY <1>4, <2>1 DEF Repeats
  <2> QED BY <2>1, <2>2, <2>3
<1>6. s[1] = 0
  BY <1>2, <1>4 DEF Repeats
<1>7. Solves(s)
  <2> DEFINE t == [k \in DOMAIN records |-> IF k = 1 THEN 0 ELSE s[k - 1] + records[k - 1].copies + 1]
  <2>1. \A k \in L : s[k] = t[k]
    BY <1>2, <1>5, <1>6
  <2> QED BY <1>2, <2>1
<1>8. FirstRow(records) = CHOOSE g : Solves(g)
  BY DEF FirstRow
<1>9. Solves(FirstRow(records))
  <2> HIDE DEF s, Solves
  <2> QED BY <1>7, <1>8
<1>10. ASSUME NEW g, Solves(g)
       PROVE  g[1] = 0 /\ \A k \in 2 .. Len(records) : g[k] = g[k - 1] + records[k - 1].copies + 1
  <2>1. g[1] = 0
    BY <1>2, <1>10
  <2>2. ASSUME NEW k \in 2 .. Len(records) PROVE g[k] = g[k - 1] + records[k - 1].copies + 1
    <3>1. k \in DOMAIN records /\ k # 1
      BY <1>2
    <3> QED BY <1>10, <3>1
  <2> QED BY <2>1, <2>2
<1> HIDE DEF Solves
<1> QED BY <1>9, <1>10

LEMMA RowsType ==
    ASSUME NEW records \in Seq(Records), NEW k \in 1 .. Len(records)
    PROVE  FirstRow(records)[k] \in Nat /\ records[k].copies \in Nat
<1> DEFINE Bad == {j \in 1 .. Len(records) : FirstRow(records)[j] \notin Nat}
<1>1. \A j \in 1 .. Len(records) : records[j].copies \in Nat
  <2>1. ASSUME NEW j \in 1 .. Len(records) PROVE records[j] \in Records
    BY ElementOfSequence
  <2> QED BY <2>1 DEF Records
<1>2. ASSUME Bad # {} PROVE FALSE
  <2>1. Bad \in SUBSET Nat
    OBVIOUS
  <2>2. PICK j \in Bad : \A m \in Bad : j <= m
    <3> HIDE DEF Bad
    <3> QED BY <1>2, <2>1, LeastNatural
  <2>3. records # << >>
    OBVIOUS
  <2>4. j # 1
    BY <2>3, FirstRowSteps
  <2>5. j \in 2 .. Len(records) /\ j - 1 \in 1 .. Len(records) /\ ~ (j <= j - 1)
    BY <2>4
  <2>6. FirstRow(records)[j - 1] \in Nat
    BY <2>2, <2>5
  <2>7. FirstRow(records)[j] = FirstRow(records)[j - 1] + records[j - 1].copies + 1
    BY <2>3, <2>5, FirstRowSteps
  <2> QED BY <1>1, <2>5, <2>6, <2>7
<1> QED BY <1>1, <1>2

\* The records of a column lie one behind the other.
LEMMA RowsRise ==
    ASSUME NEW records \in Seq(Records), NEW j \in 1 .. Len(records), NEW k \in 1 .. Len(records), j < k
    PROVE  FirstRow(records)[j] + records[j].copies < FirstRow(records)[k]
<1> DEFINE F == FirstRow(records)
           Bad == {m \in 1 .. Len(records) : j < m /\ ~ (F[j] + records[j].copies < F[m])}
<1>1. records # << >>
  OBVIOUS
<1>2. \A m \in 1 .. Len(records) : F[m] \in Nat /\ records[m].copies \in Nat
  BY RowsType
<1>3. \A m \in 2 .. Len(records) : F[m] = F[m - 1] + records[m - 1].copies + 1
  BY <1>1, FirstRowSteps
<1> HIDE DEF F
<1>4. ASSUME Bad # {} PROVE FALSE
  <2>1. Bad \in SUBSET Nat
    OBVIOUS
  <2>2. PICK m \in Bad : \A n \in Bad : m <= n
    <3> HIDE DEF Bad
    <3> QED BY <1>4, <2>1, LeastNatural
  <2>3. m \in 2 .. Len(records) /\ m - 1 \in 1 .. Len(records) /\ ~ (m <= m - 1) /\ j <= m - 1
    BY <2>2
  <2>4. F[m] = F[m - 1] + records[m - 1].copies + 1
    BY <1>3, <2>3
  <2>5. m - 1 = j \/ F[j] + records[j].copies < F[m - 1]
    BY <2>2, <2>3
  <2>6. /\ F[m - 1] \in Nat /\ records[m - 1].copies \in Nat
        /\ F[j] \in Nat /\ records[j].copies \in Nat
    BY <1>2, <2>3
  <2>7. ~ (F[j] + records[j].copies < F[m])
    BY <2>2
  <2> DEFINE above == F[m - 1]
             below == F[m]
             first == F[j]
             copies == records[m - 1].copies
             more   == records[j].copies
  <2>8. m - 1 = j => above = first /\ copies = more
    OBVIOUS
  <2>9. below = above + copies + 1 /\ (m - 1 = j \/ first + more < above) /\ ~ (first + more < below)
        /\ above \in Nat /\ copies \in Nat /\ first \in Nat /\ more \in Nat
    BY <2>4, <2>5, <2>6, <2>7
  <2> HIDE DEF above, below, first, copies, more
  <2> QED BY <2>8, <2>9
<1>5. k \notin Bad
  BY <1>4
<1> QED BY <1>5 DEF F

\* The records of the columns of a file (SavedAssumption).
LEMMA ColumnKnown ==
    ASSUME file \in Files, NEW x \in 0 .. MaxTilesX - 1
    PROVE  LET records == file.columns[x] IN
           /\ records \in Seq(Records) /\ records # << >>
           /\ Len(records) \in 1 .. Len(records)
           /\ \A k \in 1 .. Len(records) : WellSaved(records[k]) /\ records[k] \in Records
           /\ FirstRow(records)[Len(records)] + records[Len(records)].copies + 1 = MaxTilesY
<1> DEFINE records == file.columns[x]
<1>1. records \in Seq(Records)
  BY FilesAssumption
<1>2. /\ records # << >> /\ \A k \in DOMAIN records : WellSaved(records[k])
      /\ FirstRow(records)[Len(records)] + records[Len(records)].copies + 1 = MaxTilesY
  BY SavedAssumption
<1> HIDE DEF records
<1>3. Len(records) \in 1 .. Len(records) /\ DOMAIN records = 1 .. Len(records)
  BY <1>1, <1>2
<1>4. \A k \in 1 .. Len(records) : records[k] \in Records
  BY <1>1
<1> QED BY <1>1, <1>2, <1>3, <1>4 DEF records

\* The record of a tile is the one whose rows have its row.
LEMMA SavedIs ==
    ASSUME file \in Files, NEW x \in 0 .. MaxTilesX - 1, NEW k \in 1 .. Len(file.columns[x]),
           NEW y \in Nat, FirstRow(file.columns[x])[k] <= y,
           y <= FirstRow(file.columns[x])[k] + file.columns[x][k].copies
    PROVE  Saved(<< x, y >>) = file.columns[x][k]
<1> DEFINE records == file.columns[x]
           F == FirstRow(records)
           In(j) == y - F[j] \in 0 .. records[j].copies
<1>1. records \in Seq(Records) /\ k \in DOMAIN records /\ DOMAIN records = 1 .. Len(records)
  BY ColumnKnown
<1>2. \A j \in DOMAIN records : F[j] \in Nat /\ records[j].copies \in Nat
  BY <1>1, RowsType
<1>3. \A i1, j1 \in DOMAIN records : i1 < j1 => F[i1] + records[i1].copies < F[j1]
  BY <1>1, RowsRise
<1>4. Saved(<< x, y >>) = records[CHOOSE j \in DOMAIN records : In(j)]
  BY DEF Saved
<1>5. F[k] <= y /\ y <= F[k] + records[k].copies
  OBVIOUS
<1> HIDE DEF records, F
<1>6. In(k)
  BY <1>1, <1>2, <1>5
<1>7. ASSUME NEW j \in DOMAIN records, In(j) PROVE j = k
  <2>1. F[j] \in Nat /\ records[j].copies \in Nat /\ F[k] \in Nat /\ records[k].copies \in Nat
        /\ j \in Nat /\ k \in Nat
    BY <1>1, <1>2
  <2>2. F[j] <= y /\ y <= F[j] + records[j].copies
    BY <1>7, <2>1
  <2>3. j < k => F[j] + records[j].copies < F[k]
    BY <1>1, <1>3
  <2>4. k < j => F[k] + records[k].copies < F[j]
    BY <1>1, <1>3
  <2> DEFINE a == F[j]
             b == records[j].copies
             c == F[k]
             d == records[k].copies
  <2>5. a \in Nat /\ b \in Nat /\ c \in Nat /\ d \in Nat /\ y \in Nat
    BY <2>1
  <2>6. a <= y /\ y <= a + b /\ c <= y /\ y <= c + d
    BY <1>5, <2>2
  <2>7. (j < k => a + b < c) /\ (k < j => c + d < a)
    BY <2>3, <2>4
  <2> HIDE DEF a, b, c, d
  <2>8. ~ (a + b < c) /\ ~ (c + d < a)
    BY <2>5, <2>6
  <2>9. ~ (j < k) /\ ~ (k < j)
    BY <2>7, <2>8
  <2> QED BY <2>1, <2>9
<1> HIDE DEF In
<1>8. (CHOOSE j \in DOMAIN records : In(j)) = k
  BY <1>1, <1>6, <1>7
<1> QED BY <1>4, <1>8 DEF records

\* Every tile has a record.
LEMMA SavedKnown ==
    ASSUME file \in Files, NEW p \in Positions
    PROVE  Saved(p) \in Records /\ WellSaved(Saved(p))
<1>1. PICK x \in 0 .. MaxTilesX - 1, y \in 0 .. MaxTilesY - 1 : p = << x, y >>
  BY DEF Positions
<1> DEFINE records == file.columns[x]
           F == FirstRow(records)
           Reach == {k \in 1 .. Len(records) : y <= F[k] + records[k].copies}
<1>2. /\ records \in Seq(Records) /\ records # << >>
      /\ Len(records) \in 1 .. Len(records)
      /\ \A k \in 1 .. Len(records) : WellSaved(records[k]) /\ records[k] \in Records
      /\ F[Len(records)] + records[Len(records)].copies + 1 = MaxTilesY
  BY <1>1, ColumnKnown
<1>3. \A j \in 1 .. Len(records) : F[j] \in Nat /\ records[j].copies \in Nat
  BY <1>2, RowsType
<1>4. F[1] = 0 /\ \A k \in 2 .. Len(records) : F[k] = F[k - 1] + records[k - 1].copies + 1
  BY <1>2, FirstRowSteps
<1>5. \A k \in 1 .. Len(records) : F[k] <= y /\ y <= F[k] + records[k].copies => Saved(p) = records[k]
  BY <1>1, SavedIs
<1>6. MaxTilesY \in Nat
  BY FilesAssumption
<1> HIDE DEF records, F
<1>7. Len(records) \in Reach
  BY <1>2, <1>3, <1>6
<1>8. Reach \in SUBSET Nat
  OBVIOUS
<1>9. PICK k \in Reach : \A j \in Reach : k <= j
  <2> HIDE DEF Reach
  <2> QED BY <1>7, <1>8, LeastNatural
<1>10. F[k] <= y
  <2>1. CASE k = 1
    BY <1>4, <2>1
  <2>2. CASE k # 1
    <3>1. k \in 2 .. Len(records) /\ k - 1 \in 1 .. Len(records) /\ ~ (k <= k - 1)
      BY <2>2
    <3>2. ~ (y <= F[k - 1] + records[k - 1].copies)
      BY <1>9, <3>1
    <3>3. F[k] = F[k - 1] + records[k - 1].copies + 1
      BY <1>4, <3>1
    <3>4. F[k - 1] \in Nat /\ records[k - 1].copies \in Nat
      BY <1>3, <3>1
    <3> DEFINE above == F[k - 1]
               below == F[k]
               copies == records[k - 1].copies
    <3>5. below = above + copies + 1 /\ ~ (y <= above + copies) /\ above \in Nat /\ copies \in Nat
      BY <3>2, <3>3, <3>4
    <3> HIDE DEF above, below, copies
    <3>6. below <= y
      BY <3>5
    <3> QED BY <3>6 DEF below
  <2> QED BY <2>1, <2>2
<1> QED BY <1>2, <1>5, <1>10

-----------------------------------------------------------------------------
(* What each part of __world_load_tile leaves of a tile. *)

\* u differs from t only in its type, its frame and bits of s_tile_header.
SameRest(u, t) == /\ u \in Tiles
                  /\ u.b_tile_header = t.b_tile_header
                  /\ u.wall = t.wall /\ u.liquid = t.liquid

LEMMA SetBitLeaves ==
    ASSUME NEW t \in Tiles, NEW bit \in {5, 6, 11}, NEW val
    PROVE  /\ SameRest(SetBit(t, bit, val), t) /\ SetBit(t, bit, val).type = t.type
           /\ SetBit(t, bit, val).s_tile_header = IF val THEN t.s_tile_header \cup {bit}
                                                  ELSE t.s_tile_header \ {bit}
<1>1. SetBit(t, bit, val) \in Tiles
  BY SettersKeep DEF tile_set_active, tile_set_inactive, tile_set_actuator, ActiveBit, InactiveBit, ActuatorBit
<1> QED BY <1>1 DEF SetBit, Tiles, SameRest

LEMMA TypeLeaves ==
    ASSUME NEW g \in Records, NEW t \in Tiles, NEW Had
    PROVE  LET u == WithType(g, t, Had) IN
           /\ SameRest(u, t)
           /\ u.s_tile_header = IF ActiveFlag \in g.flags1 THEN t.s_tile_header \cup {5}
                                ELSE t.s_tile_header
           /\ ActiveFlag \notin g.flags1 => u.type = 0
           /\ ActiveFlag \in g.flags1 /\ ~ TypeFails(g, Had) => u.type = g.type
<1> DEFINE zero == [t EXCEPT !.type = 0]
           active == tile_set_active(zero, TRUE)
           typed == [active EXCEPT !.type = g.type]
<1>1. SameRest(zero, t) /\ zero.type = 0 /\ zero.s_tile_header = t.s_tile_header
  BY DEF Tiles, SameRest
<1> HIDE DEF zero
<1>2. SameRest(active, t) /\ active.s_tile_header = t.s_tile_header \cup {5}
  <2>1. SameRest(active, zero) /\ active.s_tile_header = zero.s_tile_header \cup {5}
    BY <1>1, SetBitLeaves DEF tile_set_active, ActiveBit, SameRest
  <2> QED BY <1>1, <2>1 DEF SameRest
<1> HIDE DEF active
<1>3. SameRest(typed, t) /\ typed.s_tile_header = active.s_tile_header /\ typed.type = g.type
  BY <1>2 DEF Tiles, SameRest, Records
<1> HIDE DEF typed
<1>4. CASE ActiveFlag \notin g.flags1
  <2>1. WithType(g, t, Had) = zero
    BY <1>4 DEF WithType, zero
  <2> QED BY <1>1, <1>4, <2>1
<1>5. CASE ActiveFlag \in g.flags1 /\ TypeFails(g, Had)
  <2>1. WithType(g, t, Had) = active
    BY <1>5 DEF WithType, zero, active
  <2> QED BY <1>2, <1>5, <2>1
<1>6. CASE ActiveFlag \in g.flags1 /\ ~ TypeFails(g, Had)
  <2>1. WithType(g, t, Had) = typed
    BY <1>6 DEF WithType, zero, active, typed
  <2> QED BY <1>2, <1>3, <1>6, <2>1
<1> QED BY <1>4, <1>5, <1>6

LEMMA FrameLeaves ==
    ASSUME NEW g \in Records, NEW t \in Tiles
    PROVE  LET u == WithFrame(g, t) IN
           SameRest(u, t) /\ u.s_tile_header = t.s_tile_header /\ u.type = t.type
<1>1. ASSUME NEW x \in Int, NEW y \in Int
      PROVE  LET u == Framed(t, x, y) IN
             SameRest(u, t) /\ u.s_tile_header = t.s_tile_header /\ u.type = t.type
  <2>1. Framed(t, x, y) \in Tiles
    BY FramesKeep
  <2>2. /\ Framed(t, x, y).b_tile_header = t.b_tile_header /\ Framed(t, x, y).wall = t.wall
        /\ Framed(t, x, y).liquid = t.liquid /\ Framed(t, x, y).type = t.type
        /\ Framed(t, x, y).s_tile_header = t.s_tile_header
    BY DEF Framed, Tiles
  <2> QED BY <2>1, <2>2 DEF SameRest
<1>2. SameRest(t, t)
  BY DEF SameRest
<1> DEFINE y == IF g.type = TimerType THEN 0 ELSE g.frame_y
<1>3. -1 \in Int /\ g.frame_x \in Int /\ y \in Int
  BY DEF Records
<1>4. WithFrame(g, t) \in {t, Framed(t, -1, -1), Framed(t, g.frame_x, y)}
  BY DEF WithFrame, Framed
<1> HIDE DEF y
<1> QED BY <1>1, <1>2, <1>3, <1>4

\* The colours clear bits, and never that of an active tile.
LEMMA ColoursLeave ==
    ASSUME NEW g \in Records, NEW t \in Tiles
    PROVE  LET u == WithColours(g, t) IN
           /\ SameRest(u, t) /\ u.type = t.type
           /\ u.s_tile_header \subseteq t.s_tile_header
           /\ 5 \in t.s_tile_header => 5 \in u.s_tile_header
<1> DEFINE Lessens(z, v) == /\ SameRest(z, v) /\ z.type = v.type
                            /\ z.s_tile_header \subseteq v.s_tile_header
                            /\ 5 \in v.s_tile_header => 5 \in z.s_tile_header
<1>1. ASSUME NEW v \in Tiles, NEW c
      PROVE  Lessens(tile_set_colour(v, c), v) /\ Lessens(tile_set_wall_colour(v, c), v)
  <2>1. tile_set_colour(v, c) \in Tiles /\ tile_set_wall_colour(v, c) \in Tiles
    BY SettersKeep
  <2>2. 5 \in (5 .. 15) \cup c /\ 5 \in (5 .. 7) \cup c
    OBVIOUS
  <2>3. Lessens(tile_set_colour(v, c), v)
    BY <2>1, <2>2 DEF tile_set_colour, Tiles, SameRest
  <2>4. Lessens(tile_set_wall_colour(v, c), v)
    BY <2>1, <2>2 DEF tile_set_wall_colour, Tiles, SameRest
  <2> QED BY <2>3, <2>4
<1> DEFINE u == IF ActiveFlag \in g.flags1 /\ ColourFlag \in g.flags3
                THEN tile_set_colour(t, g.colour) ELSE t
<1>2. Lessens(t, t)
  BY DEF SameRest
<1>3. Lessens(u, t)
  <2> HIDE DEF Lessens
  <2> QED BY <1>1, <1>2
<1>4. WithColours(g, t) \in {u, tile_set_wall_colour(u, g.wall_colour)}
  BY DEF WithColours
<1>5. u \in Tiles
  BY <1>3 DEF SameRest
<1> HIDE DEF u
<1>6. Lessens(tile_set_wall_colour(u, g.wall_colour), u)
  <2> HIDE DEF Lessens
  <2> QED BY <1>1, <1>5
<1>7. Lessens(tile_set_wall_colour(u, g.wall_colour), t)
  BY <1>3, <1>6 DEF SameRest
<1>8. Lessens(WithColours(g, t), t)
  <2> HIDE DEF Lessens
  <2> QED BY <1>3, <1>4, <1>7
<1> QED BY <1>8

LEMMA WallLeaves ==
    ASSUME NEW g \in Records, NEW t \in Tiles
    PROVE  LET u == WithWallAndLiquid(g, t) IN
           /\ u \in Tiles /\ u.type = t.type /\ u.s_tile_header = t.s_tile_header
           /\ u.b_tile_header \subseteq t.b_tile_header
           /\ u.wall = IF WallFlag \in g.flags1 THEN g.wall ELSE t.wall
           /\ u.liquid = IF g.flags1 \cap {3, 4} # {} THEN g.liquid ELSE t.liquid
<1> DEFINE w == IF WallFlag \in g.flags1 THEN [t EXCEPT !.wall = g.wall] ELSE t
           l == [w EXCEPT !.liquid = g.liquid]
           k == tile_set_liquid_kind(l)
<1>1. /\ w \in Tiles /\ w.type = t.type /\ w.s_tile_header = t.s_tile_header
      /\ w.b_tile_header = t.b_tile_header /\ w.liquid = t.liquid
      /\ w.wall = IF WallFlag \in g.flags1 THEN g.wall ELSE t.wall
  BY DEF Tiles, Records
<1> HIDE DEF w
<1>2. /\ l \in Tiles /\ l.type = w.type /\ l.s_tile_header = w.s_tile_header
      /\ l.b_tile_header = w.b_tile_header /\ l.wall = w.wall /\ l.liquid = g.liquid
  BY <1>1 DEF Tiles, Records
<1> HIDE DEF l
<1>3. /\ k \in Tiles /\ k.type = l.type /\ k.s_tile_header = l.s_tile_header
      /\ k.b_tile_header \subseteq l.b_tile_header /\ k.wall = l.wall /\ k.liquid = l.liquid
  <2>1. k \in Tiles
    BY <1>2, SettersKeep
  <2>2. /\ k.type = l.type /\ k.s_tile_header = l.s_tile_header
        /\ k.b_tile_header = l.b_tile_header \ {LavaBit} /\ k.wall = l.wall /\ k.liquid = l.liquid
    BY <1>2 DEF tile_set_liquid_kind, Tiles
  <2> QED BY <2>1, <2>2
<1> HIDE DEF k
<1>4. CASE g.flags1 \cap {3, 4} = {}
  <2>1. WithWallAndLiquid(g, t) = w
    BY <1>4 DEF WithWallAndLiquid, w
  <2> QED BY <1>1, <1>4, <2>1
<1>5. CASE g.flags1 \cap {3, 4} # {}
  <2>1. WithWallAndLiquid(g, t) = k
    BY <1>5 DEF WithWallAndLiquid, w, l, k
  <2> QED BY <1>1, <1>2, <1>3, <1>5, <2>1
<1> QED BY <1>4, <1>5

WireBits == {7, 8, 9}

LEMMA SwitchesLeave ==
    ASSUME NEW g \in Records, NEW t \in Tiles
    PROVE  LET u == WithSwitches(g, t) IN
           /\ SameRest(u, t) /\ u.type = t.type
           /\ \A b : b \notin {6, 11} \cup WireBits => (b \in u.s_tile_header <=> b \in t.s_tile_header)
           /\ 6 \in u.s_tile_header <=> InactiveFlag \in g.flags3
           /\ 11 \in u.s_tile_header <=> ActuatorFlag \in g.flags3
           /\ \A w \in WireFlags : WireBit(w) \in u.s_tile_header <=>
                 IF g.flags2 \ {0} # {} THEN w \in g.flags2 ELSE WireBit(w) \in t.s_tile_header
<1> DEFINE ws == g.flags2 \cap WireFlags
           wired == tile_set_wires(t, ws)
           w == IF g.flags2 \ {0} # {} THEN wired ELSE t
           a == tile_set_actuator(w, ActuatorFlag \in g.flags3)
           u == tile_set_inactive(a, InactiveFlag \in g.flags3)
<1>1. ws \in SUBSET WireFlags /\ WireFlags = {1, 2, 3}
  BY DEF WireFlags
<1>2. /\ SameRest(wired, t) /\ wired.type = t.type
      /\ \A b : b \notin WireBits => (b \in wired.s_tile_header <=> b \in t.s_tile_header)
      /\ \A x \in WireFlags : WireBit(x) \in wired.s_tile_header <=> x \in g.flags2
  <2> HIDE DEF ws
  <2>1. wired \in Tiles
    BY <1>1, SettersKeep
  <2>2. /\ wired.s_tile_header = (t.s_tile_header \ {WireBit(x) : x \in WireFlags}) \cup {WireBit(x) : x \in ws}
        /\ wired.b_tile_header = t.b_tile_header /\ wired.wall = t.wall
        /\ wired.liquid = t.liquid /\ wired.type = t.type
    BY DEF tile_set_wires, Tiles
  <2>3. {WireBit(x) : x \in WireFlags} = WireBits
    BY <1>1 DEF WireBit, WireBits
  <2>4. {WireBit(x) : x \in ws} \subseteq WireBits
    BY <1>1, <2>3
  <2>5. \A x \in WireFlags : WireBit(x) \in {WireBit(z) : z \in ws} <=> x \in ws
    BY <1>1 DEF WireBit
  <2>6. \A x \in WireFlags : WireBit(x) \in WireBits
    BY <2>3
  <2>7. \A x \in WireFlags : x \in ws <=> x \in g.flags2
    BY DEF ws
  <2> HIDE DEF wired
  <2> QED BY <2>1, <2>2, <2>3, <2>4, <2>5, <2>6, <2>7 DEF SameRest
<1> HIDE DEF wired, ws
<1>3. /\ SameRest(w, t) /\ w.type = t.type
      /\ \A b : b \notin WireBits => (b \in w.s_tile_header <=> b \in t.s_tile_header)
      /\ \A x \in WireFlags : WireBit(x) \in w.s_tile_header <=>
             IF g.flags2 \ {0} # {} THEN x \in g.flags2 ELSE WireBit(x) \in t.s_tile_header
  <2>1. CASE g.flags2 \ {0} # {}
    BY <1>2, <2>1
  <2>2. CASE g.flags2 \ {0} = {}
    BY <2>2 DEF SameRest
  <2> QED BY <2>1, <2>2
<1> HIDE DEF w
<1>4. /\ SameRest(a, w) /\ a.type = w.type
      /\ a.s_tile_header = IF ActuatorFlag \in g.flags3 THEN w.s_tile_header \cup {11}
                           ELSE w.s_tile_header \ {11}
  BY <1>3, SetBitLeaves DEF tile_set_actuator, ActuatorBit, SameRest
<1> HIDE DEF a
<1>5. /\ SameRest(u, a) /\ u.type = a.type
      /\ u.s_tile_header = IF InactiveFlag \in g.flags3 THEN a.s_tile_header \cup {6}
                           ELSE a.s_tile_header \ {6}
  BY <1>4, SetBitLeaves DEF tile_set_inactive, InactiveBit, SameRest
<1> HIDE DEF u
<1>6. u = WithSwitches(g, t)
  BY DEF WithSwitches, u, a, w, wired, ws
<1>7. SameRest(u, t) /\ u.type = t.type
  BY <1>3, <1>4, <1>5 DEF SameRest
<1>8. \A b : b # 6 /\ b # 11 => (b \in u.s_tile_header <=> b \in w.s_tile_header)
  BY <1>4, <1>5
<1>9. /\ 6 \in u.s_tile_header <=> InactiveFlag \in g.flags3
      /\ 11 \in u.s_tile_header <=> ActuatorFlag \in g.flags3
  BY <1>4, <1>5
<1>10. \A x \in WireFlags : WireBit(x) # 6 /\ WireBit(x) # 11
  BY <1>1 DEF WireBit
<1> QED BY <1>3, <1>6, <1>7, <1>8, <1>9, <1>10

\* What the whole routine leaves of a tile.
LEMMA LoadLeaves ==
    ASSUME NEW g \in Records, NEW t \in Tiles, NEW Had
    PROVE  LET u == LoadTile(g, t, Had) IN
           /\ u \in Tiles /\ u.b_tile_header \subseteq t.b_tile_header
           /\ \A b \in u.s_tile_header : b \in t.s_tile_header \/ b \in {5, 6, 11} \cup WireBits
           /\ 5 \in u.s_tile_header <=> ActiveFlag \in g.flags1 \/ 5 \in t.s_tile_header
           /\ 6 \in u.s_tile_header <=> InactiveFlag \in g.flags3
           /\ 11 \in u.s_tile_header <=> ActuatorFlag \in g.flags3
           /\ g.flags2 \ {0} # {} =>
                 \A w \in WireFlags : WireBit(w) \in u.s_tile_header <=> w \in g.flags2
           /\ g.flags2 \ {0} = {} =>
                 \A w \in WireFlags : WireBit(w) \in u.s_tile_header => WireBit(w) \in t.s_tile_header
           /\ ActiveFlag \notin g.flags1 => u.type = 0
           /\ ActiveFlag \in g.flags1 /\ ~ TypeFails(g, Had) => u.type = g.type
           /\ u.wall = IF WallFlag \in g.flags1 THEN g.wall ELSE t.wall
           /\ u.liquid = IF g.flags1 \cap {3, 4} # {} THEN g.liquid ELSE t.liquid
<1> DEFINE a == WithType(g, t, Had)
           b1 == WithFrame(g, a)
           c == WithColours(g, b1)
           d == WithWallAndLiquid(g, c)
           u == WithSwitches(g, d)
<1>1. /\ SameRest(a, t)
      /\ a.s_tile_header = IF ActiveFlag \in g.flags1 THEN t.s_tile_header \cup {5} ELSE t.s_tile_header
      /\ ActiveFlag \notin g.flags1 => a.type = 0
      /\ ActiveFlag \in g.flags1 /\ ~ TypeFails(g, Had) => a.type = g.type
  BY TypeLeaves
<1> HIDE DEF a
<1>2. SameRest(b1, a) /\ b1.s_tile_header = a.s_tile_header /\ b1.type = a.type
  BY <1>1, FrameLeaves DEF SameRest
<1> HIDE DEF b1
<1>3. /\ SameRest(c, b1) /\ c.type = b1.type /\ c.s_tile_header \subseteq b1.s_tile_header
      /\ 5 \in b1.s_tile_header => 5 \in c.s_tile_header
  BY <1>2, ColoursLeave DEF SameRest
<1> HIDE DEF c
<1>4. /\ d \in Tiles /\ d.type = c.type /\ d.s_tile_header = c.s_tile_header
      /\ d.b_tile_header \subseteq c.b_tile_header
      /\ d.wall = IF WallFlag \in g.flags1 THEN g.wall ELSE c.wall
      /\ d.liquid = IF g.flags1 \cap {3, 4} # {} THEN g.liquid ELSE c.liquid
  BY <1>3, WallLeaves DEF SameRest
<1> HIDE DEF d
<1>5. /\ SameRest(u, d) /\ u.type = d.type
      /\ \A b : b \notin {6, 11} \cup WireBits => (b \in u.s_tile_header <=> b \in d.s_tile_header)
      /\ 6 \in u.s_tile_header <=> InactiveFlag \in g.flags3
      /\ 11 \in u.s_tile_header <=> ActuatorFlag \in g.flags3
      /\ \A w \in WireFlags : WireBit(w) \in u.s_tile_header <=>
            IF g.flags2 \ {0} # {} THEN w \in g.flags2 ELSE WireBit(w) \in d.s_tile_header
  BY <1>4, SwitchesLeave
<1>6. u = LoadTile(g, t, Had)
  BY DEF LoadTile, u, d, c, b1, a
<1> HIDE DEF u
<1>7. u \in Tiles /\ u.b_tile_header \subseteq t.b_tile_header
  BY <1>1, <1>2, <1>3, <1>4, <1>5 DEF SameRest
<1>8. /\ u.wall = IF WallFlag \in g.flags1 THEN g.wall ELSE t.wall
      /\ u.liquid = IF g.flags1 \cap {3, 4} # {} THEN g.liquid ELSE t.liquid
  BY <1>1, <1>2, <1>3, <1>4, <1>5 DEF SameRest
<1>9. u.type = a.type
  BY <1>2, <1>3, <1>4, <1>5
<1>10. d.s_tile_header \subseteq t.s_tile_header \cup {5}
  BY <1>1, <1>2, <1>3, <1>4
<1>11. 5 \in d.s_tile_header <=> ActiveFlag \in g.flags1 \/ 5 \in t.s_tile_header
  BY <1>1, <1>2, <1>3, <1>4
<1>12. 5 \in u.s_tile_header <=> 5 \in d.s_tile_header
  BY <1>5 DEF WireBits
<1>13. \A b \in u.s_tile_header : b \in t.s_tile_header \/ b \in {5, 6, 11} \cup WireBits
  BY <1>5, <1>10
<1>14. ASSUME NEW w \in WireFlags
       PROVE  /\ WireBit(w) # 5
              /\ g.flags2 \ {0} # {} => (WireBit(w) \in u.s_tile_header <=> w \in g.flags2)
              /\ g.flags2 \ {0} = {} =>
                    (WireBit(w) \in u.s_tile_header <=> WireBit(w) \in d.s_tile_header)
  <2>1. WireBit(w) # 5
    BY DEF WireBit, WireFlags
  <2> QED BY <1>5, <2>1
<1>15. g.flags2 \ {0} = {} =>
         \A w \in WireFlags : WireBit(w) \in u.s_tile_header => WireBit(w) \in t.s_tile_header
  BY <1>10, <1>14
<1> QED BY <1>1, <1>5, <1>6, <1>7, <1>8, <1>9, <1>11, <1>12, <1>13, <1>14, <1>15

\* g is what is read of the record r over the tile t, all of it or a part.
Takes(g, t, r) ==
    /\ g.flags1 \subseteq r.flags1 /\ g.flags2 \subseteq r.flags2
    /\ WallFlag \in g.flags1 => g.wall \in {t.wall, r.wall}
    /\ g.flags1 \cap {3, 4} # {} => g.liquid \in {t.liquid, r.liquid}

\* Whatever part of its record is read, a tile has nothing but of its record.
LEMMA LoadKeeps ==
    ASSUME NEW g \in Records, NEW t \in Tiles, NEW Had, NEW r, Keeps(t, r), Takes(g, t, r)
    PROVE  Keeps(LoadTile(g, t, Had), r)
<1> DEFINE u == LoadTile(g, t, Had)
<1>1. /\ 5 \in u.s_tile_header <=> ActiveFlag \in g.flags1 \/ 5 \in t.s_tile_header
      /\ g.flags2 \ {0} # {} =>
            \A w \in WireFlags : WireBit(w) \in u.s_tile_header <=> w \in g.flags2
      /\ g.flags2 \ {0} = {} =>
            \A w \in WireFlags : WireBit(w) \in u.s_tile_header => WireBit(w) \in t.s_tile_header
      /\ u.wall = IF WallFlag \in g.flags1 THEN g.wall ELSE t.wall
      /\ u.liquid = IF g.flags1 \cap {3, 4} # {} THEN g.liquid ELSE t.liquid
  BY LoadLeaves
<1> HIDE DEF u
<1>2. tile_active(u) => ActiveFlag \in r.flags1
  BY <1>1 DEF Keeps, Takes, tile_active, ActiveBit
<1>3. \A w \in WireFlags : tile_wire(u, w) => w \in r.flags2
  <2>1. CASE g.flags2 \ {0} # {}
    BY <1>1, <2>1 DEF Takes, tile_wire
  <2>2. CASE g.flags2 \ {0} = {}
    BY <1>1, <2>2 DEF Keeps, tile_wire
  <2> QED BY <2>1, <2>2
<1>4. u.wall \in {0, r.wall}
  <2>1. u.wall \in {t.wall, r.wall}
    BY <1>1 DEF Takes
  <2> QED BY <2>1 DEF Keeps
<1>5. u.liquid \in {0, r.liquid}
  <2>1. u.liquid \in {t.liquid, r.liquid}
    BY <1>1 DEF Takes
  <2> QED BY <2>1 DEF Keeps
<1> QED BY <1>2, <1>3, <1>4, <1>5 DEF Keeps, u

\* No tile of the loader gets a colour, a slope or the kind of a liquid.
LEMMA LoadUnpainted ==
    ASSUME NEW g \in Records, NEW t \in Tiles, NEW Had, Unpainted(t)
    PROVE  Unpainted(LoadTile(g, t, Had))
<1> DEFINE u == LoadTile(g, t, Had)
<1>1. /\ u.b_tile_header \subseteq t.b_tile_header
      /\ \A b \in u.s_tile_header : b \in t.s_tile_header \/ b \in {5, 6, 11} \cup WireBits
  BY LoadLeaves
<1> HIDE DEF u
<1>2. Unpainted(u)
  BY <1>1 DEF Unpainted, WireBits
<1> QED BY <1>2 DEF u

\* g is all of the record r.
TakesAll(g, r) ==
    /\ g.flags1 = r.flags1 /\ g.flags2 = r.flags2 /\ g.flags3 = r.flags3 /\ g.type = r.type
    /\ WallFlag \in g.flags1 => g.wall = r.wall
    /\ g.flags1 \cap {3, 4} # {} => g.liquid = r.liquid

\* With all of its record, it has all of it, also where there was another before.
LEMMA LoadLoads ==
    ASSUME NEW g \in Records, NEW t \in Tiles, NEW Had, NEW r, WellSaved(r),
           TakesAll(g, r), ~ TypeFails(g, Had)
    PROVE  IsLoaded(LoadTile(g, t, Had), r)
<1> DEFINE u == LoadTile(g, t, Had)
<1>1. /\ 5 \in u.s_tile_header <=> ActiveFlag \in g.flags1 \/ 5 \in t.s_tile_header
      /\ 6 \in u.s_tile_header <=> InactiveFlag \in g.flags3
      /\ 11 \in u.s_tile_header <=> ActuatorFlag \in g.flags3
      /\ g.flags2 \ {0} # {} =>
            \A w \in WireFlags : WireBit(w) \in u.s_tile_header <=> w \in g.flags2
      /\ ActiveFlag \notin g.flags1 => u.type = 0
      /\ ActiveFlag \in g.flags1 => u.type = g.type
      /\ u.wall = IF WallFlag \in g.flags1 THEN g.wall ELSE t.wall
      /\ u.liquid = IF g.flags1 \cap {3, 4} # {} THEN g.liquid ELSE t.liquid
  BY LoadLeaves
<1> HIDE DEF u
<1>2. ActiveFlag \in r.flags1 => tile_active(u)
  BY <1>1 DEF TakesAll, tile_active, ActiveBit
<1>3. /\ tile_inactive(u) <=> InactiveFlag \in r.flags3
      /\ tile_actuator(u) <=> ActuatorFlag \in r.flags3
  BY <1>1 DEF TakesAll, tile_inactive, tile_actuator, InactiveBit, ActuatorBit
<1>4. r.flags2 \ {0} # {} => \A w \in WireFlags : tile_wire(u, w) <=> w \in r.flags2
  BY <1>1 DEF TakesAll, tile_wire
<1>5. u.type = r.type
  BY <1>1 DEF TakesAll, WellSaved
<1>6. r.wall \in {0, u.wall}
  BY <1>1 DEF TakesAll, WellSaved
<1>7. r.liquid \in {0, u.liquid}
  <2>1. CASE g.flags1 \cap {3, 4} # {}
    BY <1>1, <2>1 DEF TakesAll
  <2>2. CASE g.flags1 \cap {3, 4} = {}
    BY <2>2 DEF TakesAll, WellSaved
  <2> QED BY <2>1, <2>2
<1> QED BY <1>2, <1>3, <1>4, <1>5, <1>6, <1>7 DEF IsLoaded, u

\* A tile whose frame is missing has a type and is active.
LEMMA FailKeeps ==
    ASSUME NEW g \in Records, NEW t \in Tiles, NEW Had, NEW r, Keeps(t, r), Takes(g, t, r),
           NEW x \in Int
    PROVE  Keeps([WithType(g, t, Had) EXCEPT !.frame_x = x], r)
<1> DEFINE a == WithType(g, t, Had)
           u == [a EXCEPT !.frame_x = x]
<1>1. /\ SameRest(a, t)
      /\ a.s_tile_header = IF ActiveFlag \in g.flags1 THEN t.s_tile_header \cup {5} ELSE t.s_tile_header
  BY TypeLeaves
<1> HIDE DEF a
<1>2. /\ u.s_tile_header = a.s_tile_header /\ u.b_tile_header = t.b_tile_header
      /\ u.wall = t.wall /\ u.liquid = t.liquid
  BY <1>1 DEF SameRest, Tiles
<1> HIDE DEF u
<1>3. tile_active(u) => ActiveFlag \in r.flags1
  BY <1>1, <1>2 DEF Keeps, Takes, tile_active, ActiveBit
<1>4. \A w \in WireFlags : tile_wire(u, w) => w \in r.flags2
  <2>1. \A w \in WireFlags : WireBit(w) # 5
    BY DEF WireBit, WireFlags
  <2> QED BY <1>1, <1>2, <2>1 DEF Keeps, tile_wire
<1>5. u.wall \in {0, r.wall} /\ u.liquid \in {0, r.liquid}
  BY <1>2 DEF Keeps
<1> QED BY <1>3, <1>4, <1>5 DEF Keeps, u, a

LEMMA FailUnpainted ==
    ASSUME NEW g \in Records, NEW t \in Tiles, NEW Had, Unpainted(t), NEW x \in Int
    PROVE  Unpainted([WithType(g, t, Had) EXCEPT !.frame_x = x])
<1> DEFINE a == WithType(g, t, Had)
           u == [a EXCEPT !.frame_x = x]
<1>1. /\ SameRest(a, t)
      /\ a.s_tile_header = IF ActiveFlag \in g.flags1 THEN t.s_tile_header \cup {5} ELSE t.s_tile_header
  BY TypeLeaves
<1> HIDE DEF a
<1>2. u.s_tile_header = a.s_tile_header /\ u.b_tile_header = t.b_tile_header
  BY <1>1 DEF SameRest, Tiles
<1> HIDE DEF u
<1>3. Unpainted(u)
  BY <1>1, <1>2 DEF Unpainted
<1> QED BY <1>3 DEF u, a

LEMMA ReadIs ==
    ASSUME NEW r, NEW t, NEW Had
    PROVE  LET g == Read(r, Had, t) IN
           /\ g.flags1 = IF "flags1" \in Had THEN r.flags1 ELSE {}
           /\ g.flags2 = IF 0 \in g.flags1 /\ "flags2" \in Had THEN r.flags2 ELSE {}
           /\ g.flags3 = IF 0 \in g.flags2 /\ "flags3" \in Had THEN r.flags3 ELSE {}
           /\ g.type = IF "type" \in Had THEN r.type ELSE 0
           /\ g.wall = IF "wall" \in Had THEN r.wall ELSE t.wall
           /\ g.liquid = IF "liquid" \in Had THEN r.liquid ELSE t.liquid
           /\ g.copies = IF g.flags1 \cap {6, 7} # {} /\ "copies" \in Had THEN r.copies
                           ELSE (IF 6 \in g.flags1 THEN 1 ELSE 0) + (IF 7 \in g.flags1 THEN 2 ELSE 0)
<1> DEFINE flags1 == IF "flags1" \in Had THEN r.flags1 ELSE {}
           flags2 == IF 0 \in flags1 /\ "flags2" \in Had THEN r.flags2 ELSE {}
           flags3 == IF 0 \in flags2 /\ "flags3" \in Had THEN r.flags3 ELSE {}
           copies == IF flags1 \cap {6, 7} # {} /\ "copies" \in Had THEN r.copies
                     ELSE (IF 6 \in flags1 THEN 1 ELSE 0) + (IF 7 \in flags1 THEN 2 ELSE 0)
           type == IF "type" \in Had THEN r.type ELSE 0
           x == IF "frame_x" \in Had THEN r.frame_x ELSE t.frame_x
           y == IF "frame_y" \in Had THEN r.frame_y ELSE t.frame_y
           wall == IF "wall" \in Had THEN r.wall ELSE t.wall
           liquid == IF "liquid" \in Had THEN r.liquid ELSE t.liquid
<1>1. Read(r, Had, t) =
        [flags1 |-> flags1, flags2 |-> flags2, flags3 |-> flags3, type |-> type, frame_x |-> x,
         frame_y |-> y, colour |-> r.colour, wall |-> wall, wall_colour |-> r.wall_colour,
         liquid |-> liquid, copies |-> copies]
  BY DEF Read
<1> DEFINE g == Read(r, Had, t)
<1>2. /\ g.flags1 = flags1 /\ g.flags2 = flags2 /\ g.flags3 = flags3 /\ g.type = type
      /\ g.wall = wall /\ g.liquid = liquid /\ g.copies = copies
  <2> HIDE DEF flags1, flags2, flags3, type, wall, liquid, copies, x, y
  <2> QED BY <1>1
<1> QED BY <1>2

LEMMA ReadTakes ==
    ASSUME NEW r \in Records, WellSaved(r), NEW t \in Tiles, NEW Had
    PROVE  Takes(Read(r, Had, t), t, r) /\ Read(r, Had, t).copies <= r.copies
<1> DEFINE g == Read(r, Had, t)
<1>1. /\ g.flags1 = IF "flags1" \in Had THEN r.flags1 ELSE {}
      /\ g.flags2 = IF 0 \in g.flags1 /\ "flags2" \in Had THEN r.flags2 ELSE {}
      /\ g.wall = IF "wall" \in Had THEN r.wall ELSE t.wall
      /\ g.liquid = IF "liquid" \in Had THEN r.liquid ELSE t.liquid
      /\ g.copies = IF g.flags1 \cap {6, 7} # {} /\ "copies" \in Had THEN r.copies
                      ELSE (IF 6 \in g.flags1 THEN 1 ELSE 0) + (IF 7 \in g.flags1 THEN 2 ELSE 0)
  BY ReadIs
<1> HIDE DEF g
<1>2. Takes(g, t, r)
  BY <1>1 DEF Takes
<1>3. g.copies <= r.copies
  <2>1. r.copies \in Nat
    BY DEF Records
  <2>2. CASE g.flags1 \cap {6, 7} = {}
    BY <1>1, <2>1, <2>2
  <2>3. CASE g.flags1 \cap {6, 7} # {}
    <3>1. g.flags1 = r.flags1
      BY <1>1, <2>3
    <3>2. r.copies # 0 /\ (7 \in g.flags1 => r.copies > 2)
      BY <2>3, <3>1 DEF WellSaved
    <3>3. g.copies = IF "copies" \in Had THEN r.copies
                     ELSE (IF 6 \in g.flags1 THEN 1 ELSE 0) + (IF 7 \in g.flags1 THEN 2 ELSE 0)
      BY <1>1, <2>3
    <3> HIDE <1>1
    <3>4. 7 \in g.flags1 \/ 6 \in g.flags1
      BY <2>3
    <3>5. CASE "copies" \in Had
      BY <2>1, <3>3, <3>5
    <3>6. CASE "copies" \notin Had /\ 7 \notin g.flags1
      BY <2>1, <3>2, <3>3, <3>4, <3>6
    <3>7. CASE "copies" \notin Had /\ 7 \in g.flags1
      <4>1. g.copies <= 3 /\ r.copies > 2
        BY <3>2, <3>3, <3>7
      <4>2. g.copies \in {2, 3}
        BY <3>3, <3>7
      <4> QED BY <2>1, <4>1, <4>2
    <3> QED BY <3>5, <3>6, <3>7
  <2> QED BY <2>2, <2>3
<1> QED BY <1>2, <1>3 DEF g

LEMMA ReadTakesAll ==
    ASSUME NEW r \in Records, WellSaved(r), NEW t \in Tiles, NEW Had, Complete(Had, r)
    PROVE  /\ TakesAll(Read(r, Had, t), r)
           /\ Read(r, Had, t).copies = r.copies
<1> DEFINE g == Read(r, Had, t)
<1>1. /\ g.flags1 = IF "flags1" \in Had THEN r.flags1 ELSE {}
      /\ g.flags2 = IF 0 \in g.flags1 /\ "flags2" \in Had THEN r.flags2 ELSE {}
      /\ g.flags3 = IF 0 \in g.flags2 /\ "flags3" \in Had THEN r.flags3 ELSE {}
      /\ g.type = IF "type" \in Had THEN r.type ELSE 0
      /\ g.wall = IF "wall" \in Had THEN r.wall ELSE t.wall
      /\ g.liquid = IF "liquid" \in Had THEN r.liquid ELSE t.liquid
      /\ g.copies = IF g.flags1 \cap {6, 7} # {} /\ "copies" \in Had THEN r.copies
                      ELSE (IF 6 \in g.flags1 THEN 1 ELSE 0) + (IF 7 \in g.flags1 THEN 2 ELSE 0)
  BY ReadIs
<1> HIDE DEF g
<1>2. g.flags1 = r.flags1
  BY <1>1 DEF Complete
<1>3. g.flags2 = r.flags2
  BY <1>1, <1>2 DEF Complete, WellSaved
<1>4. g.flags3 = r.flags3
  BY <1>1, <1>3 DEF Complete, WellSaved
<1>5. g.type = r.type
  BY <1>1 DEF Complete, WellSaved
<1>6. /\ WallFlag \in g.flags1 => g.wall = r.wall
      /\ g.flags1 \cap {3, 4} # {} => g.liquid = r.liquid
  BY <1>1, <1>2 DEF Complete
<1>7. g.copies = r.copies
  <2>1. CASE g.flags1 \cap {6, 7} = {}
    BY <1>1, <1>2, <2>1 DEF WellSaved
  <2>2. CASE g.flags1 \cap {6, 7} # {}
    <3>1. "copies" \in Had
      BY <1>2, <2>2 DEF WellSaved, Complete
    <3> QED BY <1>1, <2>2, <3>1
  <2> QED BY <2>1, <2>2
<1> QED BY <1>2, <1>3, <1>4, <1>5, <1>6, <1>7 DEF TakesAll, g

LEMMA NothingTakes ==
    ASSUME NEW t, NEW r, NEW Had
    PROVE  Takes(Read(Nothing, Had, t), t, r) /\ Read(Nothing, Had, t).copies = 0
<1> DEFINE g == Read(Nothing, Had, t)
<1>1. g.flags1 = {} /\ g.flags2 = {} /\ g.copies = 0
  <2>1. Nothing.flags1 = {} /\ Nothing.flags2 = {}
    BY DEF Nothing
  <2>2. /\ g.flags1 = IF "flags1" \in Had THEN Nothing.flags1 ELSE {}
        /\ g.flags2 = IF 0 \in g.flags1 /\ "flags2" \in Had THEN Nothing.flags2 ELSE {}
        /\ g.copies = IF g.flags1 \cap {6, 7} # {} /\ "copies" \in Had THEN Nothing.copies
                        ELSE (IF 6 \in g.flags1 THEN 1 ELSE 0) + (IF 7 \in g.flags1 THEN 2 ELSE 0)
    BY ReadIs
  <2> HIDE DEF g
  <2>3. g.flags1 = {}
    BY <2>1, <2>2
  <2>4. g.flags2 = {} /\ g.copies = 0
    BY <2>2, <2>3
  <2> QED BY <2>3, <2>4
<1> HIDE DEF g
<1>2. Takes(g, t, r)
  BY <1>1 DEF Takes
<1> QED BY <1>1, <1>2 DEF g

\* All the fields of a record are there when the file has their number.
LEMMA WholeIsComplete ==
    ASSUME NEW r, r = NextRecord, parts \in Nat, file.end \in Nat,
           parts + Len(FieldsOf(r)) <= file.end
    PROVE  Complete(Present, r)
<1> DEFINE all == FieldsOf(r)
<1>1. all \in Seq(RecordFields)
  BY FieldsAreComplete
<1>2. Present = {all[k] : k \in {j \in DOMAIN all : parts + j <= file.end}}
  BY DEF Present
<1>3. parts + Len(all) <= file.end
  OBVIOUS
<1> HIDE DEF all
<1>4. Present = Listed(all)
  BY <1>1, <1>2, <1>3 DEF Listed
<1> QED BY <1>4, FieldsAreComplete DEF all

SentFields == {"flags1", "flags2", "flags3", "type", "wall", "liquid"}

\* The bits that tile_pack looks for, in a tile of the loader.
LEMMA NoPaint ==
    ASSUME NEW t, Unpainted(t)
    PROVE  /\ tile_colour(t) = {} /\ tile_wall_colour(t) = {} /\ ~ tile_wire4(t)
           /\ ~ tile_lava(t) /\ ~ tile_honey(t) /\ ~ tile_half_brick(t)
           /\ SlopeFlags(t) = {}
           /\ LiquidFlags(t) = IF t.liquid = 0 THEN {} ELSE {3}
<1>1. t.s_tile_header \subseteq {5, 6, 7, 8, 9, 11} /\ t.b_tile_header = {}
  BY DEF Unpainted
<1>2. tile_colour(t) = {}
  BY <1>1 DEF tile_colour, ColourBits
<1>3. tile_wall_colour(t) = {} /\ ~ tile_wire4(t) /\ ~ tile_lava(t) /\ ~ tile_honey(t)
  BY <1>1 DEF tile_wall_colour, tile_wire4, tile_lava, tile_honey
<1>4. ~ tile_half_brick(t)
  BY <1>1 DEF tile_half_brick, HalfbrickBit
<1>5. SlopeFlags(t) = {}
  <2> DEFINE slope == {b - 12 : b \in t.s_tile_header \cap SlopeBits}
  <2>1. t.s_tile_header \cap SlopeBits = {}
    BY <1>1 DEF SlopeBits
  <2>2. slope = {}
    BY <2>1
  <2>3. SlopeFlags(t) =
          CASE slope = {} -> {}
            [] slope # {} /\ 0 \notin slope -> {4} \cup {b + 4 : b \in slope}
            [] 0 \in slope /\ 1 \notin slope -> {5} \cup {b + 4 : b \in slope \ {0}}
            [] slope = {0, 1} -> {6}
            [] OTHER -> {7}
    BY <1>4 DEF SlopeFlags
  <2> QED BY <2>2, <2>3
<1>6. LiquidFlags(t) = IF t.liquid = 0 THEN {} ELSE {3}
  BY <1>3 DEF LiquidFlags
<1> QED BY <1>2, <1>3, <1>4, <1>5, <1>6

\* What tile_pack makes of such a tile, field by field, but for the frames.
Packs(packed, t) ==
    /\ packed.flags3 = (IF tile_actuator(t) THEN {ActuatorFlag} ELSE {})
                       \cup (IF tile_inactive(t) THEN {InactiveFlag} ELSE {})
    /\ packed.flags2 = {w \in WireFlags : tile_wire(t, w)}
                       \cup (IF packed.flags3 # {} THEN {0} ELSE {})
    /\ packed.flags1 = (IF tile_active(t) THEN {ActiveFlag} ELSE {})
                       \cup (IF tile_active(t) /\ t.type > MaxByteType THEN {ShortFlag} ELSE {})
                       \cup (IF t.wall # 0 THEN {WallFlag} ELSE {})
                       \cup (IF t.liquid = 0 THEN {} ELSE {3})
                       \cup (IF packed.flags2 # {} THEN {0} ELSE {})
    /\ packed.type = IF tile_active(t) THEN t.type ELSE 0
    /\ packed.wall = t.wall /\ packed.liquid = t.liquid

LEMMA PackIs ==
    ASSUME NEW t, Unpainted(t), NEW frames
    PROVE  /\ Packs(tile_pack(t, frames), t)
           /\ tile_pack(t, frames).frames \in {<< t.frame_x, t.frame_y >>, << >>}
<1> DEFINE a3 == (IF tile_actuator(t) THEN {ActuatorFlag} ELSE {})
                 \cup (IF tile_inactive(t) THEN {InactiveFlag} ELSE {})
           a2 == {w \in WireFlags : tile_wire(t, w)} \cup (IF a3 # {} THEN {0} ELSE {})
           a1 == (IF tile_active(t) THEN {ActiveFlag} ELSE {})
                 \cup (IF tile_active(t) /\ t.type > MaxByteType THEN {ShortFlag} ELSE {})
                 \cup (IF t.wall # 0 THEN {WallFlag} ELSE {})
                 \cup (IF t.liquid = 0 THEN {} ELSE {3})
                 \cup (IF a2 # {} THEN {0} ELSE {})
           c3 == a3 \cup (IF tile_active(t) /\ tile_colour(t) # {} THEN {ColourFlag} ELSE {})
                 \cup (IF t.wall # 0 /\ tile_wall_colour(t) # {} THEN {WallColourFlag} ELSE {})
                 \cup (IF tile_wire4(t) THEN {5} ELSE {})
           c2 == {w \in WireFlags : tile_wire(t, w)} \cup SlopeFlags(t)
                 \cup (IF c3 # {} THEN {0} ELSE {})
           c1 == (IF tile_active(t) THEN {ActiveFlag} ELSE {})
                 \cup (IF tile_active(t) /\ t.type > MaxByteType THEN {ShortFlag} ELSE {})
                 \cup (IF t.wall # 0 THEN {WallFlag} ELSE {})
                 \cup LiquidFlags(t)
                 \cup (IF c2 # {} THEN {0} ELSE {})
           ty == IF tile_active(t) THEN t.type ELSE 0
           fr == IF tile_active(t) /\ frames THEN << t.frame_x, t.frame_y >> ELSE << >>
<1>1. tile_pack(t, frames) = [flags1 |-> c1, flags2 |-> c2, flags3 |-> c3, type |-> ty, frames |-> fr,
                              wall |-> t.wall, liquid |-> t.liquid]
  BY DEF tile_pack
<1>2. c3 = a3
  <2> HIDE DEF a3
  <2>1. tile_colour(t) = {} /\ tile_wall_colour(t) = {} /\ ~ tile_wire4(t)
    BY NoPaint
  <2> QED BY <2>1
<1>3. c2 = a2
  <2> HIDE DEF a3, c3
  <2>1. SlopeFlags(t) = {}
    BY NoPaint
  <2> QED BY <1>2, <2>1
<1>4. c1 = a1
  <2> HIDE DEF a2, c2
  <2>1. LiquidFlags(t) = IF t.liquid = 0 THEN {} ELSE {3}
    BY NoPaint
  <2> QED BY <1>3, <2>1
<1> DEFINE packed == tile_pack(t, frames)
<1>5. /\ packed.flags1 = c1 /\ packed.flags2 = c2 /\ packed.flags3 = c3 /\ packed.type = ty
      /\ packed.frames = fr /\ packed.wall = t.wall /\ packed.liquid = t.liquid
  <2> HIDE DEF c1, c2, c3, ty, fr
  <2> QED BY <1>1
<1> HIDE DEF packed, c1, c2, c3
<1>6. packed.flags2 = a2 /\ packed.flags3 = a3 /\ packed.flags1 = a1
  BY <1>2, <1>3, <1>4, <1>5
<1>7. packed.flags2 = {w \in WireFlags : tile_wire(t, w)} \cup (IF packed.flags3 # {} THEN {0} ELSE {})
  BY <1>6
<1>8. packed.flags1 = (IF tile_active(t) THEN {ActiveFlag} ELSE {})
                      \cup (IF tile_active(t) /\ t.type > MaxByteType THEN {ShortFlag} ELSE {})
                      \cup (IF t.wall # 0 THEN {WallFlag} ELSE {})
                      \cup (IF t.liquid = 0 THEN {} ELSE {3})
                      \cup (IF packed.flags2 # {} THEN {0} ELSE {})
  <2> HIDE DEF a2
  <2> QED BY <1>6
<1>9. Packs(packed, t)
  <2> HIDE DEF a2, a3
  <2>1. packed.flags3 = (IF tile_actuator(t) THEN {ActuatorFlag} ELSE {})
                        \cup (IF tile_inactive(t) THEN {InactiveFlag} ELSE {})
    BY <1>6 DEF a3
  <2> QED BY <1>5, <1>7, <1>8, <2>1 DEF Packs
<1>10. packed.frames \in {<< t.frame_x, t.frame_y >>, << >>}
  BY <1>5
<1> QED BY <1>9, <1>10 DEF packed

\* A loaded tile is packed with all that its record has.
LEMMA PackedHasSaved ==
    ASSUME NEW t, NEW r \in Records, Unpainted(t), IsLoaded(t, r), WellSaved(r),
           NEW packed, Packs(packed, t)
    PROVE  HasSaved(packed, r)
<1>1. ActiveFlag \in r.flags1 => tile_active(t) /\ ActiveFlag \in packed.flags1
  BY DEF IsLoaded, Packs
<1>2. WallFlag \in r.flags1 => t.wall = r.wall /\ WallFlag \in packed.flags1
  BY DEF IsLoaded, WellSaved, Packs
<1>3. ShortFlag \in r.flags1 => ShortFlag \in packed.flags1
  <2> SUFFICES ASSUME ShortFlag \in r.flags1 PROVE ShortFlag \in packed.flags1
    OBVIOUS
  <2>1. r.type > MaxByteType /\ t.type = r.type
    BY DEF IsLoaded, WellSaved
  <2>2. ActiveFlag \in r.flags1
    BY <2>1, FilesAssumption DEF WellSaved
  <2> QED BY <1>1, <2>1, <2>2 DEF Packs
<1>4. ActiveFlag \in r.flags1 => packed.type = r.type
  BY <1>1 DEF IsLoaded, Packs
<1>5. WallFlag \in r.flags1 => packed.wall = r.wall
  BY <1>2 DEF Packs
<1>6. r.flags1 \cap {3, 4} # {} => packed.flags1 \cap {3, 4} # {} /\ packed.liquid = r.liquid
  <2> SUFFICES ASSUME r.flags1 \cap {3, 4} # {}
               PROVE  packed.flags1 \cap {3, 4} # {} /\ packed.liquid = r.liquid
    OBVIOUS
  <2>1. t.liquid = r.liquid /\ t.liquid # 0
    BY DEF IsLoaded, WellSaved
  <2>2. 3 \in packed.flags1 /\ packed.liquid = t.liquid
    BY <2>1 DEF Packs
  <2> QED BY <2>1, <2>2
<1>7. packed.flags3 \cap {ActuatorFlag, InactiveFlag} = r.flags3 \cap {ActuatorFlag, InactiveFlag}
  BY DEF IsLoaded, Packs
<1>8. r.flags2 \ {0} # {} => packed.flags2 \cap WireFlags = r.flags2 \cap WireFlags
  <2> SUFFICES ASSUME r.flags2 \ {0} # {}
               PROVE  packed.flags2 \cap WireFlags = r.flags2 \cap WireFlags
    OBVIOUS
  <2>1. \A w \in WireFlags : tile_wire(t, w) <=> w \in r.flags2
    BY DEF IsLoaded
  <2>2. 0 \notin WireFlags
    BY DEF WireFlags
  <2> QED BY <2>1, <2>2 DEF Packs
<1> QED BY <1>1, <1>2, <1>3, <1>4, <1>5, <1>6, <1>7, <1>8 DEF HasSaved

\* And with nothing else when nothing but this file was ever loaded.
LEMMA PackedHasOnlySaved ==
    ASSUME NEW t, NEW r \in Records, Unpainted(t), IsLoaded(t, r), Keeps(t, r), WellSaved(r),
           NEW packed, Packs(packed, t)
    PROVE  HasOnlySaved(packed, r)
<1>1. ActiveFlag \in packed.flags1 => ActiveFlag \in r.flags1
  BY DEF Keeps, Packs, ActiveFlag, ShortFlag, WallFlag
<1>2. WallFlag \in packed.flags1 => WallFlag \in r.flags1
  BY DEF Keeps, Packs, WellSaved, ActiveFlag, ShortFlag, WallFlag
<1>3. ShortFlag \in packed.flags1 => ShortFlag \in r.flags1
  BY DEF IsLoaded, Packs, WellSaved, ActiveFlag, ShortFlag, WallFlag
<1>4. packed.flags1 \cap {3, 4} # {} => r.flags1 \cap {3, 4} # {}
  <2> SUFFICES ASSUME packed.flags1 \cap {3, 4} # {} PROVE r.flags1 \cap {3, 4} # {}
    OBVIOUS
  <2>1. t.liquid # 0
    BY DEF Packs, ActiveFlag, ShortFlag, WallFlag
  <2> QED BY <2>1 DEF Keeps, WellSaved
<1>5. packed.flags2 \cap WireFlags \subseteq r.flags2
  <2>1. 0 \notin WireFlags
    BY DEF WireFlags
  <2> QED BY <2>1 DEF Keeps, Packs
<1>6. packed.type \in {0, r.type} /\ packed.wall \in {0, r.wall} /\ packed.liquid \in {0, r.liquid}
  BY DEF Keeps, IsLoaded, Packs
<1> QED BY <1>1, <1>2, <1>3, <1>4, <1>5, <1>6 DEF HasOnlySaved

LEMMA SevenOfEight ==
    ASSUME NEW S, S \subseteq (1 .. 8) \ {5}
    PROVE  Cardinality(S) \in 0 .. 7
<1>1. 1 \in Int /\ 8 \in Int /\ 5 \in 1 .. 8
  OBVIOUS
<1>2. IsFiniteSet(1 .. 8) /\ Cardinality(1 .. 8) = 8 - 1 + 1
  <2>1. IsFiniteSet(1 .. 8) /\ Cardinality(1 .. 8) = IF 1 > 8 THEN 0 ELSE 8 - 1 + 1
    BY <1>1, FS_Interval
  <2> QED BY <2>1
<1>3. IsFiniteSet((1 .. 8) \ {5}) /\ Cardinality((1 .. 8) \ {5}) = Cardinality(1 .. 8) - 1
  BY <1>1, <1>2, FS_RemoveElement
<1>4. IsFiniteSet(S) /\ Cardinality(S) <= Cardinality((1 .. 8) \ {5})
  BY <1>3, FS_Subset
<1>5. Cardinality(S) \in Nat
  BY <1>4, FS_CardinalityType
<1> QED BY <1>2, <1>3, <1>4, <1>5

\* And it takes 12 bytes at most, even with its frame.
LEMMA PackedIsShort ==
    ASSUME NEW t, Unpainted(t)
    PROVE  tile_pack_completely(t, TRUE) \in 0 .. 12
<1> DEFINE packed == tile_pack(t, TRUE)
           conds == << 0 \in packed.flags1, 0 \in packed.flags2,
                       ActiveFlag \in packed.flags1, ShortFlag \in packed.flags1,
                       ColourFlag \in packed.flags3, packed.wall # 0,
                       WallColourFlag \in packed.flags3,
                       packed.liquid # 0 >>
           Counted == {k \in DOMAIN conds : conds[k]}
<1>1. ColourFlag \notin packed.flags3
  <2>1. Packs(packed, t)
    BY PackIs
  <2> HIDE DEF packed
  <2> QED BY <2>1 DEF Packs, ColourFlag, ActuatorFlag, InactiveFlag
<1>2. Len(packed.frames) \in {0, 2}
  <2>1. packed.frames \in {<< t.frame_x, t.frame_y >>, << >>}
    BY PackIs
  <2> HIDE DEF packed
  <2> QED BY <2>1
<1>3. tile_pack_completely(t, TRUE) = 1 + Cardinality(Counted) + 2 * Len(packed.frames)
  BY DEF tile_pack_completely, Count
<1>4. Counted \subseteq 1 .. 8 /\ 5 \notin Counted
  <2> HIDE DEF packed
  <2>1. DOMAIN conds = 1 .. 8 /\ conds[5] = (ColourFlag \in packed.flags3)
    OBVIOUS
  <2> QED BY <1>1, <2>1
<1> HIDE DEF Counted, packed
<1>5. Cardinality(Counted) \in 0 .. 7
  <2>1. Counted \subseteq (1 .. 8) \ {5}
    BY <1>4
  <2> QED BY <2>1, SevenOfEight
<1> DEFINE n == Cardinality(Counted)
           frames == Len(packed.frames)
           size == tile_pack_completely(t, TRUE)
<1>6. n \in 0 .. 7 /\ frames \in {0, 2} /\ size = 1 + n + 2 * frames
  BY <1>2, <1>3, <1>5
<1> HIDE DEF n, frames, size
<1>7. size \in 0 .. 12
  BY <1>6
<1> QED BY <1>7 DEF size

-----------------------------------------------------------------------------
(* The invariant of the load.  HeaderIInv has lemmas of its own; what an   *)
(* action leaves of the rest is in these.                                  *)

SectionsIInv == /\ DOMAIN sections \subseteq Positions
                /\ stops \in 0 .. MaxStops /\ replaced \in BOOLEAN

\* Of a server that was never stopped.
Ahead == stops = 0 => \A p \in Positions : tiles[p] # ZeroTile => Reached(p) /\ pc # "header"

LEMMA LoadParts ==
    LoadIInv <=> /\ HeaderIInv /\ FlagsIInv /\ LoopIInv /\ SectionsIInv /\ Ahead
                 /\ pc \in {"header", "tiles", "loaded", "failed", "served", "killed"}
                 /\ pc # "header" => result = "ok"
                 /\ tiles \in [Positions -> Tiles]
BY DEF LoadIInv, SectionsIInv, Ahead

LEMMA LoadPartsNext ==
    ASSUME HeaderIInv', FlagsIInv', LoopIInv', SectionsIInv', Ahead',
           pc' \in {"header", "tiles", "loaded", "failed", "served", "killed"},
           pc' # "header" => result' = "ok",
           tiles' \in [Positions -> Tiles]
    PROVE  LoadIInv'
BY DEF LoadIInv, SectionsIInv, Ahead

LEMMA FlagsStay ==
    ASSUME FlagsIInv, file' = file, UNCHANGED flagVars
    PROVE  FlagsIInv'
<1>1. i' = i /\ flag2' = flag2 /\ consumed' = consumed /\ important' = important
  BY DEF flagVars
<1> QED BY <1>1 DEF FlagsIInv

LEMMA LoopStays ==
    ASSUME LoopIInv, UNCHANGED loopVars, pc' = pc \/ pc' \in {"failed", "served", "killed"}
    PROVE  LoopIInv'
<1>1. column' = column /\ row' = row /\ record' = record /\ parts' = parts
  BY DEF loopVars
<1> QED BY <1>1 DEF LoopIInv

LEMMA SectionsStay ==
    ASSUME SectionsIInv, UNCHANGED << sections, stops, replaced >>
    PROVE  SectionsIInv'
BY DEF SectionsIInv, Positions

\* What was reached stays so until the server is stopped.
LEMMA AheadStays ==
    ASSUME Ahead, UNCHANGED << loopVars, tiles, stops >>,
           pc' = pc \/ (pc = "header" /\ pc' = "tiles") \/ pc' \in {"served", "killed"}
    PROVE  Ahead'
<1>1. column' = column /\ row' = row /\ tiles' = tiles /\ stops' = stops
  BY DEF loopVars
<1>2. ASSUME NEW p \in Positions, Reached(p), pc # "header" PROVE Reached(p)' /\ pc' # "header"
  BY <1>1, <1>2 DEF Reached
<1> QED BY <1>1, <1>2 DEF Ahead, Positions

LEMMA InitLoads == Init => LoadIInv
<1> SUFFICES ASSUME Init PROVE LoadIInv
  OBVIOUS
<1>1. HeaderIInv
  <2>1. 0 \in 0 .. MaxFaults
    BY HeaderAssumption
  <2> QED BY <2>1, Begins DEF Init, HeaderInit
<1>2. file.types \in Nat
  BY <1>1, FileType DEF HeaderIInv
<1>3. FlagsIInv
  <2>1. i = 0 /\ flag2 = 7 /\ consumed = 0 /\ important = [t \in {} |-> FALSE]
    BY DEF Init
  <2>2. 0 .. 0 - 1 = {}
    OBVIOUS
  <2>3. important \in [0 .. 0 - 1 -> BOOLEAN]
    BY <2>1, <2>2
  <2> QED BY <1>2, <2>1, <2>3 DEF FlagsIInv
<1>4. LoopIInv
  BY FilesAssumption DEF Init, LoopIInv
<1>5. SectionsIInv
  <2>1. DOMAIN sections = {} /\ replaced \in BOOLEAN
    BY DEF Init
  <2>2. stops \in 0 .. MaxStops
    BY FilesAssumption DEF Init
  <2> QED BY <2>1, <2>2 DEF SectionsIInv
<1>6. ZeroTile \in Tiles
  BY DEF ZeroTile, Tiles
<1>7. tiles \in [Positions -> Tiles] /\ Ahead
  BY <1>6 DEF Init, Ahead
<1> QED BY <1>1, <1>3, <1>4, <1>5, <1>7, LoadParts DEF Init

LEMMA LoadReadImportant == ASSUME LoadIInv, HeaderIInv', ReadImportant PROVE LoadIInv'
<1>1. file' = file /\ result' = result /\ pc' = pc /\ tiles' = tiles /\ UNCHANGED << loopVars, sections, stops, replaced >>
  BY DEF ReadImportant, headerVars
<1>2. FlagsIInv'
  <2>1. /\ i \in 0 .. file.types /\ flag2 \in 0 .. 7 /\ consumed \in Nat
        /\ i + 7 = 8 * consumed + flag2 /\ file.types \in Nat /\ i < file.types
    BY FileType, LoadParts DEF FlagsIInv, HeaderIInv, ReadImportant
  <2>2. /\ i' = i + 1
        /\ flag2' = IF flag2 # 7 THEN flag2 + 1 ELSE 0
        /\ consumed' = IF flag2 # 7 THEN consumed ELSE consumed + 1
    BY DEF ReadImportant
  <2>3. important' \in [0 .. i' - 1 -> BOOLEAN]
    <3>1. ASSUME NEW t \in 0 .. i
          PROVE  (IF t = i THEN flag2' \in FlagByte(consumed') ELSE important[t]) \in BOOLEAN
      <4>1. CASE t = i
        BY <4>1
      <4>2. CASE t # i
        <5>1. t \in 0 .. i - 1
          BY <2>1, <4>2
        <5>2. important \in [0 .. i - 1 -> BOOLEAN]
          BY LoadParts DEF FlagsIInv
        <5> QED BY <4>2, <5>1, <5>2
      <4> QED BY <4>1, <4>2
    <3>2. important' = [t \in 0 .. i |-> IF t = i THEN flag2' \in FlagByte(consumed')
                                         ELSE important[t]]
      BY DEF ReadImportant
    <3>3. i' - 1 = i
      BY <2>1, <2>2
    <3> QED BY <3>1, <3>2, <3>3
  <2>4. /\ i' \in 0 .. file'.types /\ flag2' \in 0 .. 7 /\ consumed' \in Nat
        /\ i' + 7 = 8 * consumed' + flag2'
    BY <1>1, <2>1, <2>2
  <2> QED BY <2>3, <2>4 DEF FlagsIInv
<1> QED BY <1>1, <1>2, LoadParts, LoadPartsNext, LoopStays, SectionsStay, AheadStays

LEMMA LoadReadHeader == ASSUME LoadIInv, HeaderIInv', ReadHeader PROVE LoadIInv'
<1>1. /\ pc = "header" /\ pc' = pc /\ tiles' = tiles /\ UNCHANGED << flagVars, loopVars, sections, stops, replaced >>
  BY DEF ReadHeader
<1>2. file' = file
  BY DEF ReadHeader, HeaderNext, binary_reader_new, binary_reader_open, NotInVersion, StopEarly,
         ReadBytes, ReadFlags, ReadWide, ReadMetadata, ReadString, ReadArray, ReadAnglers, HeaderDone
<1> QED BY <1>1, <1>2, LoadParts, LoadPartsNext, FlagsStay, LoopStays, SectionsStay, AheadStays

LEMMA LoadStartTiles == ASSUME LoadIInv, HeaderIInv', StartTiles PROVE LoadIInv'
<1>1. /\ file' = file /\ pc = "header" /\ tiles' = tiles
      /\ UNCHANGED << flagVars, loopVars, sections, stops, replaced >>
      /\ result = "ok" /\ ((pc' = "tiles" /\ result' = result) \/ pc' = pc)
  BY DEF StartTiles
<1>2. LoopIInv'
  <2>1. column' = column /\ row' = row /\ record' = record /\ parts' = parts
    BY <1>1 DEF loopVars
  <2>2. LoopIInv
    BY LoadParts
  <2> QED BY <1>1, <2>1, <2>2, FilesAssumption DEF LoopIInv
<1>3. FlagsIInv' /\ SectionsIInv' /\ Ahead'
  BY <1>1, LoadParts, FlagsStay, SectionsStay, AheadStays
<1>4. tiles' \in [Positions -> Tiles]
  BY <1>1, LoadParts
<1> QED BY <1>1, <1>2, <1>3, <1>4, LoadParts, LoadPartsNext

\* The tile and the record that are next.
LEMMA TileNow ==
    ASSUME LoadIInv, pc = "tiles", NEW Had
    PROVE  /\ <<column, row>> \in Positions
           /\ tiles[<<column, row>>] \in Tiles
           /\ Read(NextRecord, Had, tiles[<<column, row>>]) \in Records
<1>1. column \in 0 .. MaxTilesX - 1 /\ row \in 0 .. MaxTilesY - 1
  BY LoadParts, FilesAssumption DEF LoopIInv
<1>2. <<column, row>> \in Positions
  BY <1>1 DEF Positions
<1>3. tiles[<<column, row>>] \in Tiles
  BY <1>2, LoadParts
<1>4. NextRecord \in Records
  BY NextRecordIs, LoadParts, FilesAssumption DEF LoopIInv, HeaderIInv
<1> QED BY <1>2, <1>3, <1>4, ReadGives

LEMMA LoadReadTile == ASSUME LoadIInv, HeaderIInv', ReadTile PROVE LoadIInv'
<1> DEFINE Had  == Present
           here == tiles[<<column, row>>]
           g    == Read(NextRecord, Had, here)
           tile == LoadTile(g, here, Had)
<1>1. /\ pc = "tiles" /\ file' = file /\ result' = result
      /\ UNCHANGED << flagVars, sections, stops, replaced >>
      /\ tiles' = [p \in Positions |-> IF p \in Run(g.copies) THEN tile ELSE tiles[p]]
      /\ Advance(g.copies)
      /\ parts' = parts + Len(FieldsOf(NextRecord))
  BY DEF ReadTile, headerVars
<1>2. tile \in Tiles /\ g.copies \in Nat
  <2>1. here \in Tiles /\ g \in Records
    BY <1>1, TileNow
  <2> HIDE DEF g, here, Had
  <2>2. g.copies \in Nat
    BY <2>1 DEF Records
  <2> QED BY <2>1, <2>2, LoadTileKeeps
<1> DEFINE copies == g.copies
<1>3. /\ copies \in Nat /\ Advance(copies)
      /\ tiles' = [p \in Positions |-> IF p \in Run(copies) THEN tile ELSE tiles[p]]
  BY <1>1, <1>2
<1> HIDE DEF tile, copies, g, here, Had
<1>4. /\ column \in Nat /\ column < MaxTilesX /\ row \in 0 .. MaxTilesY - 1 /\ record \in Nat \ {0}
      /\ parts \in Nat /\ MaxTilesX \in Nat \ {0} /\ MaxTilesY \in Nat \ {0}
  BY <1>1, LoadParts, FilesAssumption DEF LoopIInv
<1>5. \/ /\ row + copies + 1 < MaxTilesY /\ row' = row + copies + 1 /\ record' = record + 1
         /\ column' = column /\ pc' = pc
      \/ /\ row' = 0 /\ record' = 1 /\ column' = column + 1 /\ MaxTilesY <= row + copies + 1
         /\ pc' = IF column + 1 = MaxTilesX THEN "loaded" ELSE "tiles"
  BY <1>3, <1>4 DEF Advance
<1>6. pc' \in {"tiles", "loaded"} /\ result' = "ok"
  BY <1>1, <1>5, LoadParts
<1>7. LoopIInv'
  <2>1. parts' \in Nat
    <3>1. Len(FieldsOf(NextRecord)) \in Nat
      BY HasAField
    <3> QED BY <1>1, <1>4, <3>1
  <2>2. column' \in 0 .. MaxTilesX /\ row' \in 0 .. MaxTilesY - 1 /\ record' \in Nat \ {0}
    BY <1>3, <1>4, <1>5
  <2>3. pc' = "tiles" => column' < MaxTilesX
    BY <1>1, <1>4, <1>5
  <2> QED BY <1>6, <2>1, <2>2, <2>3 DEF LoopIInv
<1>8. tiles' \in [Positions -> Tiles]
  BY <1>2, <1>3, LoadParts
<1>9. Ahead'
  <2> SUFFICES ASSUME stops = 0, NEW p \in Positions, tiles'[p] # ZeroTile PROVE Reached(p)'
    BY <1>1, <1>6 DEF Ahead, Positions
  <2>1. p[1] \in Nat /\ p[2] \in 0 .. MaxTilesY - 1
    BY FilesAssumption DEF Positions
  <2>2. p[1] < column \/ (p[1] = column /\ p[2] < row) \/ (p[1] = column /\ p[2] <= row + copies)
    <3>1. CASE p \in Run(copies)
      BY <1>3, <1>4, <3>1 DEF Run
    <3>2. CASE p \notin Run(copies)
      <4>1. tiles[p] # ZeroTile
        BY <1>3, <3>2
      <4> QED BY <1>1, <4>1, LoadParts DEF Ahead, Reached
    <3> QED BY <3>1, <3>2
  <2>3. p[1] < column' \/ (p[1] = column' /\ p[2] < row')
    BY <1>3, <1>4, <1>5, <2>1, <2>2
  <2> QED BY <2>3 DEF Reached
<1> QED BY <1>1, <1>6, <1>7, <1>8, <1>9, LoadParts, LoadPartsNext, FlagsStay, SectionsStay

LEMMA LoadReadTileFails == ASSUME LoadIInv, HeaderIInv', ReadTileFails PROVE LoadIInv'
<1> DEFINE Had  == Present
           here == tiles[<<column, row>>]
           g    == Read(NextRecord, Had, here)
           tile == [WithType(g, here, Had) EXCEPT !.frame_x = g.frame_x]
<1>1. /\ pc = "tiles" /\ pc' = "failed" /\ file' = file /\ result' = result
      /\ UNCHANGED << flagVars, loopVars, sections, stops, replaced >>
      /\ tiles' = [tiles EXCEPT ![<<column, row>>] = tile]
  BY DEF ReadTileFails, headerVars
<1>2. tile \in Tiles
  <2>1. here \in Tiles /\ g \in Records
    BY <1>1, TileNow
  <2> HIDE DEF g, here, Had
  <2>2. WithType(g, here, Had) \in Tiles /\ g.frame_x \in Int
    BY <2>1, WithTypeKeeps DEF Records
  <2> QED BY <2>2 DEF Tiles
<1> HIDE DEF tile, g, here, Had
<1>3. tiles' \in [Positions -> Tiles]
  BY <1>1, <1>2, LoadParts
<1>4. Ahead'
  <2> SUFFICES ASSUME stops = 0, NEW p \in Positions, tiles'[p] # ZeroTile PROVE Reached(p)'
    BY <1>1 DEF Ahead, Positions
  <2>1. column' = column /\ row' = row
    BY <1>1 DEF loopVars
  <2>2. p = <<column, row>> \/ Reached(p)
    <3>1. tiles \in [Positions -> Tiles]
      BY LoadParts
    <3>2. p = <<column, row>> \/ tiles'[p] = tiles[p]
      BY <1>1, <3>1
    <3> QED BY <3>2, LoadParts DEF Ahead
  <2> QED BY <1>1, <2>1, <2>2 DEF Reached
<1>5. result' = "ok"
  BY <1>1, LoadParts
<1> QED BY <1>1, <1>3, <1>4, <1>5, LoadParts, LoadPartsNext, FlagsStay, LoopStays, SectionsStay

LEMMA LoadInitSections ==
    ASSUME LoadIInv, HeaderIInv', NEW n \in 0 .. MaxTilesX, InitSections(n)
    PROVE  LoadIInv'
<1>1. /\ file' = file /\ result' = result /\ pc \in {"loaded", "failed"} /\ pc' = "served"
      /\ tiles' = tiles /\ UNCHANGED << flagVars, loopVars, stops, replaced >>
      /\ DOMAIN sections' \subseteq Positions
  BY DEF InitSections
<1>2. SectionsIInv'
  BY <1>1, LoadParts DEF SectionsIInv, Positions
<1> QED BY <1>1, <1>2, LoadParts, LoadPartsNext, FlagsStay, LoopStays, AheadStays

LEMMA LoadInitSectionsRaises ==
    ASSUME LoadIInv, HeaderIInv', InitSectionsRaises
    PROVE  LoadIInv'
<1>1. /\ file' = file /\ result' = result /\ pc \in {"loaded", "failed"} /\ pc' = "killed"
      /\ tiles' = tiles /\ UNCHANGED << flagVars, loopVars, sections, stops, replaced >>
  BY DEF InitSectionsRaises, headerVars
<1> QED BY <1>1, LoadParts, LoadPartsNext, FlagsStay, LoopStays, SectionsStay, AheadStays

LEMMA LoadShutdown == ASSUME LoadIInv, HeaderIInv', Shutdown PROVE LoadIInv'
<1>1. /\ file' = file /\ result' = result /\ pc' = pc /\ tiles' = tiles
      /\ UNCHANGED << flagVars, loopVars, sections, stops, replaced >>
  BY DEF Shutdown, FreeReader
<1> QED BY <1>1, LoadParts, LoadPartsNext, FlagsStay, LoopStays, SectionsStay, AheadStays

LEMMA LoadRestart == ASSUME LoadIInv, HeaderIInv', Restart PROVE LoadIInv'
<1>1. tiles' = tiles /\ pc' = "header"
  BY DEF Restart
<1>2. FlagsIInv'
  <2>1. i' = 0 /\ flag2' = 7 /\ consumed' = 0 /\ important' = [t \in {} |-> FALSE]
    BY DEF Restart
  <2>2. 0 .. 0 - 1 = {} /\ file'.types \in Nat
    BY HeaderAssumption DEF HeaderIInv, HeaderTypeOK
  <2>3. important' \in [0 .. 0 - 1 -> BOOLEAN]
    BY <2>1, <2>2
  <2> QED BY <1>1, <2>1, <2>2, <2>3 DEF FlagsIInv
<1>3. LoopIInv'
  BY FilesAssumption DEF Restart, LoopIInv
<1>4. SectionsIInv' /\ stops' # 0
  BY LoadParts, FilesAssumption DEF Restart, SectionsIInv
<1>5. Ahead'
  BY <1>4 DEF Ahead
<1> QED BY <1>1, <1>2, <1>3, <1>4, <1>5, LoadParts, LoadPartsNext

LEMMA LoadStays == ASSUME LoadIInv, HeaderIInv', UNCHANGED vars PROVE LoadIInv'
<1>1. /\ file' = file /\ result' = result /\ pc' = pc /\ tiles' = tiles
      /\ UNCHANGED << flagVars, loopVars, sections, stops, replaced >>
  BY DEF vars, headerVars
<1> QED BY <1>1, LoadParts, LoadPartsNext, FlagsStay, LoopStays, SectionsStay, AheadStays

LEMMA LoadsHold == Spec => []LoadIInv
<1>1. Spec => []HeaderIInv
  BY HeadersHold
<1>2. LoadIInv /\ HeaderIInv' /\ [Next]_vars => LoadIInv'
  BY LoadReadImportant, LoadReadHeader, LoadStartTiles, LoadReadTile, LoadReadTileFails,
     LoadInitSections, LoadInitSectionsRaises, LoadShutdown, LoadRestart, LoadStays DEF Next
<1> QED BY <1>1, <1>2, InitLoads, PTL DEF Spec

-----------------------------------------------------------------------------
(* Where the loader is in the file. *)

\* Where the loader is: at a record, or behind the end of the file.
LEMMA NextIs ==
    ASSUME SentIInv, pc = "tiles"
    PROVE  LET here == tiles[<< column, row >>]
               r    == Saved(<< column, row >>)
               g    == Read(NextRecord, Present, here)
               records == file.columns[column]
           IN /\ r \in Records /\ WellSaved(r) /\ (~ replaced => Keeps(here, r)) /\ Unpainted(here)
              /\ Takes(g, here, r)
              /\ \A p \in Run(g.copies) : Saved(p) = r
              /\ parts + Len(FieldsOf(NextRecord)) <= file.end =>
                    /\ record \in 1 .. Len(records) /\ r = records[record]
                    /\ row = FirstRow(records)[record]
                    /\ TakesAll(g, r) /\ g.copies = r.copies
<1> DEFINE here == tiles[<< column, row >>]
           r    == Saved(<< column, row >>)
           Had  == Present
           g    == Read(NextRecord, Had, here)
           records == file.columns[column]
           F == FirstRow(records)
           len == Len(FieldsOf(NextRecord))
<1>1. /\ LoadIInv /\ file \in Files /\ << column, row >> \in Positions /\ here \in Tiles
      /\ column \in 0 .. MaxTilesX - 1 /\ row \in 0 .. MaxTilesY - 1 /\ record \in Nat \ {0}
      /\ parts \in Nat /\ file.end \in Nat /\ MaxTilesY \in Nat
  <2>1. LoadIInv /\ HeaderIInv /\ LoopIInv
    BY LoadParts DEF SentIInv
  <2>2. file \in Files
    BY <2>1 DEF HeaderIInv
  <2>3. << column, row >> \in Positions /\ here \in Tiles
    BY <2>1, TileNow
  <2>4. MaxTilesX \in Nat /\ MaxTilesY \in Nat /\ file.end \in Nat
    BY <2>2, FilesAssumption
  <2>5. column \in 0 .. MaxTilesX - 1
    BY <2>1, <2>4 DEF LoopIInv
  <2> QED BY <2>1, <2>2, <2>3, <2>4, <2>5 DEF LoopIInv
<1>2. r \in Records /\ WellSaved(r) /\ (~ replaced => Keeps(here, r)) /\ Unpainted(here)
  BY <1>1, SavedKnown DEF SentIInv
<1>3. records \in Seq(Records) /\ DOMAIN records = 1 .. Len(records)
  BY <1>1, ColumnKnown
<1>4. parts <= file.end => record \in 1 .. Len(records) /\ row = F[record]
  <2>1. parts <= file.end => record \in DOMAIN records /\ row = F[record]
    BY DEF SentIInv, AtRecord
  <2> QED BY <1>3, <2>1
<1>5. len \in Nat \ {0}
  BY HasAField
<1>6. CASE AtEnd
  <2>1. NextRecord = Nothing
    BY <1>6 DEF NextRecord
  <2>2. Takes(g, here, r) /\ g.copies = 0
    BY <2>1, NothingTakes
  <2>3. \A p \in Run(g.copies) : p = << column, row >>
    <3> HIDE DEF g
    <3> SUFFICES ASSUME NEW p \in Run(0) PROVE p = << column, row >>
      BY <2>2
    <3>1. p \in Positions /\ p[1] = column /\ p[2] \in row .. row + 0
      BY DEF Run
    <3>2. p = << p[1], p[2] >>
      BY <3>1 DEF Positions
    <3>3. p[2] = row
      BY <1>1, <3>1
    <3> QED BY <3>1, <3>2, <3>3
  <2>4. parts >= file.end
    <3> HIDE DEF records, F
    <3>1. parts >= file.end \/ record > Len(records)
      BY <1>6 DEF AtEnd, records
    <3> QED BY <1>1, <1>3, <1>4, <3>1
  <2>5. ~ (parts + len <= file.end)
    <3> HIDE DEF len
    <3> QED BY <1>1, <1>5, <2>4
  <2> QED BY <1>2, <2>2, <2>3, <2>5
<1>7. CASE ~ AtEnd
  <2>1. parts <= file.end /\ NextRecord = records[record]
    <3>1. NextRecord = records[record]
      BY <1>7 DEF NextRecord
    <3>2. parts <= file.end
      BY <1>1, <1>7 DEF AtEnd
    <3> QED BY <3>1, <3>2
  <2>2. record \in 1 .. Len(records) /\ row = F[record]
    BY <1>4, <2>1
  <2>3. /\ F[record] \in Nat /\ records[record].copies \in Nat
        /\ records[record] \in Records /\ WellSaved(records[record])
    <3>1. F[record] \in Nat /\ records[record].copies \in Nat
      BY <1>3, <2>2, RowsType
    <3>2. records[record] \in Records /\ WellSaved(records[record])
      BY <1>1, <2>2, ColumnKnown
    <3> QED BY <3>1, <3>2
  <2>4. ASSUME NEW y \in Nat, row <= y, y <= row + records[record].copies
        PROVE  Saved(<< column, y >>) = records[record]
    BY <1>1, <2>2, <2>4, SavedIs
  <2>5. r = records[record]
    <3>1. row \in Nat /\ row <= row /\ row <= row + records[record].copies
      BY <2>2, <2>3
    <3> QED BY <2>4, <3>1
  <2>6. Takes(g, here, r) /\ g.copies <= r.copies
    BY <1>1, <2>1, <2>3, <2>5, ReadTakes
  <2>7. g.copies \in Nat
    BY <1>1, <2>1, <2>3, ReadGives DEF Records
  <2>8. ASSUME NEW p \in Run(g.copies) PROVE Saved(p) = r
    <3>1. p \in Positions /\ p[1] = column /\ p[2] \in row .. row + g.copies
      BY DEF Run
    <3>2. p = << column, p[2] >>
      BY <3>1 DEF Positions
    <3> HIDE DEF g, r, records
    <3>3. p[2] \in Nat /\ row <= p[2] /\ p[2] <= row + records[record].copies
      <4>1. row \in Nat
        BY <1>1
      <4> QED BY <2>3, <2>5, <2>6, <2>7, <3>1, <4>1
    <3>4. Saved(<< column, p[2] >>) = records[record]
      BY <2>4, <3>3
    <3> QED BY <2>5, <3>2, <3>4
  <2>9. ASSUME parts + len <= file.end PROVE TakesAll(g, r) /\ g.copies = r.copies
    <3>1. Complete(Had, r)
      BY <1>1, <2>1, <2>5, <2>9, WholeIsComplete
    <3> QED BY <1>1, <2>1, <2>3, <2>5, <3>1, ReadTakesAll
  <2> QED BY <1>2, <2>2, <2>5, <2>6, <2>8, <2>9
<1> QED BY <1>6, <1>7

-----------------------------------------------------------------------------
(* The invariant of what is sent. *)

AllUnpainted == \A p \in Positions : Unpainted(tiles[p])
AllKept   == ~ replaced => \A p \in Positions : Keeps(tiles[p], Saved(p))
AllLoaded == \A p \in Done : IsLoaded(tiles[p], Saved(p))

LEMMA SentParts == SentIInv <=> LoadIInv /\ AtRecord /\ Packed /\ AllUnpainted /\ AllKept /\ AllLoaded
BY DEF SentIInv, AllUnpainted, AllKept, AllLoaded

LEMMA SentPartsNext ==
    ASSUME LoadIInv', AtRecord', Packed', AllUnpainted', AllKept', AllLoaded'
    PROVE  SentIInv'
BY DEF SentIInv, AllUnpainted, AllKept, AllLoaded

LEMMA SavedStays == ASSUME file' = file PROVE \A p : Saved(p)' = Saved(p)
BY DEF Saved

LEMMA KeptStays ==
    ASSUME AllKept, UNCHANGED << file, tiles >>, ~ replaced' => ~ replaced
    PROVE  AllKept'
BY SavedStays DEF AllKept, Positions

LEMMA UnpaintedStays == ASSUME AllUnpainted, tiles' = tiles PROVE AllUnpainted'
BY DEF AllUnpainted, Positions

LEMMA LoadedStays ==
    ASSUME AllLoaded, UNCHANGED << file, tiles, loopVars >>
    PROVE  AllLoaded'
<1>1. column' = column /\ row' = row /\ parts' = parts /\ tiles' = tiles /\ file' = file
  BY DEF loopVars
<1>2. Done' = Done
  BY <1>1 DEF Done, Positions
<1> QED BY <1>1, <1>2, SavedStays DEF AllLoaded

LEMMA AtRecordStays ==
    ASSUME AtRecord, UNCHANGED << file, loopVars >>, pc' = pc \/ pc' \in {"failed", "served", "killed"}
    PROVE  AtRecord'
<1>1. column' = column /\ row' = row /\ parts' = parts /\ record' = record /\ file' = file
  BY DEF loopVars
<1> QED BY <1>1 DEF AtRecord

LEMMA PackedStays ==
    ASSUME Packed, UNCHANGED << sections, tiles >>, pc' = pc \/ pc # "served"
    PROVE  Packed'
BY DEF Packed

LEMMA InitSends == Init => SentIInv
<1> SUFFICES ASSUME Init PROVE SentIInv
  OBVIOUS
<1>1. AtRecord /\ Packed
  BY DEF Init, AtRecord, Packed
<1>2. \A r : Keeps(ZeroTile, r)
  BY DEF Keeps, ZeroTile, tile_active, tile_wire
<1>3. AllKept /\ AllUnpainted
  <2>1. Unpainted(ZeroTile)
    BY DEF Unpainted, ZeroTile
  <2> QED BY <1>2, <2>1 DEF Init, AllKept, AllUnpainted
<1>4. Done = {}
  <2>1. column = 0 /\ row = 0
    BY DEF Init
  <2>2. \A p \in Positions : ~ (p[1] < 0) /\ ~ (p[2] < 0)
    BY FilesAssumption DEF Positions
  <2> QED BY <2>1, <2>2 DEF Done
<1> QED BY <1>1, <1>3, <1>4, InitLoads, SentParts DEF AllLoaded

LEMMA SentReadImportant == ASSUME SentIInv, LoadIInv', ReadImportant PROVE SentIInv'
<1>1. pc' = pc /\ UNCHANGED << file, loopVars, tiles, sections, replaced >>
  BY DEF ReadImportant, headerVars
<1> QED BY <1>1, SentParts, SentPartsNext, AtRecordStays, PackedStays, UnpaintedStays, KeptStays, LoadedStays

LEMMA SentReadHeader == ASSUME SentIInv, LoadIInv', ReadHeader PROVE SentIInv'
<1>1. pc' = pc /\ UNCHANGED << loopVars, tiles, sections, replaced >>
  BY DEF ReadHeader
<1>2. file' = file
  BY DEF ReadHeader, HeaderNext, binary_reader_new, binary_reader_open, NotInVersion, StopEarly,
         ReadBytes, ReadFlags, ReadWide, ReadMetadata, ReadString, ReadArray, ReadAnglers, HeaderDone
<1> QED BY <1>1, <1>2, SentParts, SentPartsNext, AtRecordStays, PackedStays, UnpaintedStays, KeptStays, LoadedStays

LEMMA SentStartTiles == ASSUME SentIInv, LoadIInv', StartTiles PROVE SentIInv'
<1>1. pc = "header" /\ pc' \in {"header", "tiles"} /\ UNCHANGED << file, loopVars, tiles, sections, replaced >>
  BY DEF StartTiles
<1>2. column' = 0 /\ row' = 0 /\ record' = 1 /\ parts' = 0
  BY <1>1, SentParts DEF AtRecord, loopVars
<1>3. 1 \in DOMAIN file.columns[0] /\ FirstRow(file.columns[0])[1] = 0
  <2>1. file \in Files /\ 0 \in 0 .. MaxTilesX - 1
    BY SentParts, LoadParts, FilesAssumption DEF HeaderIInv
  <2> DEFINE records == file.columns[0]
  <2>2. records \in Seq(Records) /\ records # << >>
    BY <2>1, ColumnKnown
  <2> HIDE DEF records
  <2>3. FirstRow(records)[1] = 0 /\ 1 \in DOMAIN records
    BY <2>2, FirstRowSteps
  <2> QED BY <2>3 DEF records
<1>4. AtRecord'
  BY <1>1, <1>2, <1>3 DEF AtRecord
<1> QED BY <1>1, <1>4, SentParts, SentPartsNext, PackedStays, UnpaintedStays, KeptStays, LoadedStays

LEMMA SentShutdown == ASSUME SentIInv, LoadIInv', Shutdown PROVE SentIInv'
<1>1. pc' = pc /\ UNCHANGED << file, loopVars, tiles, sections, replaced >>
  BY DEF Shutdown, FreeReader
<1> QED BY <1>1, SentParts, SentPartsNext, AtRecordStays, PackedStays, UnpaintedStays, KeptStays, LoadedStays

LEMMA SentStays == ASSUME SentIInv, LoadIInv', UNCHANGED vars PROVE SentIInv'
<1>1. pc' = pc /\ UNCHANGED << file, loopVars, tiles, sections, replaced >>
  BY DEF vars, headerVars
<1> QED BY <1>1, SentParts, SentPartsNext, AtRecordStays, PackedStays, UnpaintedStays, KeptStays, LoadedStays

LEMMA SentRestart == ASSUME SentIInv, LoadIInv', Restart PROVE SentIInv'
<1>1. /\ tiles' = tiles /\ pc' = "header" /\ DOMAIN sections' = {}
      /\ ~ replaced' => ~ replaced /\ file' = file
      /\ column' = 0 /\ row' = 0 /\ record' = 1 /\ parts' = 0
  BY DEF Restart
<1>2. AtRecord' /\ Packed'
  BY <1>1 DEF AtRecord, Packed
<1>3. Done' = {}
  <2>1. \A p \in Positions : ~ (p[1] < 0) /\ ~ (p[2] < 0)
    BY FilesAssumption DEF Positions
  <2> QED BY <1>1, <2>1 DEF Done, Positions
<1>4. AllLoaded'
  BY <1>3 DEF AllLoaded
<1>5. AllKept'
  <2>1. CASE replaced'
    BY <2>1 DEF AllKept
  <2>2. CASE ~ replaced'
    BY <1>1, <2>2, SentParts, KeptStays
  <2> QED BY <2>1, <2>2
<1> QED BY <1>1, <1>2, <1>4, <1>5, SentParts, SentPartsNext, UnpaintedStays

\* The frames make no difference to the other fields of a packed tile.
LEMMA FramesApart ==
    ASSUME NEW t, Unpainted(t), NEW frames, NEW none
    PROVE  \A f \in SentFields : tile_pack(t, frames)[f] = tile_pack(t, none)[f]
<1> DEFINE one == tile_pack(t, frames)
           two == tile_pack(t, none)
<1>1. Packs(one, t)
  BY PackIs
<1>2. Packs(two, t)
  BY PackIs
<1> HIDE DEF one, two
<1>3. /\ one.flags3 = two.flags3 /\ one.flags2 = two.flags2 /\ one.flags1 = two.flags1
      /\ one.type = two.type /\ one.wall = two.wall /\ one.liquid = two.liquid
  BY <1>1, <1>2 DEF Packs
<1>4. \A f \in SentFields : one[f] = two[f]
  BY <1>3 DEF SentFields
<1> QED BY <1>4 DEF one, two

LEMMA SentInitSections ==
    ASSUME SentIInv, LoadIInv', NEW n \in 0 .. MaxTilesX, InitSections(n)
    PROVE  SentIInv'
<1>1. pc' = "served" /\ UNCHANGED << file, loopVars, tiles, replaced >>
  BY DEF InitSections
<1> DEFINE S == {q \in Positions : q[1] < n}
<1>2. PICK table : sections' = [p \in S |-> tile_pack(tiles[p], table[tiles[p].type])]
  BY DEF InitSections
<1>3. ASSUME NEW p \in S, NEW f \in SentFields
      PROVE  sections'[p][f] = tile_pack(tiles[p], FALSE)[f]
  <2>1. sections'[p] = tile_pack(tiles[p], table[tiles[p].type])
    BY <1>2
  <2>2. Unpainted(tiles[p])
    BY SentParts DEF AllUnpainted
  <2> DEFINE t == tiles[p]
             frames == table[tiles[p].type]
             none == FALSE
  <2> HIDE DEF t, frames, none
  <2>3. \A g \in SentFields : tile_pack(t, frames)[g] = tile_pack(t, none)[g]
    BY <2>2, FramesApart DEF t
  <2> QED BY <2>1, <2>3 DEF t, frames, none
<1>4. DOMAIN sections' = S
  BY <1>2
<1>5. Packed'
  <2> HIDE DEF S
  <2> QED BY <1>1, <1>3, <1>4 DEF Packed, SentFields
<1> QED BY <1>1, <1>5, SentParts, SentPartsNext, AtRecordStays, UnpaintedStays, KeptStays, LoadedStays

LEMMA SentInitSectionsRaises == ASSUME SentIInv, LoadIInv', InitSectionsRaises PROVE SentIInv'
<1>1. /\ pc \in {"loaded", "failed"} /\ pc' = "killed"
      /\ UNCHANGED << file, loopVars, tiles, sections, replaced >>
  BY DEF InitSectionsRaises, headerVars
<1> QED BY <1>1, SentParts, SentPartsNext, AtRecordStays, PackedStays, UnpaintedStays, KeptStays, LoadedStays

LEMMA SentReadTileFails == ASSUME SentIInv, LoadIInv', ReadTileFails PROVE SentIInv'
<1> DEFINE here == tiles[<< column, row >>]
           r    == Saved(<< column, row >>)
           Had  == Present
           g    == Read(NextRecord, Had, here)
           tile == [WithType(g, here, Had) EXCEPT !.frame_x = g.frame_x]
<1>1. /\ pc = "tiles" /\ pc' = "failed" /\ UNCHANGED << file, loopVars, sections, replaced >>
      /\ tiles' = [tiles EXCEPT ![<< column, row >>] = tile]
  BY DEF ReadTileFails, headerVars
<1>2. (~ replaced => Keeps(here, r)) /\ Unpainted(here) /\ Takes(g, here, r)
  BY <1>1, NextIs
<1>3. << column, row >> \in Positions /\ here \in Tiles /\ g \in Records
  BY <1>1, TileNow, SentParts
<1>4. (~ replaced => Keeps(tile, r)) /\ Unpainted(tile)
  <2> HIDE DEF here, r, Had, g
  <2>1. g.frame_x \in Int
    BY <1>3 DEF Records
  <2> QED BY <1>2, <1>3, <2>1, FailKeeps, FailUnpainted
<1> HIDE DEF tile
<1>5. AllKept' /\ AllUnpainted'
  <2> SUFFICES ASSUME NEW p \in Positions
               PROVE  (~ replaced => Keeps(tiles'[p], Saved(p))) /\ Unpainted(tiles'[p])
    BY <1>1, SavedStays DEF AllKept, AllUnpainted, Positions
  <2>1. tiles \in [Positions -> Tiles]
    BY SentParts, LoadParts
  <2> QED BY <1>1, <1>4, <2>1, SentParts DEF AllKept, AllUnpainted
<1>6. AllLoaded'
  <2>1. Done' = Done
    BY <1>1 DEF Done, Positions, loopVars
  <2>2. << column, row >> \notin Done
    BY SentParts, LoadParts, FilesAssumption DEF Done, LoopIInv
  <2>3. \A p \in Done : p \in Positions
    BY DEF Done
  <2>4. tiles \in [Positions -> Tiles]
    BY SentParts, LoadParts
  <2>5. ASSUME NEW p \in Done PROVE IsLoaded(tiles'[p], Saved(p)')
    <3>1. tiles'[p] = tiles[p]
      BY <1>1, <2>2, <2>3, <2>4
    <3> QED BY <1>1, <3>1, SavedStays, SentParts DEF AllLoaded
  <2> QED BY <2>1, <2>5 DEF AllLoaded
<1>7. AtRecord' /\ Packed'
  <2>1. DOMAIN sections' = {}
    BY <1>1, SentParts DEF Packed
  <2> QED BY <1>1, <2>1 DEF AtRecord, Packed
<1> QED BY <1>5, <1>6, <1>7, SentPartsNext

LEMMA SentReadTile == ASSUME SentIInv, LoadIInv', ReadTile PROVE SentIInv'
<1> DEFINE here == tiles[<< column, row >>]
           r    == Saved(<< column, row >>)
           Had  == Present
           g    == Read(NextRecord, Had, here)
           tile == LoadTile(g, here, Had)
           len  == Len(FieldsOf(NextRecord))
           records == file.columns[column]
<1>1. /\ pc = "tiles" /\ file' = file /\ sections' = sections /\ replaced' = replaced
      /\ ~ TypeFails(g, Had)
      /\ tiles' = [p \in Positions |-> IF p \in Run(g.copies) THEN tile ELSE tiles[p]]
      /\ Advance(g.copies)
      /\ parts' = parts + len
  BY DEF ReadTile, headerVars
<1>2. /\ r \in Records /\ WellSaved(r) /\ Takes(g, here, r)
      /\ ~ replaced => Keeps(here, r)
      /\ Unpainted(here)
      /\ \A p \in Run(g.copies) : Saved(p) = r
      /\ parts + len <= file.end => /\ record \in 1 .. Len(records) /\ r = records[record]
                                    /\ row = FirstRow(records)[record]
                                    /\ TakesAll(g, r) /\ g.copies = r.copies
  BY <1>1, NextIs
<1>3. here \in Tiles /\ g \in Records
  BY <1>1, TileNow, SentParts
<1>4. (~ replaced => Keeps(tile, r)) /\ Unpainted(tile) /\ (TakesAll(g, r) => IsLoaded(tile, r))
  <2> HIDE DEF here, r, Had, g
  <2> QED BY <1>1, <1>2, <1>3, LoadKeeps, LoadUnpainted, LoadLoads
<1> DEFINE copies == g.copies
<1>5. copies \in Nat
  <2> HIDE DEF g
  <2> QED BY <1>3 DEF Records
<1>6. len \in Nat
  BY HasAField
<1>7. /\ column \in Nat /\ column < MaxTilesX /\ row \in 0 .. MaxTilesY - 1 /\ record \in Nat \ {0}
      /\ parts \in Nat /\ MaxTilesX \in Nat \ {0} /\ MaxTilesY \in Nat \ {0} /\ file \in Files
      /\ file.end \in Nat
  <2>1. LoopIInv /\ file \in Files
    BY SentParts, LoadParts DEF HeaderIInv
  <2> QED BY <1>1, <2>1, FilesAssumption DEF LoopIInv
<1>8. /\ tiles' = [p \in Positions |-> IF p \in Run(copies) THEN tile ELSE tiles[p]]
      /\ \A p \in Run(copies) : Saved(p) = r
      /\ parts + len <= file.end => TakesAll(g, r) /\ copies = r.copies
      /\ Advance(copies)
  BY <1>1, <1>2
<1> HIDE DEF copies, tile, here, Had, g, len
<1>9. \/ /\ row + copies + 1 < MaxTilesY /\ row' = row + copies + 1 /\ record' = record + 1
         /\ column' = column /\ pc' = pc
      \/ /\ row' = 0 /\ record' = 1 /\ column' = column + 1 /\ MaxTilesY <= row + copies + 1
         /\ pc' = IF column + 1 = MaxTilesX THEN "loaded" ELSE "tiles"
  BY <1>5, <1>7, <1>8 DEF Advance
<1>10. AllKept' /\ AllUnpainted'
  <2> SUFFICES ASSUME NEW p \in Positions
               PROVE  (~ replaced => Keeps(tiles'[p], Saved(p))) /\ Unpainted(tiles'[p])
    BY <1>1, SavedStays DEF AllKept, AllUnpainted, Positions
  <2> HIDE DEF r
  <2> QED BY <1>4, <1>8, SentParts DEF AllKept, AllUnpainted
<1>11. AllLoaded'
  <2> SUFFICES ASSUME NEW p \in Done' PROVE IsLoaded(tiles'[p], Saved(p))
    BY <1>1, SavedStays DEF AllLoaded
  <2>1. /\ p \in Positions /\ parts + len <= file.end
        /\ p[1] < column' \/ (p[1] = column' /\ p[2] < row')
    BY <1>1 DEF Done, Positions
  <2>2. p[1] \in Nat /\ p[2] \in 0 .. MaxTilesY - 1
    BY <1>7, <2>1 DEF Positions
  <2>3. CASE p \in Run(copies)
    <3> HIDE DEF r
    <3> QED BY <1>4, <1>8, <2>1, <2>3
  <2>4. CASE p \notin Run(copies)
    <3>1. ~ (p[1] = column /\ row <= p[2] /\ p[2] <= row + copies)
      BY <1>5, <1>7, <2>1, <2>2, <2>4 DEF Run
    <3>2. p[1] < column \/ (p[1] = column /\ p[2] < row)
      BY <1>5, <1>7, <1>9, <2>1, <2>2, <3>1
    <3>3. p \in Done
      <4>1. parts <= file.end
        BY <1>6, <1>7, <2>1
      <4> QED BY <2>1, <3>2, <4>1 DEF Done
    <3> QED BY <1>8, <2>1, <2>4, <3>3, SentParts DEF AllLoaded
  <2> QED BY <2>3, <2>4
<1>12. AtRecord'
  <2> SUFFICES ASSUME pc' = "tiles", parts' <= file.end
               PROVE  record' \in DOMAIN file.columns[column'] /\ row' = FirstRow(file.columns[column'])[record']
    <3>1. pc' \in {"tiles", "loaded"}
      BY <1>1, <1>9
    <3> QED BY <1>1, <3>1 DEF AtRecord
  <2> DEFINE F == FirstRow(records)
  <2>1. /\ record \in 1 .. Len(records) /\ row = F[record] /\ copies = records[record].copies
    BY <1>1, <1>2, <1>8
  <2>2. /\ records \in Seq(Records) /\ records # << >> /\ DOMAIN records = 1 .. Len(records)
        /\ F[Len(records)] + records[Len(records)].copies + 1 = MaxTilesY
    BY <1>7, ColumnKnown
  <2>3. CASE row + copies + 1 < MaxTilesY /\ row' = row + copies + 1 /\ record' = record + 1 /\ column' = column
    <3>1. record # Len(records)
      BY <1>5, <1>7, <2>1, <2>2, <2>3
    <3>2. record + 1 \in 2 .. Len(records) /\ (record + 1) - 1 = record
      BY <2>1, <3>1
    <3>3. F[record + 1] = F[record] + records[record].copies + 1
      BY <2>2, <3>2, FirstRowSteps
    <3> HIDE DEF records, F
    <3>4. record + 1 \in DOMAIN records /\ row + copies + 1 = F[record + 1]
      BY <2>1, <2>2, <3>2, <3>3
    <3> QED BY <2>3, <3>4 DEF F, records
  <2>4. CASE row' = 0 /\ record' = 1 /\ column' = column + 1 /\ column + 1 < MaxTilesX
    <3> DEFINE next == file.columns[column + 1]
    <3>1. column + 1 \in 0 .. MaxTilesX - 1
      BY <1>7, <2>4
    <3>2. next \in Seq(Records) /\ next # << >>
      BY <1>7, <3>1, ColumnKnown
    <3> HIDE DEF next
    <3>3. FirstRow(next)[1] = 0 /\ 1 \in DOMAIN next
      BY <3>2, FirstRowSteps
    <3> QED BY <2>4, <3>3 DEF next
  <2> QED BY <1>7, <1>9, <2>3, <2>4
<1>13. Packed'
  <2>1. DOMAIN sections' = {}
    BY <1>1, SentParts DEF Packed
  <2> QED BY <2>1 DEF Packed
<1> QED BY <1>10, <1>11, <1>12, <1>13, SentPartsNext

LEMMA SentHolds == Spec => []SentIInv
<1>1. SentIInv /\ LoadIInv' /\ [Next]_vars => SentIInv'
  BY SentReadImportant, SentReadHeader, SentStartTiles, SentReadTile, SentReadTileFails,
     SentInitSections, SentInitSectionsRaises, SentShutdown, SentRestart, SentStays DEF Next
<1> QED BY <1>1, InitSends, LoadsHold, PTL DEF Spec

-----------------------------------------------------------------------------
(* The theorems. *)

\* Of every file, whatever its version, each field of the headers is read from
\* its own place (world.c:403-930).
THEOREM FieldsInPlace == Spec => []ReadsAsWritten
<1>1. HeaderIInv => ReadsAsWritten
  BY DEF HeaderIInv, Reading, Finished, ReadsAsWritten
<1> QED BY <1>1, HeadersHold, PTL

\* A file is refused exactly when a field that a read notices is missing
\* (world.c:403-930).
THEOREM CutOffFilesRefused == Spec => []RefusedIffCutOff
<1>1. HeaderIInv => RefusedIffCutOff
  BY DEF HeaderIInv, Finished, RefusedIffCutOff
<1> QED BY <1>1, HeadersHold, PTL

\* The strings of the headers are freed on every way out of them, but for the
\* seed where the number behind it is missing (world.c:450-458).
THEOREM NamesAreFreed == Spec => []StringsAreFreed
<1>1. HeaderIInv => StringsAreFreed
  BY DEF HeaderIInv, Finished, StringsAreFreed
<1> QED BY <1>1, HeadersHold, PTL

\* A load of a server that was never stopped touches no tile that it has not
\* come to, of worlds of any size and files of any records; and the types of
\* the variables (world.c:369-392).
THEOREM NothingAheadIsTouched == Spec => []NothingAhead
<1>1. LoadIInv => NothingAhead
  <2> SUFFICES ASSUME LoadIInv PROVE NothingAhead
    OBVIOUS
  <2>1. /\ HeaderIInv /\ FlagsIInv /\ LoopIInv /\ SectionsIInv /\ Ahead
        /\ pc \in {"header", "tiles", "loaded", "failed", "served", "killed"}
        /\ pc # "header" => result = "ok"
        /\ tiles \in [Positions -> Tiles]
    BY LoadParts
  <2>2. consumed \in 0 .. FlagBytes
    <3>1. file.types \in Nat
      BY <2>1, FileType DEF HeaderIInv
    <3>2. /\ i \in Int /\ i <= file.types /\ flag2 \in 0 .. 7 /\ consumed \in Nat
          /\ i + 7 = 8 * consumed + flag2
      BY <2>1, <3>1 DEF FlagsIInv
    <3>3. 8 * consumed <= file.types + 7
      BY <3>1, <3>2
    <3> QED BY <3>1, <3>2, <3>3 DEF FlagBytes
  <2>3. \A p \in Positions : tiles[p].s_tile_header \subseteq 0 .. 15
    BY <2>1 DEF Tiles
  <2>4. TypeOK
    <3>1. HeaderTypeOK
      BY <2>1 DEF HeaderIInv
    <3>2. DOMAIN tiles = Positions
      BY <2>1
    <3> QED BY <2>1, <2>2, <2>3, <3>1, <3>2 DEF TypeOK, FlagsIInv, LoopIInv, SectionsIInv
  <2> QED BY <2>1, <2>4 DEF NothingAhead, Ahead
<1> QED BY <1>1, LoadsHold, PTL

\* Every tile that was loaded is sent with all that it was saved with, but for its
\* frames, colours and slope and the kind of a liquid, whatever was in the tile map;
\* with nothing else, unless another file was loaded into the map; and the tiles of
\* a row fit in the memory the compressor has for them (world.c:102-124 and
\* :198-392, tile.c:395-499, world_section.c:48-83).
THEOREM TilesAreSentAsSaved == Spec => []SentAsSaved
<1>1. SentIInv => SentAsSaved
  <2> SUFFICES ASSUME SentIInv PROVE SentAsSaved
    OBVIOUS
  <2>1. file \in Files
    BY SentParts, LoadParts DEF HeaderIInv
  <2>2. ASSUME NEW p \in Done
        PROVE  LET packed == IF p \in DOMAIN sections THEN sections[p] ELSE tile_pack(tiles[p], FALSE)
               IN HasSaved(packed, Saved(p)) /\ (~ replaced => HasOnlySaved(packed, Saved(p)))
    <3> DEFINE t == tiles[p]
               r == Saved(p)
               packed == IF p \in DOMAIN sections THEN sections[p] ELSE tile_pack(t, FALSE)
    <3>1. p \in Positions
      BY DEF Done
    <3>2. Unpainted(t) /\ IsLoaded(t, r) /\ (~ replaced => Keeps(t, r))
      BY <3>1, SentParts DEF AllUnpainted, AllKept, AllLoaded
    <3>3. r \in Records /\ WellSaved(r)
      BY <2>1, <3>1, SavedKnown
    <3>4. \A f \in SentFields : packed[f] = tile_pack(t, FALSE)[f]
      BY SentParts DEF Packed, SentFields
    <3> HIDE DEF t, r, packed
    <3>5. Packs(tile_pack(t, FALSE), t)
      BY <3>2, PackIs
    <3>6. Packs(packed, t)
      <4> DEFINE plain == tile_pack(t, FALSE)
      <4>1. Packs(plain, t)
        BY <3>5
      <4>2. \A f \in SentFields : packed[f] = plain[f]
        BY <3>4
      <4> HIDE DEF plain
      <4>3. /\ packed.flags1 = plain.flags1 /\ packed.flags2 = plain.flags2
            /\ packed.flags3 = plain.flags3 /\ packed.type = plain.type
            /\ packed.wall = plain.wall /\ packed.liquid = plain.liquid
        BY <4>2 DEF SentFields
      <4> QED BY <4>1, <4>3 DEF Packs
    <3>7. HasSaved(packed, r) /\ (~ replaced => HasOnlySaved(packed, r))
      BY <3>2, <3>3, <3>6, PackedHasSaved, PackedHasOnlySaved
    <3> QED BY <3>7 DEF t, r, packed
  <2>3. ASSUME NEW p \in Positions
        PROVE  12 + WORLD_SECTION_WIDTH * tile_pack_completely(tiles[p], TRUE) <= 13 * WORLD_SECTION_WIDTH
    <3> DEFINE size == tile_pack_completely(tiles[p], TRUE)
    <3>1. Unpainted(tiles[p])
      BY SentParts DEF AllUnpainted
    <3>2. size \in 0 .. 12
      BY <3>1, PackedIsShort
    <3> HIDE DEF size
    <3>3. 12 + WORLD_SECTION_WIDTH * size <= 13 * WORLD_SECTION_WIDTH
      BY <3>2 DEF WORLD_SECTION_WIDTH
    <3> QED BY <3>3 DEF size
  <2> QED BY <2>2, <2>3 DEF SentAsSaved
<1> QED BY <1>1, SentHolds, PTL

=============================================================================
