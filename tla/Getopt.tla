-------------------------------- MODULE Getopt --------------------------------
(***************************************************************************)
(* The scanner of the command line, src/getopt.c: getopt as the OPTIONS of *)
(* src/main.c want it, and _getopt_internal with long options as well,     *)
(* without a choice of the ordering in the option string and without       *)
(* long_only.  Each call is a step.  It permutes argv as it goes, so that  *)
(* in the end the operands come last; Scan says what the caller should get *)
(* out of a command line that stays as it is.                              *)
(*                                                                         *)
(* An element of argv is the sequence of its characters.  argv maps each   *)
(* place to the number of the element that is there: its place at first.   *)
(***************************************************************************)
EXTENDS Integers, Sequences, SequencesExt, FiniteSetsExt

CONSTANTS Words,        \* what the user may type between two spaces,
          LongWords,    \* to a program with long options
          MaxArgc,      \* bound on argc
          Flags,        \* the characters of OPTIONS that stand alone,
          WithArgument, \* those that are followed by a colon,
          MayHave,      \* and those that are followed by two
          LongOptions   \* [name, has_arg, val] of each, without a flag

Done == "end"        \* -1

\* "W" is in OPTIONS only as "W;", and no option is mistaken for the end.
ASSUME GetoptAssumption ==
    /\ MaxArgc \in Nat \ {0}
    /\ Words \cup LongWords \subseteq Seq(STRING)
    /\ Flags \cup WithArgument \cup MayHave \subseteq STRING \ {"W", Done}
    /\ {Flags \cap WithArgument, Flags \cap MayHave, WithArgument \cap MayHave} = {{}}
    /\ LongOptions \in Seq([name : Seq(STRING), has_arg : 0 .. 2, val : STRING \ {Done}])

VARIABLES
    typed,          \* the command line
    ordering,
    long,           \* the program has long options, and "W;" in its OPTIONS
    argv,
    optind, first_nonopt, last_nonopt,
    nextchar,       \* the element and the place in it, or NoChar
    results         \* what getopt has returned, with optarg

getoptVars == << typed, ordering, long, argv, optind, first_nonopt, last_nonopt, nextchar, results >>

Orderings == {"PERMUTE", "REQUIRE_ORDER"}

NoChar == << 0, 0 >>
argc   == Len(typed) + 1

NONOPTION_P(e) == Len(typed[e]) <= 1 \/ typed[e][1] # "-"

Ended == results # << >> /\ Last(results).c = Done

-----------------------------------------------------------------------------
(* The names of long options.  A place is an element and a character in it. *)

\* The first "=" from a place on, or the end.
nameend(at) ==
    LET e == typed[at[1]] IN
    CHOOSE k \in at[2] .. Len(e) + 1 : /\ k > Len(e) \/ e[k] = "="
                                       /\ \A l \in at[2] .. k - 1 : e[l] # "="

\* The number of the option that is meant: by its name, or by the beginning of
\* one name only; 0 for no option.  Options that do the same are not ambiguous
\* unless they come with -W.
Ambiguous == -1

pfound(at, W) ==
    LET name  == SubSeq(typed[at[1]], at[2], nameend(at) - 1)
        found == {i \in DOMAIN LongOptions : IsPrefix(name, LongOptions[i].name)}
        exact == {i \in found : LongOptions[i].name = name}
        Same(i, k) == LongOptions[i].has_arg = LongOptions[k].has_arg
                      /\ LongOptions[i].val = LongOptions[k].val
    IN  IF found = {} THEN 0
        ELSE IF exact # {} THEN Min(exact)
        ELSE IF \A i \in found : i = Min(found) \/ (~ W /\ Same(i, Min(found))) THEN Min(found)
        ELSE Ambiguous

\* No -W comes with the beginning of several names: getopt.c:915 would pass over
\* an element more, that may be behind the last.
WIsUnambiguous ==
    \A e \in 1 .. Len(typed) : \A j \in 2 .. Len(typed[e]) :
        LET at == IF j < Len(typed[e]) THEN << e, j + 1 >> ELSE << e + 1, 1 >> IN
        typed[e][j] = "W" /\ at[1] # argc => pfound(at, TRUE) # Ambiguous

-----------------------------------------------------------------------------
GetoptStart == /\ argv = [k \in 0 .. Len(typed) |-> k]
               /\ optind = 1 /\ first_nonopt = 1 /\ last_nonopt = 1
               /\ nextchar = NoChar

GetoptInit == /\ \/ typed \in SeqOf(Words, MaxArgc - 1) /\ long = FALSE
                 \/ typed \in SeqOf(LongWords, MaxArgc - 2) /\ long = TRUE
              /\ long => WIsUnambiguous
              /\ ordering \in Orderings
              /\ GetoptStart
              /\ results = << >>

\* Nothing is scanned.
GetoptIdle == /\ typed = << >> /\ ordering = "PERMUTE" /\ long = FALSE
              /\ GetoptStart
              /\ results = << [c |-> Done, optarg |-> NoChar] >>

-----------------------------------------------------------------------------
\* len elements from i on change places with those from j on.
Swapped(a, i, j, len) ==
    [k \in DOMAIN a |-> IF k \in i .. i + len - 1 THEN a[k - i + j]
                        ELSE IF k \in j .. j + len - 1 THEN a[k - j + i]
                        ELSE a[k]]

\* A round of the loop of exchange: the shorter of the operands in bottom ..
\* middle - 1 and the options in middle .. top - 1 goes to its place.
Round(r, middle) ==
    IF ~ (r.top > middle /\ middle > r.bottom) THEN r
    ELSE IF r.top - middle > middle - r.bottom
    THEN LET len == middle - r.bottom IN
         [r EXCEPT !.argv = Swapped(@, r.bottom, r.top - len, len), !.top = @ - len]
    ELSE LET len == r.top - middle IN
         [r EXCEPT !.argv = Swapped(@, r.bottom, middle, len), !.bottom = @ + len]

\* Every round brings at least one element to its place.
Exchange(a, bottom, middle, top) ==
    LET rounds[n \in Nat] == IF n = 0 THEN [argv |-> a, bottom |-> bottom, top |-> top]
                             ELSE Round(rounds[n - 1], middle)
    IN  rounds[top - bottom].argv

\* A mutant of exchange whose loop has one round only.
exchange_once(s) ==
    LET bottom == s.first  middle == s.last  top == s.optind
        len == IF top - middle > middle - bottom THEN middle - bottom ELSE top - middle
    IN  [s EXCEPT !.argv = Swapped(s.argv, bottom,
                                   IF top - middle > middle - bottom THEN top - len ELSE middle, len),
                  !.first = @ + (s.optind - s.last),
                  !.last = s.optind]

exchange(s) == [s EXCEPT !.argv = Exchange(s.argv, s.first, s.last, s.optind),
                         !.first = @ + (s.optind - s.last),
                         !.last = s.optind]

\* Options that follow skipped operands change places with them, and the
\* operands that come next are skipped as well.
Permute(s) ==
    LET moved == IF s.first # s.last /\ s.last # s.optind THEN exchange(s)
                 ELSE IF s.last # s.optind THEN [s EXCEPT !.first = s.optind]
                 ELSE s
        next  == CHOOSE k \in s.optind .. argc :
                   /\ k = argc \/ ~ NONOPTION_P(moved.argv[k])
                   /\ \A j \in s.optind .. k - 1 : NONOPTION_P(moved.argv[j])
    IN  [moved EXCEPT !.optind = next, !.last = next]

\* After "--" there are operands only.
EndOfOptions(s) ==
    IF s.optind # argc /\ typed[s.argv[s.optind]] = << "-", "-" >>
    THEN LET t == [s EXCEPT !.optind = @ + 1]
             u == IF t.first # t.last /\ t.last # t.optind THEN exchange(t)
                  ELSE IF t.first = t.last THEN [t EXCEPT !.first = t.optind]
                  ELSE t
         IN  [u EXCEPT !.last = argc, !.optind = argc]
    ELSE s

Update(s) == /\ argv' = s.argv /\ optind' = s.optind
             /\ first_nonopt' = s.first /\ last_nonopt' = s.last

Returns(c, arg) == results' = Append(results, [c |-> c, optarg |-> arg])

-----------------------------------------------------------------------------
(* Long options.                                                           *)

Answer(s, c, arg) == Update(s) /\ Returns(c, arg) /\ nextchar' = NoChar

\* The long option at a place, and its argument; optarg is what it is without.
Long(s, at, option, optarg) ==
    IF nameend(at) <= Len(typed[at[1]])
    THEN IF option.has_arg # 0 THEN Answer(s, option.val, << at[1], nameend(at) + 1 >>)
         ELSE Answer(s, "?", optarg)
    ELSE IF option.has_arg # 1 THEN Answer(s, option.val, optarg)
    ELSE IF s.optind = argc THEN Answer(s, "?", optarg)
    ELSE Answer([s EXCEPT !.optind = @ + 1], option.val, << s.argv[s.optind], 1 >>)

DecodeLong(s, at) ==
    LET i == pfound(at, FALSE)
        t == [s EXCEPT !.optind = @ + 1]
    IN  IF i \in {0, Ambiguous} THEN Answer(t, "?", NoChar)
        ELSE Long(t, at, LongOptions[i], NoChar)

\* -W with a long option at a place.  When it is ambiguous one element more is
\* passed over.
DecodeW(s, at) ==
    LET i == pfound(at, TRUE) IN
    IF i = 0 THEN Answer(s, "W", at)
    ELSE IF i = Ambiguous THEN Answer([s EXCEPT !.optind = @ + 1], "?", at)
    ELSE Long(s, at, LongOptions[i], at)

-----------------------------------------------------------------------------
\* The option character at place j of element e, with an argument: the rest of
\* the element, or the element that follows.  at is where optind is then.
Argument(s, e, j, at) ==
    LET c    == typed[e][j]
        last == j = Len(typed[e])
        next == [s EXCEPT !.optind = IF last /\ at = argc THEN at ELSE at + 1]
        arg  == IF last THEN << s.argv[at], 1 >> ELSE << e, j + 1 >>
    IN  IF last /\ c \in MayHave THEN Answer([s EXCEPT !.optind = at], c, NoChar)
        ELSE IF last /\ at = argc THEN Answer(next, "?", NoChar)
        ELSE IF c = "W" THEN DecodeW(next, arg)
        ELSE Answer(next, c, arg)

\* optind is at the element until its last character.
Decode(s, e, j) ==
    LET c  == typed[e][j]
        at == IF j = Len(typed[e]) THEN s.optind + 1 ELSE s.optind
    IN  IF c \in WithArgument \cup MayHave \/ (c = "W" /\ long) THEN Argument(s, e, j, at)
        ELSE /\ nextchar' = << e, j + 1 >>
             /\ Update([s EXCEPT !.optind = at])
             /\ Returns(IF c \in Flags THEN c ELSE "?", NoChar)

\* A call of getopt.
getopt ==
    /\ ~ Ended
    /\ LET s     == [argv |-> argv, optind |-> optind, first |-> first_nonopt, last |-> last_nonopt]
           found == EndOfOptions(IF ordering = "PERMUTE" THEN Permute(s) ELSE s)
       IN  IF nextchar # NoChar /\ nextchar[2] <= Len(typed[nextchar[1]])
           THEN Decode(s, nextchar[1], nextchar[2])
           ELSE IF found.optind = argc
           THEN /\ Update([found EXCEPT !.optind = IF found.first # found.last THEN found.first ELSE @])
                /\ Returns(Done, NoChar)
                /\ UNCHANGED nextchar
           ELSE IF NONOPTION_P(found.argv[found.optind])
           THEN Update(found) /\ Returns(Done, NoChar) /\ UNCHANGED nextchar
           ELSE LET e == found.argv[found.optind] IN
                IF long /\ typed[e][2] = "-" THEN DecodeLong(found, << e, 3 >>)
                ELSE Decode(found, e, 2)
    /\ UNCHANGED << typed, ordering, long >>

GetoptSpec == (GetoptInit \/ GetoptIdle) /\ [][getopt]_getoptVars

-----------------------------------------------------------------------------
(* What the command line says, read from left to right.                    *)

Places == (1 .. argc) \X (Nat \ {0})

Option(c, arg, rest) == [rest EXCEPT !.results = << [c |-> c, optarg |-> arg] >> \o @]

OperandsFrom(n) == [results  |-> << [c |-> Done, optarg |-> NoChar] >>,
                    operands |-> [k \in 1 .. argc - n |-> n + k - 1]]

\* In these f is what each place says.  The long option o that is named at a
\* place, before element n; optarg is none without an argument.
ReadLong(f, at, o, n, none) ==
    IF nameend(at) <= Len(typed[at[1]])
    THEN IF o.has_arg = 0 THEN Option("?", none, f[<< n, 1 >>])
         ELSE Option(o.val, << at[1], nameend(at) + 1 >>, f[<< n, 1 >>])
    ELSE IF o.has_arg # 1 THEN Option(o.val, none, f[<< n, 1 >>])
    ELSE IF n = argc THEN Option("?", none, f[<< n, 1 >>])
    ELSE Option(o.val, << n, 1 >>, f[<< n + 1, 1 >>])

ReadElement(f, i) ==
    IF typed[i] = << "-", "-" >> THEN OperandsFrom(i + 1)
    ELSE IF NONOPTION_P(i)
    THEN IF ordering = "REQUIRE_ORDER" THEN OperandsFrom(i)
         ELSE [f[<< i + 1, 1 >>] EXCEPT !.operands = << i >> \o @]
    ELSE IF ~ (long /\ typed[i][2] = "-") THEN f[<< i, 2 >>]
    ELSE LET o == pfound(<< i, 3 >>, FALSE) IN
         IF o <= 0 THEN Option("?", NoChar, f[<< i + 1, 1 >>])
         ELSE ReadLong(f, << i, 3 >>, LongOptions[o], i + 1, NoChar)

\* An option character: what it says, what follows its argument, and where that is.
ReadChar(f, i, j) ==
    LET c      == typed[i][j]
        inside == j < Len(typed[i])
        after  == IF inside THEN i + 1 ELSE i + 2
        arg    == IF inside THEN << i, j + 1 >> ELSE << i + 1, 1 >>
    IN
    IF c \in MayHave /\ inside THEN Option(c, arg, f[<< i + 1, 1 >>])
    ELSE IF c \in Flags \cup MayHave THEN Option(c, NoChar, f[<< i, j + 1 >>])
    ELSE IF c \notin WithArgument /\ ~ (c = "W" /\ long) THEN Option("?", NoChar, f[<< i, j + 1 >>])
    ELSE IF after > argc THEN Option("?", NoChar, f[<< argc, 1 >>])
    ELSE IF c = "W" /\ pfound(arg, TRUE) > 0
    THEN ReadLong(f, arg, LongOptions[pfound(arg, TRUE)], after, arg)
    ELSE Option(c, arg, f[<< after, 1 >>])

Read(f, at) ==
    IF at[1] = argc THEN OperandsFrom(argc)
    ELSE IF at[2] = 1 THEN ReadElement(f, at[1])
    ELSE IF at[2] > Len(typed[at[1]]) THEN f[<< at[1] + 1, 1 >>]
    ELSE ReadChar(f, at[1], at[2])

Says[at \in Places] == Read(Says, at)

Scan == Says[<< 1, 1 >>]

\* Whatever getopt moves, it returns the options in the order in which they were
\* typed and each with the argument that was typed after it, if need be with a
\* long option that goes by the beginning of its name, loses no element,
\* and leaves the operands, in their order, behind optind (getopt.c:297-345 and
\* :499-569).
ScansAsTyped ==
    /\ IsPrefix(results, Scan.results)
    /\ {argv[k] : k \in DOMAIN argv} = DOMAIN argv
    /\ Ended => [k \in 1 .. argc - optind |-> argv[optind + k - 1]] = Scan.operands

=============================================================================
