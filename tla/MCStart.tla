-------------------------------- MODULE MCStart --------------------------------
(***************************************************************************)
(* A start of the process, the scanning of a command line, or the hooks.   *)
(* A command line has up to four elements: operands, options in one        *)
(* element and in several, an argument in the element of its option and    *)
(* after it, characters that are no option, "-" and "--"; or up to three,  *)
(* with long options by their names and by beginnings of them, with        *)
(* arguments behind "=" or not.  The hooks are those of both events, for   *)
(* two callbacks, with vectors that grow once after they were made.        *)
(***************************************************************************)
EXTENDS Getopt, Startup, Hooks

Typed == {<< "a" >>, << "-" >>, << "-", "-" >>, << "-", "s" >>, << "-", "p" >>,
          << "-", "s", "p" >>, << "-", "p", "s" >>, << "-", "x", "s" >>, << "-", "s", "-" >>}

\* "=" and names of two letters.
Options == << [name |-> << "a", "a" >>, has_arg |-> 0, val |-> "aa"],
              [name |-> << "a", "b" >>, has_arg |-> 1, val |-> "ab"],
              [name |-> << "c", "d" >>, has_arg |-> 2, val |-> "cd"] >>

Dashes == << "-", "-" >>
TypedLong == {<< >>, << "d" >>, Dashes, << "-", "s" >>, << "-", "o" >>, << "-", "s", "o", "s" >>, << "-", "W" >>,
              << "-", "W", "c" >>, << "-", "W", "x" >>, << "-", "W", "a", "b" >>, << "c", "d", "=", "a" >>}
             \cup {Dashes \o name \o arg : name \in {<< "a" >>, << "a", "a" >>, << "a", "b" >>, << "c" >>},
                                         arg \in {<< >>, << "=", "s" >>}}

vars == << getoptVars, startVars, hooksVars >>

Init == /\ HooksInit
        /\ \/ StartupInit /\ GetoptIdle
           \/ StartupIdle /\ GetoptInit
           \/ StartupIdle /\ GetoptIdle

\* The hooks run where neither of the others does.
Next == \/ StartupNext /\ UNCHANGED << getoptVars, hooksVars >>
        \/ getopt /\ UNCHANGED << startVars, hooksVars >>
        \/ StartupIdle /\ GetoptIdle /\ HooksNext /\ UNCHANGED << getoptVars, startVars >>

\* The threads go on by themselves; who types and who connects need not.
Spec == /\ Init /\ [][Next]_vars
        /\ WF_vars(MainStep /\ UNCHANGED << getoptVars, hooksVars >>)
        /\ WF_vars(WorkerStep /\ UNCHANGED << getoptVars, hooksVars >>)
=============================================================================
