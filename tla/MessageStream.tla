---------------------------- MODULE MessageStream ----------------------------
(***************************************************************************)
(* What reading a connection promises, without buffers and read callbacks: *)
(* the messages of the client are taken one by one, in the order they were *)
(* sent, and each message that has handlers is passed to them once.        *)
(***************************************************************************)
EXTENDS Integers, Sequences

CONSTANTS Scripts,      \* the sequences of messages a client may send
          Served        \* the message types that have handlers

VARIABLES script,       \* what this client sends
          taken,        \* how many messages were taken off the stream
          served        \* the positions in script of those passed to a handler

Init == /\ script \in Scripts
        /\ taken = 0
        /\ served = << >>

Take == /\ taken < Len(script)
        /\ taken' = taken + 1
        /\ served' = IF script[taken + 1].type \in Served
                     THEN Append(served, taken + 1)
                     ELSE served
        /\ UNCHANGED script

Spec == Init /\ [][Take]_<< script, taken, served >>
=============================================================================
