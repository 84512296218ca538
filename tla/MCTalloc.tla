------------------------------ MODULE MCTalloc ------------------------------
(***************************************************************************)
(* A memory of four chunks: an object with two references and a holder,    *)
(* or a pool in a pool with a member, or a chunk with a limit below        *)
(* another, or two strings in a pool.  Chunks are renamed freely: nothing   *)
(* compares addresses.                                                      *)
(***************************************************************************)
EXTENDS TallocStrings, TLC

Pieces == {<< >>, <<"a">>}

Renaming == Permutations(Chunks)

=============================================================================
