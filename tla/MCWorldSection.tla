--------------------------- MODULE MCWorldSection ---------------------------
(***************************************************************************)
(* WorldSection for a world of 8 x 2 sections of 3 x 2 tiles.  The tiles   *)
(* that change lie in the corners of three sections, two of them in one    *)
(* section.                                                                *)
(***************************************************************************)
EXTENDS WorldSection

Corners == {<<0, 0>>, <<2, 1>>, <<3, 3>>, <<23, 2>>}
=============================================================================
