----------------------------- MODULE MCSession -----------------------------
(***************************************************************************)
(* Session with few memory cells, so that each allocation of each message  *)
(* fails in some behaviour.  The cells are interchangeable: TallocNew      *)
(* takes any free one.                                                     *)
(***************************************************************************)
EXTENDS Session

\* The types with a Read function, and the one that has a Handle function only.
AllTypes  == HasHandle
=============================================================================
