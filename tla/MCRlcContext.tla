---------------------------- MODULE MCRlcContext ----------------------------
(***************************************************************************)
(* Two UEs, three blocks for contexts.                                     *)
(***************************************************************************)
EXTENDS RlcContext

CONSTANTS c1, c2, c3, ue1, ue2
ContextsOfThree == {c1, c2, c3}
TwoUes == {ue1, ue2}
=============================================================================
