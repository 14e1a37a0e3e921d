---------------------------- MODULE MCLinkedList ----------------------------
(***************************************************************************)
(* Four nodes, so that a list can have a first, a last and two middle      *)
(* nodes, and two threads inside ListDeleteNode at the same time.          *)
(***************************************************************************)
EXTENDS LinkedList
=============================================================================
