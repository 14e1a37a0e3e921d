----------------------------- MODULE MCMemPool -----------------------------
(***************************************************************************)
(* Two pools, three blocks, two threads and the KPI thread.  Blocks of the *)
(* first pool hold 2 bytes and the only block of the second pool 3, so     *)
(* that a request can fall through to the larger pool or find nothing,     *)
(* and all branches of MemJoin are taken.                                  *)
(***************************************************************************)
EXTENDS MemPool

CONSTANTS b1, b2, b3

MCBlocks == {b1, b2, b3}
MCPoolOf == [b \in MCBlocks |-> IF b = b3 THEN 2 ELSE 1]
MCPoolSize == <<2, 3>>
MCPoolBuffer == <<<<b1, b2>>, <<b3>>>>
MCLengths == {1, 3}
=============================================================================
