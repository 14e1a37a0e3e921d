---------------------------- MODULE MCAsyncLogger ----------------------------
(***************************************************************************)
(* Two writers, two buffers of nine bytes or three items, and lines that   *)
(* fit, just fit and do not fit.                                           *)
(***************************************************************************)
EXTENDS AsyncLogger

CONSTANTS t1, t2, i1, i2, i3
TwoWriters == {t1, t2}
ThreeItems == {i1, i2, i3}
BothTypes ==
    [logType : {1}, size : {0, 9}, timed : BOOLEAN] \cup [logType : {2}, size : {9}, timed : BOOLEAN]
SomeLines ==
    {[kind |-> "msg", len |-> 2], [kind |-> "msg", len |-> 5],
     [kind |-> "mem", len |-> 3], [kind |-> "mem", len |-> 7]}
=============================================================================
