----------------------------- MODULE OrderedLog -----------------------------
(***************************************************************************)
(* What a log promises the threads that write to it: a line it has         *)
(* accepted waits behind those accepted before it, and from time to time   *)
(* the first of the waiting lines are written out, behind what was written *)
(* before.  Written text is never changed.                                 *)
(***************************************************************************)
EXTENDS Sequences, Integers

VARIABLES accepted,  \* the number of lines accepted
          waiting,   \* those not written yet
          output     \* those written, in their order

Init == accepted = 0 /\ waiting = <<>> /\ output = <<>>

Accept ==
    /\ accepted' = accepted + 1
    /\ waiting' = Append(waiting, accepted + 1)
    /\ UNCHANGED output

Write ==
    \E k \in 1 .. Len(waiting) :
        /\ output' = output \o SubSeq(waiting, 1, k)
        /\ waiting' = SubSeq(waiting, k + 1, Len(waiting))
        /\ UNCHANGED accepted

Next == Accept \/ Write

Spec == Init /\ [][Next]_<<accepted, waiting, output>>
=============================================================================
