------------------------------ MODULE SeqList ------------------------------
(***************************************************************************)
(* What a List promises its users: a sequence of nodes, pushed at either   *)
(* end, popped at the head, and any member of it can be taken out.  out is *)
(* the node that the last operation handed to its caller.                  *)
(***************************************************************************)
EXTENDS Sequences, Integers, SequencesExt

CONSTANTS Nodes, Null

VARIABLES q, out

Members == {q[i] : i \in 1 .. Len(q)}

Init == q = <<>> /\ out = Null

Push(n) ==
    /\ n \notin Members
    /\ q' = Append(q, n)
    /\ out' = Null

PushHead(n) ==
    /\ n \notin Members
    /\ q' = <<n>> \o q
    /\ out' = Null

Pop ==
    \/ q = <<>> /\ q' = q /\ out' = Null
    \/ q # <<>> /\ q' = Tail(q) /\ out' = Head(q)

\* deleting a node that is not in the list changes nothing
Delete(n) ==
    /\ out' = Null
    /\ \/ n \notin Members /\ UNCHANGED q
       \/ \E i \in 1 .. Len(q) : q[i] = n /\ q' = RemoveAt(q, i)

Next == Pop \/ \E n \in Nodes : Push(n) \/ PushHead(n) \/ Delete(n)

Spec == Init /\ [][Next]_<<q, out>>
=============================================================================
