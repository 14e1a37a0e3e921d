----------------------------- MODULE LinkedList -----------------------------
(***************************************************************************)
(* The intrusive doubly linked list of ulp/src/list.c, at the level of its *)
(* pointers.  cm/src/queue.c is the same code over a pthread mutex.        *)
(*                                                                         *)
(* The List is created with mtFlag = 1: a push, a pop and the search and   *)
(* unlinking of ListDeleteNode run under its lock and are single steps;    *)
(* the test of count at the start of ListDeleteNode is made before the     *)
(* lock is taken, so the list may change between the two.                  *)
(***************************************************************************)
EXTENDS Integers, Sequences, FiniteSets

CONSTANTS Nodes,    \* the list nodes of the program
          Threads,  \* the threads that use the list
          Null      \* the null pointer

ASSUME LinkedListAssumption == Null \notin Nodes /\ IsFiniteSet(Nodes)

VARIABLES list,      \* the List and the links of every node
          deleting,  \* the node a thread has passed to ListDeleteNode
          out,       \* the node the last operation returned
          ret        \* the value the last DeleteNode returned

vars == <<list, deleting, out, ret>>

\* ListInit; the nodes' memory is zeroed when it is set up
EmptyList ==
    [head  |-> Null,                       \* List.node.next
     tail  |-> Null,                       \* List.node.prev
     count |-> 0,
     next  |-> [n \in Nodes |-> Null],
     prev  |-> [n \in Nodes |-> Null]]

Init ==
    /\ list = EmptyList
    /\ deleting = [t \in Threads |-> Null]
    /\ out = Null
    /\ ret = 0

-----------------------------------------------------------------------------
(***************************************************************************)
(* The pointer operations, as functions from a list to a list.             *)
(***************************************************************************)
\* List.node.next, List.node.prev, count and the links of the nodes
ListOf(head, tail, count, next, prev) ==
    [head |-> head, tail |-> tail, count |-> count, next |-> next, prev |-> prev]

Alone(l, n) ==
    ListOf(n, n, 1, [l.next EXCEPT ![n] = Null], [l.prev EXCEPT ![n] = Null])

LooksEmpty(l) == l.head = Null \/ l.count = 0 \/ l.tail = Null

\* Mutant: the node is counted twice
PushTail_CountsTwice(l, n) ==
    IF LooksEmpty(l) THEN Alone(l, n)
    ELSE ListOf(l.head, n, l.count + 2,
                [l.next EXCEPT ![n] = Null, ![l.tail] = n], [l.prev EXCEPT ![n] = l.tail])

PushTail(l, n) ==
    IF LooksEmpty(l) THEN Alone(l, n)
    ELSE ListOf(l.head, n, l.count + 1,
                [l.next EXCEPT ![n] = Null, ![l.tail] = n], [l.prev EXCEPT ![n] = l.tail])

PushHead(l, n) ==
    IF LooksEmpty(l) THEN Alone(l, n)
    ELSE ListOf(n, l.tail, l.count + 1,
                [l.next EXCEPT ![n] = l.head], [l.prev EXCEPT ![n] = Null, ![l.head] = n])

Failed(l) == [list |-> l, ret |-> 1]

\* the node's own links are cleared when it has been taken out
Unlinked(l, n, head, tail, next, prev) ==
    [list |-> ListOf(head, tail, l.count - 1,
                     [next EXCEPT ![n] = Null], [prev EXCEPT ![n] = Null]),
     ret  |-> 0]

DeleteOnly(l, n) ==
    IF l.prev[n] # Null \/ l.next[n] # Null \/ l.tail # n \/ l.head # n
    THEN Failed(l)
    ELSE Unlinked(l, n, Null, Null, l.next, l.prev)

DeleteLast(l, n) ==
    IF l.tail # n THEN Failed(l)
    ELSE Unlinked(l, n, l.head, l.prev[n], [l.next EXCEPT ![l.prev[n]] = Null], l.prev)

DeleteFirst(l, n) ==
    IF l.head # n THEN Failed(l)
    ELSE Unlinked(l, n, l.next[n], l.tail, l.next, [l.prev EXCEPT ![l.next[n]] = Null])

\* Mutant: the predecessor of the next node is not updated
DeleteMiddle_OneWay(l, n) ==
    IF l.prev[l.next[n]] # n \/ l.next[l.prev[n]] # n THEN Failed(l)
    ELSE Unlinked(l, n, l.head, l.tail, [l.next EXCEPT ![l.prev[n]] = l.next[n]], l.prev)

DeleteMiddle(l, n) ==
    IF l.prev[l.next[n]] # n \/ l.next[l.prev[n]] # n THEN Failed(l)
    ELSE Unlinked(l, n, l.head, l.tail, [l.next EXCEPT ![l.prev[n]] = l.next[n]],
                  [l.prev EXCEPT ![l.next[n]] = l.prev[n]])

DeleteNode(l, n) ==
    IF l.count = 0 THEN Failed(ListOf(Null, Null, 0, l.next, l.prev))
    ELSE IF l.count = 1 THEN DeleteOnly(l, n)
    ELSE IF l.next[n] = Null /\ l.prev[n] # Null THEN DeleteLast(l, n)
    ELSE IF l.next[n] # Null /\ l.prev[n] = Null THEN DeleteFirst(l, n)
    ELSE IF l.next[n] # Null /\ l.prev[n] # Null THEN DeleteMiddle(l, n)
    ELSE Failed(l)

\* the i-th node met when the next pointers are followed from the head
Walk(l) ==
    LET w[i \in 1 .. l.count] ==
            IF i = 1 THEN l.head
            ELSE IF w[i - 1] = Null THEN Null ELSE l.next[w[i - 1]]
    IN  w

Chain == Walk(list)

Linked(n) == \E i \in 1 .. list.count : Chain[i] = n

-----------------------------------------------------------------------------
(***************************************************************************)
(* The operations.  A caller pushes only a node that is in no list: one it *)
(* popped, or one in memory it has just allocated.                         *)
(***************************************************************************)
ListPushNode(n) ==
    /\ ~Linked(n)
    /\ list' = PushTail(list, n)
    /\ out' = Null
    /\ UNCHANGED <<deleting, ret>>

ListPushNodeHead(n) ==
    /\ ~Linked(n)
    /\ list' = PushHead(list, n)
    /\ out' = Null
    /\ UNCHANGED <<deleting, ret>>

\* Mutant: the node returned is not the one taken out
ListPopNode_ReturnsTail ==
    /\ out' = list.tail
    /\ IF list.head = Null
       THEN UNCHANGED <<list, ret>>
       ELSE LET d == DeleteNode(list, list.head)
            IN  list' = d.list /\ ret' = d.ret
    /\ UNCHANGED deleting

\* PopHead returns the head even if DeleteNode refuses to unlink it
ListPopNode ==
    /\ out' = list.head
    /\ IF list.head = Null
       THEN UNCHANGED <<list, ret>>
       ELSE LET d == DeleteNode(list, list.head)
            IN  list' = d.list /\ ret' = d.ret
    /\ UNCHANGED deleting

\* the test of count, before the lock is taken
ListDeleteNodeTest(t, n) ==
    /\ deleting[t] = Null
    /\ list.count > 0
    /\ deleting' = [deleting EXCEPT ![t] = n]
    /\ UNCHANGED <<list, out, ret>>

\* the search from the head, and DeleteNode if the node is found
ListDeleteNode(t) ==
    /\ deleting[t] # Null
    /\ IF Linked(deleting[t])
       THEN LET d == DeleteNode(list, deleting[t])
            IN  list' = d.list /\ ret' = d.ret
       ELSE UNCHANGED <<list, ret>>
    /\ deleting' = [deleting EXCEPT ![t] = Null]
    /\ out' = Null

Next ==
    \/ \E n \in Nodes : ListPushNode(n) \/ ListPushNodeHead(n)
    \/ ListPopNode
    \/ \E t \in Threads : ListDeleteNode(t) \/ \E n \in Nodes : ListDeleteNodeTest(t, n)

Spec == Init /\ [][Next]_vars

-----------------------------------------------------------------------------
NodeOrNull == Nodes \cup {Null}

\* Every pointer is null or a node, and count is a natural number.
TypeOK ==
    /\ list \in [head : NodeOrNull, tail : NodeOrNull, count : 0 .. Cardinality(Nodes),
                 next : [Nodes -> NodeOrNull], prev : [Nodes -> NodeOrNull]]
    /\ deleting \in [Threads -> NodeOrNull]
    /\ out \in NodeOrNull
    /\ ret \in {0, 1}

\* WellLinked: following next from the head visits count different nodes and
\* ends at the tail, prev is the exact reverse of next, and a node that is in
\* no list has null links.  ListDeleteNode's search, which runs count steps
\* without testing for null, relies on it, and so does PopHead, which returns
\* the head even when a consistency test of DeleteNode fails: none ever does.
WellLinked ==
    /\ TypeOK
    /\ ret = 0
    /\ \A i \in 1 .. list.count : Chain[i] \in Nodes
    /\ \A i, j \in 1 .. list.count : Chain[i] = Chain[j] => i = j
    /\ list.count = 0 => list.head = Null /\ list.tail = Null
    /\ list.count > 0 =>
        /\ list.tail = Chain[list.count]
        /\ list.next[list.tail] = Null
        /\ list.prev[list.head] = Null
        /\ \A i \in 2 .. list.count : list.prev[Chain[i]] = Chain[i - 1]
    /\ \A n \in Nodes : ~Linked(n) => list.next[n] = Null /\ list.prev[n] = Null

\* l holds the nodes of s, in this order
Holds(l, s) ==
    /\ s \in Seq(Nodes)
    /\ l.count = Len(s)
    /\ \A i, j \in 1 .. Len(s) : s[i] = s[j] => i = j
    /\ IF Len(s) = 0 THEN l.head = Null /\ l.tail = Null
       ELSE l.head = s[1] /\ l.tail = s[Len(s)]
    /\ \A i \in 1 .. Len(s) :
        /\ l.next[s[i]] = IF i = Len(s) THEN Null ELSE s[i + 1]
        /\ l.prev[s[i]] = IF i = 1 THEN Null ELSE s[i - 1]
    /\ \A n \in Nodes :
        (\A i \in 1 .. Len(s) : s[i] # n) => l.next[n] = Null /\ l.prev[n] = Null

\* the strengthening of WellLinked that every step keeps
LinkInv ==
    /\ TypeOK
    /\ ret = 0
    /\ Holds(list, Chain)

\* ImplementsSeqList: with the nodes met on the way from the head to the tail
\* as its sequence, the pointer code implements the abstract list, including
\* the node each pop returns and deletions decided on a stale count.
Abstract == INSTANCE SeqList WITH q <- Chain
ImplementsSeqList == Abstract!Spec
=============================================================================
