-------------------------- MODULE LinkedListProofs --------------------------
(***************************************************************************)
(* Proofs about the pointer code of list.c.                                *)
(***************************************************************************)
EXTENDS LinkedList, CollectionLemmas

Links == [Nodes -> NodeOrNull]

\* l is a List, with links for every node
IsList(l) ==
    /\ l = ListOf(l.head, l.tail, l.count, l.next, l.prev)
    /\ l.next \in Links /\ l.prev \in Links

-----------------------------------------------------------------------------
\* Following next from the head of a list that holds s yields s, the search of
\* ListDeleteNode for instance.
LEMMA WalkFindsAll ==
    ASSUME NEW l, NEW s, Holds(l, s)
    PROVE  Walk(l) = s
  <1> DEFINE S == 1 .. l.count
             step(w, i) == IF i = 1 THEN l.head
                           ELSE IF w[i - 1] = Null THEN Null ELSE l.next[w[i - 1]]
             Recursive(w) == w = [i \in S |-> step(w, i)]
             w0 == CHOOSE w : Recursive(w)
  <1>1. Walk(l) = w0
    BY DEF Walk
  <1>2. Len(s) \in Nat /\ l.count = Len(s)
    BY DEF Holds
  <1>3. \A i \in S : s[i] \in Nodes /\ s[i] # Null
    BY <1>2, LinkedListAssumption DEF Holds
  <1>4. s = [i \in S |-> s[i]]
    BY <1>2 DEF Holds
  <1>5. \A i \in S : step(s, i) = s[i]
    <2> SUFFICES ASSUME NEW i \in S PROVE step(s, i) = s[i]
      OBVIOUS
    <2>1. CASE i = 1
      <3>1. Len(s) # 0
        BY <2>1, <1>2
      <3> QED BY <2>1, <3>1 DEF Holds
    <2>2. CASE i # 1
      <3>1. i - 1 \in 1 .. Len(s) /\ i - 1 # Len(s) /\ (i - 1) + 1 = i
        BY <2>2, <1>2
      <3>2. s[i - 1] \in Nodes /\ s[i - 1] # Null
        BY <3>1, <1>2, <1>3
      <3>3. l.next[s[i - 1]] = IF i - 1 = Len(s) THEN Null ELSE s[(i - 1) + 1]
        BY <3>1, <1>2 DEF Holds
      <3> QED BY <2>2, <3>1, <3>2, <3>3
    <2> QED BY <2>1, <2>2
  <1> HIDE DEF step
  <1>6. Recursive(s)
    BY <1>4, <1>5
  <1>7. Recursive(w0)
    BY <1>6
  <1> HIDE DEF w0
  <1> DEFINE D == {i \in S : w0[i] # s[i]}
  <1>8. D = {}
    <2> SUFFICES ASSUME D # {} PROVE FALSE
      OBVIOUS
    <2>1. D \in SUBSET Nat
      BY <1>2
    <2>2. PICK i \in D : \A j \in D : i <= j
      BY <2>1, MinOfNats
    <2>3. i \in S /\ w0[i] # s[i] /\ w0[i] = step(w0, i) /\ s[i] = step(s, i)
      BY <2>2, <1>7, <1>5
    <2>4. i # 1
      BY <2>3 DEF step
    <2>5. i - 1 \in S /\ i - 1 \notin D
      BY <2>2, <2>3, <2>4, <1>2
    <2>6. w0[i - 1] = s[i - 1]
      BY <2>5
    <2> QED BY <2>3, <2>6 DEF step
  <1>9. w0 = [i \in S |-> w0[i]]
    BY <1>7
  <1>10. \A i \in S : w0[i] = s[i]
    BY <1>8
  <1> HIDE DEF S, D, Recursive
  <1> QED BY <1>1, <1>4, <1>9, <1>10

-----------------------------------------------------------------------------
\* A node pushed into an empty list is its head and its tail.
LEMMA AloneHolds ==
    ASSUME NEW l, IsList(l), NEW s, Holds(l, s), Len(s) = 0,
           NEW n \in Nodes, NEW t, t \in Seq(Nodes), Len(t) = 1, t[1] = n
    PROVE  IsList(Alone(l, n)) /\ Holds(Alone(l, n), t)
  <1> DEFINE a == Alone(l, n)
  <1>1. /\ a = ListOf(a.head, a.tail, a.count, a.next, a.prev)
        /\ a.head = n /\ a.tail = n /\ a.count = 1
        /\ a.next = [l.next EXCEPT ![n] = Null] /\ a.prev = [l.prev EXCEPT ![n] = Null]
    BY DEF Alone, ListOf
  <1> HIDE DEF a
  <1>2. \A m \in Nodes : l.next[m] = Null /\ l.prev[m] = Null
    BY DEF Holds
  <1>3. \A m \in Nodes : a.next[m] = Null /\ a.prev[m] = Null
    BY <1>1, <1>2 DEF Links, IsList
  <1>4. \A i \in 1 .. Len(t) : i = 1 /\ t[i] = n
    OBVIOUS
  <1>5. Holds(a, t)
    BY <1>1, <1>3, <1>4 DEF Holds
  <1>6. IsList(a)
    BY <1>1 DEF IsList, Links, NodeOrNull
  <1> QED BY <1>5, <1>6 DEF a

\* PushTail puts a node that is in no list behind the others.
LEMMA PushTailAppends ==
    ASSUME NEW l, IsList(l), NEW s, Holds(l, s),
           NEW n \in Nodes, \A i \in 1 .. Len(s) : s[i] # n
    PROVE  IsList(PushTail(l, n)) /\ Holds(PushTail(l, n), Append(s, n))
  <1> DEFINE p == PushTail(l, n)
             t == Append(s, n)
  <1>1. /\ s \in Seq(Nodes) /\ Len(s) \in Nat /\ l.count = Len(s)
        /\ t \in Seq(Nodes) /\ Len(t) = Len(s) + 1 /\ t[Len(s) + 1] = n
        /\ \A i \in 1 .. Len(s) : t[i] = s[i] /\ s[i] \in Nodes
    BY DEF Holds
  <1> HIDE DEF t
  <1>2. CASE Len(s) = 0
    <2>1. IsList(Alone(l, n)) /\ Holds(Alone(l, n), t)
      BY <1>1, <1>2, AloneHolds
    <2> QED BY <1>1, <1>2, <2>1 DEF PushTail, LooksEmpty, t
  <1>3. CASE Len(s) # 0
    <2>1. /\ l.head = s[1] /\ l.tail = s[Len(s)]
          /\ 1 \in 1 .. Len(s) /\ Len(s) \in 1 .. Len(s)
      BY <1>1, <1>3 DEF Holds
    <2>2. ~LooksEmpty(l)
      BY <1>1, <1>3, <2>1, LinkedListAssumption DEF LooksEmpty
    <2>3. /\ p = ListOf(p.head, p.tail, p.count, p.next, p.prev)
          /\ p.head = l.head /\ p.tail = n /\ p.count = l.count + 1
          /\ p.next = [l.next EXCEPT ![n] = Null, ![l.tail] = n]
          /\ p.prev = [l.prev EXCEPT ![n] = l.tail]
      BY <2>2 DEF PushTail, ListOf
    <2> HIDE DEF p
    <2>4. l.tail \in Nodes /\ l.tail # n
      BY <1>1, <2>1
    <2>5. \A m \in Nodes :
            /\ p.next[m] = IF m = l.tail THEN n ELSE IF m = n THEN Null ELSE l.next[m]
            /\ p.prev[m] = IF m = n THEN l.tail ELSE l.prev[m]
      BY <2>3, <2>4 DEF Links, IsList
    <2>6. \A i, j \in 1 .. Len(t) : t[i] = t[j] => i = j
      <3>1. \A i \in 1 .. Len(t) : i \in 1 .. Len(s) \/ i = Len(s) + 1
        BY <1>1
      <3>2. \A i, j \in 1 .. Len(s) : s[i] = s[j] => i = j
        BY DEF Holds
      <3> QED BY <1>1, <3>1, <3>2
    <2>7. ASSUME NEW i \in 1 .. Len(t)
          PROVE  /\ p.next[t[i]] = IF i = Len(t) THEN Null ELSE t[i + 1]
                 /\ p.prev[t[i]] = IF i = 1 THEN Null ELSE t[i - 1]
      <3>1. CASE i = Len(s) + 1
        <4>1. i - 1 = Len(s) /\ i # 1 /\ t[i] = n
          BY <1>1, <1>3, <3>1
        <4> QED BY <3>1, <4>1, <1>1, <2>1, <2>4, <2>5
      <3>2. CASE i # Len(s) + 1
        <4>1. i \in 1 .. Len(s) /\ t[i] = s[i] /\ t[i] # n /\ t[i] \in Nodes
          BY <1>1, <3>2
        <4>2. s[i] = l.tail <=> i = Len(s)
          BY <4>1, <2>1 DEF Holds
        <4>3. /\ l.next[s[i]] = IF i = Len(s) THEN Null ELSE s[i + 1]
              /\ l.prev[s[i]] = IF i = 1 THEN Null ELSE s[i - 1]
          BY <4>1 DEF Holds
        <4>4. /\ i # Len(s) => i + 1 \in 1 .. Len(s)
              /\ i # 1 => i - 1 \in 1 .. Len(s)
          BY <4>1
        <4> QED BY <1>1, <2>5, <4>1, <4>2, <4>3, <4>4
      <3> QED BY <3>1, <3>2
    <2>8. ASSUME NEW m \in Nodes, \A i \in 1 .. Len(t) : t[i] # m
          PROVE  p.next[m] = Null /\ p.prev[m] = Null
      <3>1. m # n /\ \A i \in 1 .. Len(s) : s[i] # m
        BY <2>8, <1>1
      <3> QED BY <3>1, <2>1, <2>5 DEF Holds
    <2>9. p.head = t[1] /\ p.tail = t[Len(t)] /\ p.count = Len(t)
      BY <1>1, <2>1, <2>3
    <2>10. Holds(p, t)
      BY <1>1, <1>3, <2>6, <2>7, <2>8, <2>9 DEF Holds
    <2>11. IsList(p)
      BY <2>1, <2>3, <2>4 DEF IsList, Links, NodeOrNull
    <2> QED BY <2>10, <2>11 DEF p, t
  <1> QED BY <1>2, <1>3

\* PushHead puts a node that is in no list before the others.
LEMMA PushHeadPrepends ==
    ASSUME NEW l, IsList(l), NEW s, Holds(l, s),
           NEW n \in Nodes, \A i \in 1 .. Len(s) : s[i] # n
    PROVE  IsList(PushHead(l, n)) /\ Holds(PushHead(l, n), <<n>> \o s)
  <1> DEFINE p == PushHead(l, n)
             t == <<n>> \o s
  <1>1. /\ s \in Seq(Nodes) /\ Len(s) \in Nat /\ l.count = Len(s)
        /\ \A i \in 1 .. Len(s) : s[i] \in Nodes
    BY DEF Holds
  <1>2. /\ t \in Seq(Nodes) /\ Len(t) = Len(s) + 1 /\ t[1] = n
        /\ \A i \in 1 .. Len(s) : t[i + 1] = s[i]
    BY <1>1, ToSetOfCons
  <1> HIDE DEF t
  <1>3. ASSUME NEW i \in 1 .. Len(t), i # 1
        PROVE  i - 1 \in 1 .. Len(s) /\ t[i] = s[i - 1]
    <2>1. i - 1 \in 1 .. Len(s) /\ (i - 1) + 1 = i
      BY <1>1, <1>2, <1>3
    <2> QED BY <2>1, <1>2
  <1>4. CASE Len(s) = 0
    <2>1. IsList(Alone(l, n)) /\ Holds(Alone(l, n), t)
      BY <1>1, <1>2, <1>4, AloneHolds
    <2> QED BY <1>1, <1>4, <2>1 DEF PushHead, LooksEmpty, t
  <1>5. CASE Len(s) # 0
    <2>1. /\ l.head = s[1] /\ l.tail = s[Len(s)]
          /\ 1 \in 1 .. Len(s) /\ Len(s) \in 1 .. Len(s)
      BY <1>1, <1>5 DEF Holds
    <2>2. ~LooksEmpty(l)
      BY <1>1, <1>5, <2>1, LinkedListAssumption DEF LooksEmpty
    <2>3. /\ p = ListOf(p.head, p.tail, p.count, p.next, p.prev)
          /\ p.head = n /\ p.tail = l.tail /\ p.count = l.count + 1
          /\ p.next = [l.next EXCEPT ![n] = l.head]
          /\ p.prev = [l.prev EXCEPT ![n] = Null, ![l.head] = n]
      BY <2>2 DEF PushHead, ListOf
    <2> HIDE DEF p
    <2>4. l.head \in Nodes /\ l.head # n
      BY <1>1, <2>1
    <2>5. \A m \in Nodes :
            /\ p.next[m] = IF m = n THEN l.head ELSE l.next[m]
            /\ p.prev[m] = IF m = l.head THEN n ELSE IF m = n THEN Null ELSE l.prev[m]
      BY <2>3, <2>4 DEF Links, IsList
    <2>6. \A i, j \in 1 .. Len(t) : t[i] = t[j] => i = j
      <3> SUFFICES ASSUME NEW i \in 1 .. Len(t), NEW j \in 1 .. Len(t), t[i] = t[j]
                   PROVE  i = j
        OBVIOUS
      <3>1. CASE i = 1 \/ j = 1
        BY <3>1, <1>2, <1>3
      <3>2. CASE i # 1 /\ j # 1
        <4>1. /\ i - 1 \in 1 .. Len(s) /\ j - 1 \in 1 .. Len(s)
              /\ s[i - 1] = s[j - 1]
          BY <3>2, <1>3
        <4>2. i - 1 = j - 1
          BY <4>1 DEF Holds
        <4> QED BY <4>2
      <3> QED BY <3>1, <3>2
    <2>7. ASSUME NEW i \in 1 .. Len(t)
          PROVE  /\ p.next[t[i]] = IF i = Len(t) THEN Null ELSE t[i + 1]
                 /\ p.prev[t[i]] = IF i = 1 THEN Null ELSE t[i - 1]
      <3>1. CASE i = 1
        <4>1. t[i] = n /\ i # Len(t) /\ t[i + 1] = s[1]
          BY <1>1, <1>2, <1>5, <3>1, <2>1
        <4> QED BY <3>1, <4>1, <2>1, <2>4, <2>5
      <3>2. CASE i # 1
        <4> DEFINE k == i - 1
        <4>1. k \in 1 .. Len(s) /\ t[i] = s[k] /\ t[i] # n /\ t[i] \in Nodes /\ i = k + 1
          BY <1>1, <1>3, <3>2
        <4> HIDE DEF k
        <4>2. s[k] = l.head <=> k = 1
          BY <4>1, <2>1 DEF Holds
        <4>3. /\ l.next[s[k]] = IF k = Len(s) THEN Null ELSE s[k + 1]
              /\ l.prev[s[k]] = IF k = 1 THEN Null ELSE s[k - 1]
          BY <4>1 DEF Holds
        <4>4. p.next[t[i]] = IF i = Len(t) THEN Null ELSE t[i + 1]
          <5>1. i = Len(t) <=> k = Len(s)
            BY <4>1, <1>1, <1>2
          <5>2. k # Len(s) => k + 1 \in 1 .. Len(s) /\ t[i + 1] = s[k + 1]
            BY <4>1, <1>1, <1>2
          <5> QED BY <4>1, <4>3, <5>1, <5>2, <2>5
        <4>5. p.prev[t[i]] = t[i - 1]
          <5>1. CASE k = 1
            BY <5>1, <4>1, <4>2, <2>5, <1>2
          <5>2. CASE k # 1
            <6>1. k - 1 \in 1 .. Len(s) /\ (k - 1) + 1 = i - 1
              BY <5>2, <4>1
            <6>2. t[i - 1] = s[k - 1]
              BY <6>1, <1>2
            <6> QED BY <5>2, <6>2, <4>1, <4>2, <4>3, <2>5
          <5> QED BY <5>1, <5>2
        <4> QED BY <3>2, <4>4, <4>5
      <3> QED BY <3>1, <3>2
    <2>8. ASSUME NEW m \in Nodes, \A i \in 1 .. Len(t) : t[i] # m
          PROVE  p.next[m] = Null /\ p.prev[m] = Null
      <3>1. m # n /\ \A i \in 1 .. Len(s) : s[i] # m
        <4>1. 1 \in 1 .. Len(t) /\ \A i \in 1 .. Len(s) : i + 1 \in 1 .. Len(t)
          BY <1>1, <1>2
        <4> QED BY <4>1, <2>8, <1>2
      <3> QED BY <3>1, <2>1, <2>5 DEF Holds
    <2>9. p.head = t[1] /\ p.tail = t[Len(t)] /\ p.count = Len(t)
      BY <1>1, <1>2, <2>1, <2>3
    <2>10. Holds(p, t)
      BY <1>1, <1>2, <1>5, <2>6, <2>7, <2>8, <2>9 DEF Holds
    <2>11. IsList(p)
      BY <2>1, <2>3, <2>4 DEF IsList, Links, NodeOrNull
    <2> QED BY <2>10, <2>11 DEF p, t
  <1> QED BY <1>4, <1>5

\* Each branch of DeleteNode that a sound list can take does the same to the
\* links: the neighbours of the node, or the list itself, take its place.
LEMMA DeleteNodeBridges ==
    ASSUME NEW l, IsList(l), NEW s, Holds(l, s),
           NEW k \in 1 .. Len(s)
    PROVE  LET d == DeleteNode(l, s[k])
           IN  /\ d.ret = 0
               /\ d.list.count = Len(s) - 1
               /\ d.list.head = IF k = 1 THEN l.next[s[k]] ELSE l.head
               /\ d.list.tail = IF k = Len(s) THEN l.prev[s[k]] ELSE l.tail
               /\ IsList(d.list)
               /\ \A m \in Nodes :
                    /\ d.list.next[m] = IF m = s[k] THEN Null
                                        ELSE IF k # 1 /\ m = s[k - 1] THEN l.next[s[k]]
                                        ELSE l.next[m]
                    /\ d.list.prev[m] = IF m = s[k] THEN Null
                                        ELSE IF k # Len(s) /\ m = s[k + 1] THEN l.prev[s[k]]
                                        ELSE l.prev[m]
  <1> DEFINE n == s[k]
             d == DeleteNode(l, n)
             u == d.list
  <1>1. /\ s \in Seq(Nodes) /\ Len(s) \in Nat \ {0} /\ l.count = Len(s) /\ k \in Nat
        /\ \A i \in 1 .. Len(s) : s[i] \in Nodes /\ s[i] # Null
    BY LinkedListAssumption DEF Holds
  <1>2. /\ l.head = s[1] /\ l.tail = s[Len(s)]
        /\ 1 \in 1 .. Len(s) /\ Len(s) \in 1 .. Len(s)
    BY <1>1 DEF Holds
  <1>3. /\ n \in Nodes /\ n # Null
        /\ l.next[n] = IF k = Len(s) THEN Null ELSE s[k + 1]
        /\ l.prev[n] = IF k = 1 THEN Null ELSE s[k - 1]
    BY <1>1 DEF Holds
  <1>4. /\ k # 1 => k - 1 \in 1 .. Len(s) /\ s[k - 1] \in Nodes /\ s[k - 1] # Null
        /\ k # Len(s) => k + 1 \in 1 .. Len(s) /\ s[k + 1] \in Nodes /\ s[k + 1] # Null
    BY <1>1
  <1> DEFINE Bridges ==
               /\ d.ret = 0
               /\ u.count = Len(s) - 1
               /\ u.head = IF k = 1 THEN l.next[n] ELSE l.head
               /\ u.tail = IF k = Len(s) THEN l.prev[n] ELSE l.tail
               /\ IsList(u)
               /\ \A m \in Nodes :
                    /\ u.next[m] = IF m = n THEN Null
                                   ELSE IF k # 1 /\ m = s[k - 1] THEN l.next[n] ELSE l.next[m]
                    /\ u.prev[m] = IF m = n THEN Null
                                   ELSE IF k # Len(s) /\ m = s[k + 1] THEN l.prev[n] ELSE l.prev[m]
  <1>5. ASSUME Len(s) = 1
        PROVE  Bridges
    <2>1. k = 1 /\ k = Len(s) /\ l.next[n] = Null /\ l.prev[n] = Null /\ l.head = n /\ l.tail = n
      BY <1>1, <1>2, <1>3, <1>5
    <2>2. d = Unlinked(l, n, Null, Null, l.next, l.prev)
      BY <1>1, <1>5, <2>1 DEF DeleteNode, DeleteOnly
    <2> HIDE DEF d, n
    <2>3. /\ u = ListOf(u.head, u.tail, u.count, u.next, u.prev)
          /\ d.ret = 0 /\ u.count = Len(s) - 1 /\ u.head = Null /\ u.tail = Null
          /\ u.next = [l.next EXCEPT ![n] = Null] /\ u.prev = [l.prev EXCEPT ![n] = Null]
      BY <1>1, <2>2 DEF Unlinked, ListOf
    <2> HIDE DEF u
    <2> QED BY <2>1, <2>3, <1>3 DEF Links, NodeOrNull, IsList
  <1>6. ASSUME Len(s) # 1 /\ k = Len(s)
        PROVE  Bridges
    <2>1. /\ k # 1 /\ l.next[n] = Null /\ l.prev[n] = s[k - 1] /\ l.prev[n] # Null
          /\ l.prev[n] \in Nodes /\ l.tail = n
      BY <1>1, <1>2, <1>3, <1>4, <1>6
    <2>2. d = Unlinked(l, n, l.head, l.prev[n], [l.next EXCEPT ![l.prev[n]] = Null], l.prev)
      BY <1>1, <1>6, <2>1 DEF DeleteNode, DeleteLast
    <2> HIDE DEF d, n
    <2>3. /\ u = ListOf(u.head, u.tail, u.count, u.next, u.prev)
          /\ d.ret = 0 /\ u.count = Len(s) - 1 /\ u.head = l.head /\ u.tail = l.prev[n]
          /\ u.next = [[l.next EXCEPT ![l.prev[n]] = Null] EXCEPT ![n] = Null]
          /\ u.prev = [l.prev EXCEPT ![n] = Null]
      BY <1>1, <2>2 DEF Unlinked, ListOf
    <2> HIDE DEF u
    <2> QED BY <2>1, <2>3, <1>3, <1>6 DEF Links, NodeOrNull, IsList
  <1>7. ASSUME Len(s) # 1 /\ k = 1
        PROVE  Bridges
    <2>1. /\ k # Len(s) /\ l.prev[n] = Null /\ l.next[n] = s[k + 1] /\ l.next[n] # Null
          /\ l.next[n] \in Nodes /\ l.head = n
      BY <1>1, <1>2, <1>3, <1>4, <1>7
    <2>2. d = Unlinked(l, n, l.next[n], l.tail, l.next, [l.prev EXCEPT ![l.next[n]] = Null])
      BY <1>1, <1>7, <2>1 DEF DeleteNode, DeleteFirst
    <2> HIDE DEF d, n
    <2>3. /\ u = ListOf(u.head, u.tail, u.count, u.next, u.prev)
          /\ d.ret = 0 /\ u.count = Len(s) - 1 /\ u.head = l.next[n] /\ u.tail = l.tail
          /\ u.next = [l.next EXCEPT ![n] = Null]
          /\ u.prev = [[l.prev EXCEPT ![l.next[n]] = Null] EXCEPT ![n] = Null]
      BY <1>1, <2>2 DEF Unlinked, ListOf
    <2> HIDE DEF u
    <2> QED BY <2>1, <2>3, <1>3, <1>7 DEF Links, NodeOrNull, IsList
  <1>8. ASSUME k # 1 /\ k # Len(s)
        PROVE  Bridges
    <2>1. /\ l.prev[n] = s[k - 1] /\ l.prev[n] # Null /\ l.prev[n] \in Nodes
          /\ l.next[n] = s[k + 1] /\ l.next[n] # Null /\ l.next[n] \in Nodes
          /\ Len(s) # 1
      BY <1>1, <1>3, <1>4, <1>8
    <2>2. l.prev[l.next[n]] = n /\ l.next[l.prev[n]] = n
      <3>1. (k + 1) - 1 = k /\ (k - 1) + 1 = k /\ k + 1 # 1 /\ k - 1 # Len(s)
        BY <1>1
      <3> QED BY <3>1, <1>4, <1>8, <2>1 DEF Holds
    <2>3. d = Unlinked(l, n, l.head, l.tail, [l.next EXCEPT ![l.prev[n]] = l.next[n]],
                       [l.prev EXCEPT ![l.next[n]] = l.prev[n]])
      BY <1>1, <1>8, <2>1, <2>2 DEF DeleteNode, DeleteMiddle
    <2> HIDE DEF d, n
    <2>4. /\ u = ListOf(u.head, u.tail, u.count, u.next, u.prev)
          /\ d.ret = 0 /\ u.count = Len(s) - 1 /\ u.head = l.head /\ u.tail = l.tail
          /\ u.next = [[l.next EXCEPT ![l.prev[n]] = l.next[n]] EXCEPT ![n] = Null]
          /\ u.prev = [[l.prev EXCEPT ![l.next[n]] = l.prev[n]] EXCEPT ![n] = Null]
      BY <1>1, <2>3 DEF Unlinked, ListOf
    <2> HIDE DEF u
    <2>5. l.next \in Links /\ l.prev \in Links /\ Null \in NodeOrNull /\ Nodes \subseteq NodeOrNull
      BY DEF IsList, NodeOrNull
    <2> DEFINE nx == [l.next EXCEPT ![l.prev[n]] = l.next[n]]
               pv == [l.prev EXCEPT ![l.next[n]] = l.prev[n]]
    <2>6. /\ nx \in Links
          /\ \A m \in Nodes : nx[m] = IF m = s[k - 1] THEN l.next[n] ELSE l.next[m]
      BY <2>1, <2>5 DEF Links
    <2>7. /\ pv \in Links
          /\ \A m \in Nodes : pv[m] = IF m = s[k + 1] THEN l.prev[n] ELSE l.prev[m]
      BY <2>1, <2>5 DEF Links
    <2> HIDE DEF nx, pv
    <2>8. u.next = [nx EXCEPT ![n] = Null] /\ u.prev = [pv EXCEPT ![n] = Null]
      BY <2>4 DEF nx, pv
    <2>9. /\ u.next \in Links /\ u.prev \in Links
          /\ \A m \in Nodes : /\ u.next[m] = IF m = n THEN Null ELSE nx[m]
                             /\ u.prev[m] = IF m = n THEN Null ELSE pv[m]
      BY <2>5, <2>6, <2>7, <2>8, <1>3 DEF Links
    <2>10. IsList(u)
      BY <2>4, <2>9 DEF IsList
    <2> QED BY <2>4, <2>6, <2>7, <2>9, <2>10, <1>8
  <1>9. Bridges
    BY <1>1, <1>5, <1>6, <1>7, <1>8
  <1> QED BY <1>9

\* DeleteNode never refuses a node of a sound list, and takes out this node only.
LEMMA DeleteNodeRemoves ==
    ASSUME NEW l, IsList(l), NEW s, Holds(l, s),
           NEW k \in 1 .. Len(s)
    PROVE  LET d == DeleteNode(l, s[k])
           IN  /\ d.ret = 0
               /\ IsList(d.list)
               /\ Holds(d.list, RemoveAt(s, k))
  <1> DEFINE u == DeleteNode(l, s[k]).list
             t == RemoveAt(s, k)
             from(i) == IF i < k THEN i ELSE i + 1
  <1>1. /\ DeleteNode(l, s[k]).ret = 0
        /\ u.count = Len(s) - 1
        /\ u.head = IF k = 1 THEN l.next[s[k]] ELSE l.head
        /\ u.tail = IF k = Len(s) THEN l.prev[s[k]] ELSE l.tail
        /\ IsList(u)
    BY DeleteNodeBridges
  <1>2. \A m \in Nodes :
            /\ u.next[m] = IF m = s[k] THEN Null
                           ELSE IF k # 1 /\ m = s[k - 1] THEN l.next[s[k]] ELSE l.next[m]
            /\ u.prev[m] = IF m = s[k] THEN Null
                           ELSE IF k # Len(s) /\ m = s[k + 1] THEN l.prev[s[k]] ELSE l.prev[m]
    BY DeleteNodeBridges
  <1> HIDE DEF u
  <1>3. /\ s \in Seq(Nodes) /\ Len(s) \in Nat \ {0} /\ l.count = Len(s) /\ k \in Nat
        /\ \A i \in 1 .. Len(s) : s[i] \in Nodes
        /\ \A i, j \in 1 .. Len(s) : s[i] = s[j] => i = j
        /\ l.head = s[1] /\ l.tail = s[Len(s)]
    BY DEF Holds
  <1>4. \A i \in 1 .. Len(s) :
            /\ l.next[s[i]] = IF i = Len(s) THEN Null ELSE s[i + 1]
            /\ l.prev[s[i]] = IF i = 1 THEN Null ELSE s[i - 1]
    BY DEF Holds
  <1>5. /\ t \in Seq(Nodes) /\ Len(t) = Len(s) - 1
        /\ \A i \in 1 .. k - 1 : t[i] = s[i]
        /\ \A i \in k .. Len(s) - 1 : t[i] = s[i + 1]
    BY <1>3, RemoveAtProperties
  <1> HIDE DEF t
  <1>6. ASSUME NEW i \in 1 .. Len(s) - 1
        PROVE  from(i) \in 1 .. Len(s) /\ from(i) # k /\ t[i] = s[from(i)]
    <2>1. CASE i < k
      BY <2>1, <1>3, <1>5
    <2>2. CASE ~(i < k)
      <3>1. i \in k .. Len(s) - 1
        BY <2>2, <1>3
      <3> QED BY <2>2, <3>1, <1>3, <1>5
    <2> QED BY <2>1, <2>2
  <1>7. \A i, j \in 1 .. Len(t) : t[i] = t[j] => i = j
    <2> SUFFICES ASSUME NEW i \in 1 .. Len(s) - 1, NEW j \in 1 .. Len(s) - 1, t[i] = t[j]
                 PROVE  i = j
      BY <1>5
    <2>1. from(i) = from(j)
      <3> HIDE DEF from
      <3> QED BY <1>3, <1>6
    <2> QED BY <2>1, <1>3
  \* the successor and the predecessor of t[i] in t
  <1>8. ASSUME NEW i \in 1 .. Len(t)
        PROVE  /\ u.next[t[i]] = IF i = Len(t) THEN Null ELSE t[i + 1]
               /\ u.prev[t[i]] = IF i = 1 THEN Null ELSE t[i - 1]
    <2> DEFINE f == from(i)
    <2>1. f \in 1 .. Len(s) /\ f # k /\ t[i] = s[f] /\ t[i] \in Nodes /\ t[i] # s[k]
      <3> HIDE DEF from
      <3> QED BY <1>3, <1>5, <1>6
    <2>2. u.next[t[i]] = IF i = Len(t) THEN Null ELSE t[i + 1]
      <3>1. CASE f = k - 1
        <4>1. k # 1 /\ i = k - 1 /\ t[i] = s[k - 1]
          BY <3>1, <2>1, <1>3
        <4>2. u.next[t[i]] = l.next[s[k]]
          BY <4>1, <2>1, <1>2
        <4>3. i = Len(t) <=> k = Len(s)
          BY <4>1, <1>3, <1>5
        <4>4. k # Len(s) => t[i + 1] = s[k + 1]
          <5>1. k # Len(s) => k \in k .. Len(s) - 1 /\ i + 1 = k
            BY <4>1, <1>3
          <5> QED BY <5>1, <1>5
        <4> QED BY <4>2, <4>3, <4>4, <1>4
      <3>2. CASE f # k - 1
        <4>1. k # 1 => k - 1 \in 1 .. Len(s)
          BY <1>3
        <4>2. u.next[t[i]] = l.next[s[f]]
          <5> HIDE DEF f
          <5> QED BY <3>2, <4>1, <2>1, <1>2, <1>3
        <4>3. i = Len(t) <=> f = Len(s)
          BY <3>2, <2>1, <1>3, <1>5
        <4>4. i # Len(t) => i + 1 \in 1 .. Len(s) - 1 /\ from(i + 1) = f + 1
          BY <3>2, <2>1, <1>3, <1>5
        <4>5. i # Len(t) => t[i + 1] = s[f + 1]
          <5> HIDE DEF f, from
          <5> QED BY <4>4, <1>6
        <4> HIDE DEF f
        <4> QED BY <4>2, <4>3, <4>5, <2>1, <1>4
      <3> QED BY <3>1, <3>2
    <2>3. u.prev[t[i]] = IF i = 1 THEN Null ELSE t[i - 1]
      <3>1. CASE f = k + 1
        <4>1. k # Len(s) /\ i = k /\ t[i] = s[k + 1]
          BY <3>1, <2>1, <1>3
        <4>2. u.prev[t[i]] = l.prev[s[k]]
          BY <4>1, <2>1, <1>2
        <4>3. k # 1 => t[i - 1] = s[k - 1]
          <5>1. k # 1 => k - 1 \in 1 .. k - 1 /\ i - 1 = k - 1
            BY <4>1, <1>3
          <5> QED BY <5>1, <1>5
        <4> QED BY <4>1, <4>2, <4>3, <1>4
      <3>2. CASE f # k + 1
        <4>1. k # Len(s) => k + 1 \in 1 .. Len(s)
          BY <1>3
        <4>2. u.prev[t[i]] = l.prev[s[f]]
          <5> HIDE DEF f
          <5> QED BY <3>2, <4>1, <2>1, <1>2, <1>3
        <4>3. i = 1 <=> f = 1
          BY <3>2, <2>1, <1>3, <1>5
        <4>4. i # 1 => i - 1 \in 1 .. Len(s) - 1 /\ from(i - 1) = f - 1
          BY <3>2, <2>1, <1>3, <1>5
        <4>5. i # 1 => t[i - 1] = s[f - 1]
          <5> HIDE DEF f, from
          <5> QED BY <4>4, <1>6
        <4> HIDE DEF f
        <4> QED BY <4>2, <4>3, <4>5, <2>1, <1>4
      <3> QED BY <3>1, <3>2
    <2> QED BY <2>2, <2>3
  <1>9. ASSUME NEW m \in Nodes, \A i \in 1 .. Len(t) : t[i] # m
        PROVE  u.next[m] = Null /\ u.prev[m] = Null
    <2>1. CASE m = s[k]
      BY <2>1, <1>2
    <2>2. CASE m # s[k]
      <3>1. ASSUME NEW j \in 1 .. Len(s)
            PROVE  s[j] # m
        <4>1. CASE j < k
          <5>1. j \in 1 .. k - 1 /\ j \in 1 .. Len(t)
            BY <4>1, <1>3, <1>5
          <5> QED BY <5>1, <1>5, <1>9
        <4>2. CASE j > k
          <5>1. j - 1 \in k .. Len(s) - 1 /\ j - 1 \in 1 .. Len(t) /\ (j - 1) + 1 = j
            BY <4>2, <1>3, <1>5
          <5> QED BY <5>1, <1>5, <1>9
        <4> QED BY <2>2, <4>1, <4>2, <1>3
      <3>2. /\ k # 1 => k - 1 \in 1 .. Len(s)
            /\ k # Len(s) => k + 1 \in 1 .. Len(s)
        BY <1>3
      <3>3. u.next[m] = l.next[m] /\ u.prev[m] = l.prev[m]
        BY <2>2, <3>1, <3>2, <1>2
      <3> QED BY <3>1, <3>3 DEF Holds
    <2> QED BY <2>1, <2>2
  <1>10. IF Len(t) = 0 THEN u.head = Null /\ u.tail = Null
         ELSE u.head = t[1] /\ u.tail = t[Len(t)]
    <2>1. CASE Len(s) = 1
      <3>1. k = 1 /\ k = Len(s) /\ Len(t) = 0
        BY <2>1, <1>3, <1>5
      <3> QED BY <3>1, <1>1, <1>4
    <2>2. CASE Len(s) # 1
      <3>1. Len(t) # 0 /\ Len(t) \in 1 .. Len(s) - 1 /\ 1 \in 1 .. Len(s) - 1
        BY <2>2, <1>3, <1>5
      <3>2. u.head = t[1]
        <4>1. CASE k = 1
          <5>1. k # Len(s) /\ 1 \in k .. Len(s) - 1
            BY <4>1, <2>2, <3>1
          <5>2. t[1] = s[k + 1]
            BY <5>1, <4>1, <1>5
          <5>3. u.head = l.next[s[k]]
            BY <4>1, <1>1
          <5>4. l.next[s[k]] = s[k + 1]
            BY <5>1, <1>4
          <5> QED BY ONLY <5>2, <5>3, <5>4
        <4>2. CASE k # 1
          <5>1. 1 \in 1 .. k - 1
            BY <4>2, <1>3
          <5>2. u.head = s[1]
            BY <4>2, <1>1, <1>3
          <5>3. t[1] = s[1]
            BY ONLY <5>1, <1>5
          <5> QED BY ONLY <5>2, <5>3
        <4> QED BY <4>1, <4>2
      <3>3. u.tail = t[Len(t)]
        <4>1. CASE k = Len(s)
          <5>1. k # 1 /\ Len(t) = k - 1 /\ Len(t) \in 1 .. k - 1
            BY <4>1, <2>2, <1>3, <1>5
          <5>2. t[Len(t)] = s[k - 1]
            BY <5>1, <1>5
          <5>3. u.tail = l.prev[s[k]]
            BY <4>1, <1>1
          <5>4. l.prev[s[k]] = s[k - 1]
            BY <5>1, <1>4
          <5> QED BY ONLY <5>2, <5>3, <5>4
        <4>2. CASE k # Len(s)
          <5>1. Len(t) \in k .. Len(s) - 1 /\ Len(t) + 1 = Len(s)
            BY <4>2, <1>3, <1>5
          <5>2. u.tail = s[Len(s)]
            BY <4>2, <1>1, <1>3
          <5>3. t[Len(t)] = s[Len(t) + 1]
            BY ONLY <5>1, <1>5
          <5> QED BY ONLY <5>1, <5>2, <5>3
        <4> QED BY <4>1, <4>2
      <3> QED BY <3>1, <3>2, <3>3
    <2> QED BY <2>1, <2>2
  <1>11. Holds(u, t)
    BY <1>1, <1>5, <1>7, <1>8, <1>9, <1>10 DEF Holds
  <1> QED BY <1>1, <1>11 DEF u, t

-----------------------------------------------------------------------------
\* The search of ListDeleteNode finds the nodes of the list.
LEMMA LinkedIsHeld ==
    ASSUME Holds(list, Chain), NEW n
    PROVE  Linked(n) <=> \E k \in 1 .. Len(Chain) : Chain[k] = n
  BY DEF Holds, Linked

\* A list has no more nodes than there are.
LEMMA CountFits ==
    ASSUME NEW l, NEW s, Holds(l, s)
    PROVE  l.count \in 0 .. Cardinality(Nodes)
  <1>1. s \in [1 .. Len(s) -> Nodes] /\ Len(s) \in Nat /\ l.count = Len(s)
    <2>1. s \in Seq(Nodes) /\ l.count = Len(s)
      BY DEF Holds
    <2> QED BY ONLY <2>1, LenProperties
  <1>2. s \in Injection(1 .. Len(s), Nodes)
    BY <1>1 DEF Holds, Injection, IsInjective
  <1>3. Cardinality(1 .. Len(s)) <= Cardinality(Nodes)
    BY <1>2, LinkedListAssumption, FS_Injection DEF ExistsInjection
  <1>4. ASSUME NEW n \in Nat PROVE Cardinality(1 .. n) = n
    <2>1. Cardinality(1 .. n) = IF 1 > n THEN 0 ELSE n - 1 + 1
      BY FS_Interval
    <2> QED BY <2>1
  <1>5. Cardinality(Nodes) \in Nat
    BY LinkedListAssumption, FS_CardinalityType
  <1> QED BY <1>1, <1>3, <1>4, <1>5

\* A List that holds nodes has its type.
LEMMA ListIsTyped ==
    ASSUME NEW l, IsList(l), NEW s, Holds(l, s)
    PROVE  l \in [head : NodeOrNull, tail : NodeOrNull, count : 0 .. Cardinality(Nodes),
                  next : [Nodes -> NodeOrNull], prev : [Nodes -> NodeOrNull]]
  <1>1. l.count \in 0 .. Cardinality(Nodes)
    BY CountFits
  <1>2. l.head \in NodeOrNull /\ l.tail \in NodeOrNull
    <2>1. CASE Len(s) = 0
      BY <2>1 DEF Holds, NodeOrNull
    <2>2. CASE Len(s) # 0
      <3>1. 1 \in 1 .. Len(s) /\ Len(s) \in 1 .. Len(s) /\ s \in Seq(Nodes)
        BY <2>2 DEF Holds
      <3> QED BY <2>2, <3>1 DEF Holds, NodeOrNull
    <2> QED BY <2>1, <2>2
  <1> QED BY <1>1, <1>2 DEF IsList, ListOf, Links

\* A step that leaves the list in a sound state, holding t, keeps the invariant.
LEMMA HoldsInductive ==
    ASSUME IsList(list'), NEW t, Holds(list', t), ret' = 0,
           deleting' \in [Threads -> NodeOrNull], out' \in NodeOrNull
    PROVE  LinkInv' /\ Chain' = t
  <1>1. Walk(list') = t
    BY WalkFindsAll
  <1>2. Chain' = t
    BY <1>1 DEF Chain
  <1>3. list' \in [head : NodeOrNull, tail : NodeOrNull, count : 0 .. Cardinality(Nodes),
                   next : [Nodes -> NodeOrNull], prev : [Nodes -> NodeOrNull]]
    BY ListIsTyped
  <1>4. Holds(list, Chain)'
    BY <1>2 DEF Holds
  <1> QED BY <1>2, <1>3, <1>4 DEF LinkInv, TypeOK

LEMMA InitLinkInv ==
    ASSUME Init
    PROVE  LinkInv /\ Chain = <<>>
  <1>1. /\ list = EmptyList /\ deleting = [t \in Threads |-> Null] /\ out = Null /\ ret = 0
    BY DEF Init
  <1>2. IsList(list)
    BY <1>1 DEF EmptyList, IsList, ListOf, Links, NodeOrNull
  <1>3. Holds(list, <<>>)
    BY <1>1 DEF Holds, EmptyList
  <1>4. Walk(list) = <<>>
    BY <1>3, WalkFindsAll
  <1>5. Chain = <<>> /\ Holds(list, Chain)
    BY <1>3, <1>4 DEF Chain
  <1>6. TypeOK
    BY <1>1, <1>2, <1>3, ListIsTyped DEF TypeOK, NodeOrNull
  <1> QED BY <1>1, <1>5, <1>6 DEF LinkInv

\* PopHead takes out the first node, and the others move up.
LEMMA RemoveHead ==
    ASSUME NEW S, NEW s \in Seq(S), Len(s) # 0
    PROVE  RemoveAt(s, 1) = Tail(s)
  <1>1. 1 \in 1 .. Len(s) /\ Len(s) \in Nat
    OBVIOUS
  <1> DEFINE r == RemoveAt(s, 1)
  <1>2. /\ r \in Seq(S) /\ Len(r) = Len(s) - 1
        /\ \A i \in 1 .. Len(s) - 1 : r[i] = s[i + 1]
    BY <1>1, RemoveAtProperties
  <1>3. /\ Tail(s) \in Seq(S) /\ Len(Tail(s)) = Len(s) - 1
        /\ \A i \in 1 .. Len(s) - 1 : Tail(s)[i] = s[i + 1]
    BY <1>1
  <1> HIDE DEF r
  <1>4. r = Tail(s)
    BY <1>2, <1>3, SeqEqual
  <1> QED BY <1>4 DEF r

\* Every step keeps the list sound and does to the sequence of its nodes what
\* SeqList says.
LEMMA NextImplements ==
    ASSUME LinkInv, [Next]_vars
    PROVE  LinkInv' /\ [Abstract!Next]_<<Chain, out>>
  <1> DEFINE c == Chain
  <1>1. /\ IsList(list) /\ Holds(list, c) /\ ret = 0
        /\ deleting \in [Threads -> NodeOrNull] /\ out \in NodeOrNull
        /\ c \in Seq(Nodes) /\ Len(c) \in Nat
    <2>1. list \in [head : NodeOrNull, tail : NodeOrNull, count : 0 .. Cardinality(Nodes),
                   next : [Nodes -> NodeOrNull], prev : [Nodes -> NodeOrNull]]
      BY DEF LinkInv, TypeOK
    <2>2. IsList(list)
      BY <2>1 DEF IsList, ListOf, Links
    <2> QED BY <2>2 DEF LinkInv, TypeOK, Holds
  <1>2. Null \in NodeOrNull /\ Nodes \subseteq NodeOrNull
    BY DEF NodeOrNull
  <1>3. ASSUME NEW n, Linked(n) PROVE \E k \in 1 .. Len(c) : c[k] = n
    BY <1>1, <1>3, LinkedIsHeld
  <1>4. ASSUME NEW n, ~Linked(n)
        PROVE  n \notin Abstract!Members /\ \A k \in 1 .. Len(c) : c[k] # n
    BY <1>1, <1>4, LinkedIsHeld DEF Abstract!Members
  <1>5. ASSUME NEW n \in Nodes, ListPushNode(n)
        PROVE  LinkInv' /\ Abstract!Push(n)
    <2>1. ~Linked(n) /\ list' = PushTail(list, n) /\ out' = Null /\ UNCHANGED <<deleting, ret>>
      BY <1>5 DEF ListPushNode
    <2>2. IsList(list') /\ Holds(list', Append(c, n))
      BY <1>1, <1>4, <2>1, PushTailAppends
    <2>3. LinkInv' /\ Chain' = Append(c, n)
      BY <1>1, <1>2, <2>1, <2>2, HoldsInductive
    <2> QED BY <1>4, <2>1, <2>3 DEF Abstract!Push
  <1>6. ASSUME NEW n \in Nodes, ListPushNodeHead(n)
        PROVE  LinkInv' /\ Abstract!PushHead(n)
    <2>1. ~Linked(n) /\ list' = PushHead(list, n) /\ out' = Null /\ UNCHANGED <<deleting, ret>>
      BY <1>6 DEF ListPushNodeHead
    <2>2. IsList(list') /\ Holds(list', <<n>> \o c)
      BY <1>1, <1>4, <2>1, PushHeadPrepends
    <2>3. LinkInv' /\ Chain' = <<n>> \o c
      BY <1>1, <1>2, <2>1, <2>2, HoldsInductive
    <2> QED BY <1>4, <2>1, <2>3 DEF Abstract!PushHead
  <1>7. ASSUME ListPopNode
        PROVE  LinkInv' /\ Abstract!Pop
    <2>1. out' = list.head /\ UNCHANGED deleting
      BY <1>7 DEF ListPopNode
    <2>2. CASE Len(c) = 0
      <3>1. list.head = Null
        BY <1>1, <2>2 DEF Holds
      <3>2. UNCHANGED <<list, ret>>
        BY <1>7, <3>1 DEF ListPopNode
      <3>3. LinkInv' /\ Chain' = c
        BY <1>1, <1>2, <2>1, <3>1, <3>2, HoldsInductive
      <3>4. c = <<>>
        BY <1>1, <2>2
      <3> QED BY <2>1, <3>1, <3>3, <3>4 DEF Abstract!Pop
    <2>3. CASE Len(c) # 0
      <3>1. 1 \in 1 .. Len(c) /\ c # <<>>
        BY <1>1, <2>3
      <3>2. list.head = c[1] /\ c[1] \in Nodes /\ c[1] # Null
        BY <1>1, <2>3, <3>1, LinkedListAssumption DEF Holds
      <3>3. list' = DeleteNode(list, c[1]).list /\ ret' = DeleteNode(list, c[1]).ret
        BY <1>7, <3>2 DEF ListPopNode
      <3>4. ret' = 0 /\ IsList(list') /\ Holds(list', RemoveAt(c, 1))
        BY <1>1, <3>1, <3>3, DeleteNodeRemoves
      <3>5. LinkInv' /\ Chain' = RemoveAt(c, 1)
        BY <1>1, <1>2, <2>1, <3>2, <3>4, HoldsInductive
      <3>6. RemoveAt(c, 1) = Tail(c)
        BY <1>1, <3>1, RemoveHead
      <3>7. Head(c) = c[1]
        BY <1>1, <3>1
      <3> QED BY <2>1, <3>1, <3>2, <3>5, <3>6, <3>7 DEF Abstract!Pop
    <2> QED BY <2>2, <2>3
  <1>8. ASSUME NEW t \in Threads, NEW n \in Nodes, ListDeleteNodeTest(t, n)
        PROVE  LinkInv' /\ UNCHANGED <<Chain, out>>
    <2>1. deleting' = [deleting EXCEPT ![t] = n] /\ UNCHANGED <<list, out, ret>>
      BY <1>8 DEF ListDeleteNodeTest
    <2>2. deleting' \in [Threads -> NodeOrNull]
      BY <1>1, <1>2, <2>1
    <2> QED BY <1>1, <2>1, <2>2, HoldsInductive
  <1>9. ASSUME NEW t \in Threads, ListDeleteNode(t)
        PROVE  LinkInv' /\ \E n \in Nodes : Abstract!Delete(n)
    <2> DEFINE n == deleting[t]
    <2>1. n \in Nodes /\ deleting' = [deleting EXCEPT ![t] = Null] /\ out' = Null
      BY <1>1, <1>9 DEF ListDeleteNode, NodeOrNull
    <2>2. deleting' \in [Threads -> NodeOrNull]
      BY <1>1, <1>2, <2>1
    <2>3. CASE Linked(n)
      <3>1. PICK k \in 1 .. Len(c) : c[k] = n
        BY <1>3, <2>3
      <3>2. list' = DeleteNode(list, c[k]).list /\ ret' = DeleteNode(list, c[k]).ret
        BY <1>9, <2>3, <3>1 DEF ListDeleteNode
      <3>3. ret' = 0 /\ IsList(list') /\ Holds(list', RemoveAt(c, k))
        BY <1>1, <3>2, DeleteNodeRemoves
      <3>4. LinkInv' /\ Chain' = RemoveAt(c, k)
        BY <1>2, <2>1, <2>2, <3>3, HoldsInductive
      <3> HIDE DEF n
      <3>5. \E i \in 1 .. Len(c) : c[i] = n /\ Chain' = RemoveAt(c, i)
        BY <3>1, <3>4
      <3>6. Abstract!Delete(n)
        BY <2>1, <3>5 DEF Abstract!Delete, Abstract!RemoveAt, RemoveAt
      <3> QED BY <2>1, <3>4, <3>6
    <2>4. CASE ~Linked(n)
      <3>1. UNCHANGED <<list, ret>>
        BY <1>9, <2>4 DEF ListDeleteNode
      <3>2. LinkInv' /\ Chain' = c
        BY <1>1, <1>2, <2>1, <2>2, <3>1, HoldsInductive
      <3> QED BY <1>4, <2>1, <2>4, <3>2 DEF Abstract!Delete
    <2> QED BY <2>3, <2>4
  <1>10. ASSUME UNCHANGED vars
         PROVE  LinkInv' /\ UNCHANGED <<Chain, out>>
    <2>1. UNCHANGED <<list, deleting, out, ret>>
      BY <1>10 DEF vars
    <2> QED BY <1>1, <2>1, HoldsInductive
  <1> QED BY <1>5, <1>6, <1>7, <1>8, <1>9, <1>10 DEF Next, Abstract!Next

-----------------------------------------------------------------------------
\* The links of a list stay sound under every mixture of pushes, pops and deletions.
THEOREM ListInvariant == Spec => []LinkInv
  <1>1. Init => LinkInv
    BY InitLinkInv
  <1>2. LinkInv /\ [Next]_vars => LinkInv'
    BY NextImplements
  <1> QED BY <1>1, <1>2, PTL DEF Spec

\* The pointer code of list.c implements a sequence of nodes, with any number of
\* nodes and of threads that delete them.
THEOREM ListIsASequence == Spec => ImplementsSeqList
  <1>1. Init => Abstract!Init
    BY InitLinkInv DEF Init, Abstract!Init
  <1>2. LinkInv /\ [Next]_vars => [Abstract!Next]_<<Chain, out>>
    BY NextImplements
  <1> QED BY <1>1, <1>2, ListInvariant, PTL DEF Spec, ImplementsSeqList, Abstract!Spec

\* prev is the reverse of next, the search of ListDeleteNode stays inside the list,
\* and no consistency test of DeleteNode ever fails.
THEOREM LinksAreSound == Spec => []WellLinked
  <1>1. LinkInv => WellLinked
    <2> SUFFICES ASSUME LinkInv PROVE WellLinked
      OBVIOUS
    <2> DEFINE c == Chain
    <2>1. TypeOK /\ ret = 0 /\ Holds(list, c)
      BY DEF LinkInv
    <2>2. /\ Len(c) \in Nat /\ list.count = Len(c) /\ \A i \in 1 .. Len(c) : c[i] \in Nodes
          /\ \A i, j \in 1 .. Len(c) : c[i] = c[j] => i = j
      BY <2>1 DEF Holds
    <2>3. list.count = 0 => list.head = Null /\ list.tail = Null
      BY <2>1, <2>2 DEF Holds
    <2>4. ASSUME list.count > 0
          PROVE  /\ list.tail = c[list.count] /\ list.next[list.tail] = Null
                 /\ list.prev[list.head] = Null
                 /\ \A i \in 2 .. list.count : list.prev[c[i]] = c[i - 1]
      <3>1. 1 \in 1 .. Len(c) /\ Len(c) \in 1 .. Len(c) /\ Len(c) # 0
        BY <2>2, <2>4
      <3>2. list.tail = c[list.count] /\ list.head = c[1]
        BY <2>1, <2>2, <3>1 DEF Holds
      <3>3. \A i \in 1 .. Len(c) :
               /\ list.next[c[i]] = IF i = Len(c) THEN Null ELSE c[i + 1]
               /\ list.prev[c[i]] = IF i = 1 THEN Null ELSE c[i - 1]
        BY <2>1 DEF Holds
      <3>4. \A i \in 2 .. list.count : i \in 1 .. Len(c) /\ i # 1
        BY <2>2
      <3> HIDE DEF c
      <3> QED BY <2>2, <3>1, <3>2, <3>3, <3>4
    <2>5. \A n \in Nodes : ~Linked(n) => list.next[n] = Null /\ list.prev[n] = Null
      BY <2>1, LinkedIsHeld DEF Holds
    <2> QED BY <2>1, <2>2, <2>3, <2>4, <2>5 DEF WellLinked
  <1> QED BY <1>1, ListInvariant, PTL
=============================================================================
