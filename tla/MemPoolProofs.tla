--------------------------- MODULE MemPoolProofs ---------------------------
(***************************************************************************)
(* IndInv is an inductive invariant of the block allocator, for any number *)
(* of threads, blocks and pools.  Every theorem below follows from it.     *)
(*                                                                         *)
(* The steps of a thread touch one free list at one end, and one block     *)
(* that the thread owns; the lemmas PopFree and PushFree say what this     *)
(* does to the set of free blocks, and each action then has one step per   *)
(* conjunct of IndInv.                                                     *)
(***************************************************************************)
EXTENDS MemPool, FiniteSetTheorems, TLAPS

\* Popping the head of one pool's free list (ListPopNode in MemAlloc) makes
\* exactly that block not free and keeps the lists sound.
LEMMA PopFree ==
    ASSUME TypeOK, FreeListsAreSound, NEW p \in Pools, pool[p] # <<>>,
           pool' = [pool EXCEPT ![p] = Tail(@)]
    PROVE  /\ Head(pool[p]) \in Blocks
           /\ PoolOf[Head(pool[p])] = p
           /\ Free(Head(pool[p]))
           /\ pool' \in [Pools -> Seq(Blocks)]
           /\ FreeListsAreSound'
           /\ \A b \in Blocks : Free(b)' <=> Free(b) /\ b # Head(pool[p])
  <1> DEFINE s == pool[p]
  <1>1. s \in Seq(Blocks) /\ Len(s) >= 1 /\ Head(s) = s[1] /\ s[1] \in Blocks
    BY DEF TypeOK
  <1>2. /\ Tail(s) \in Seq(Blocks)
        /\ Len(Tail(s)) = Len(s) - 1
        /\ \A i \in 1 .. Len(s) - 1 : Tail(s)[i] = s[i + 1]
    BY <1>1
  <1>3. pool' \in [Pools -> Seq(Blocks)]
    BY <1>2 DEF TypeOK
  <1>4. pool'[p] = Tail(s) /\ \A q \in Pools : q # p => pool'[q] = pool[q]
    BY DEF TypeOK
  <1>5. PoolOf[Head(s)] = p /\ Free(Head(s))
    BY <1>1 DEF FreeListsAreSound, Free
  <1>6. FreeListsAreSound'
    <2> SUFFICES ASSUME NEW q \in Pools
                 PROVE  /\ \A i \in 1 .. Len(pool'[q]) : PoolOf[pool'[q][i]] = q
                        /\ \A i, j \in 1 .. Len(pool'[q]) :
                              pool'[q][i] = pool'[q][j] => i = j
      BY DEF FreeListsAreSound
    <2>1. CASE q = p
      BY <2>1, <1>1, <1>2, <1>4 DEF FreeListsAreSound
    <2>2. CASE q # p
      BY <2>2, <1>4 DEF FreeListsAreSound
    <2> QED BY <2>1, <2>2
  <1>7. ASSUME NEW b \in Blocks
        PROVE  Free(b)' <=> Free(b) /\ b # Head(s)
    <2>1. CASE PoolOf[b] # p
      BY <2>1, <1>4, <1>5, MemPoolAssumption DEF Free
    <2>2. CASE PoolOf[b] = p
      <3>1. Free(b)' <=> \E i \in 1 .. Len(s) - 1 : s[i + 1] = b
        <4>1. Free(b)' <=> \E i \in 1 .. Len(Tail(s)) : Tail(s)[i] = b
          BY <2>2, <1>4 DEF Free
        <4> HIDE DEF s
        <4> QED BY <4>1, <1>2
      <3>2. Free(b) <=> \E i \in 1 .. Len(s) : s[i] = b
        BY <2>2 DEF Free
      <3>3. ASSUME NEW i \in 1 .. Len(s) - 1, s[i + 1] = b
            PROVE  Free(b) /\ b # Head(s)
        BY <3>3, <3>2, <1>1 DEF FreeListsAreSound
      <3>4. ASSUME NEW i \in 1 .. Len(s), s[i] = b, b # Head(s)
            PROVE  \E k \in 1 .. Len(s) - 1 : s[k + 1] = b
        <4>1. i - 1 \in 1 .. Len(s) - 1 /\ s[(i - 1) + 1] = b
          BY <3>4, <1>1
        <4> QED BY <4>1
      <3> QED BY <3>1, <3>2, <3>3, <3>4
    <2> QED BY <2>1, <2>2
  <1> QED BY <1>1, <1>3, <1>5, <1>6, <1>7

\* Pushing a block that is in no free list (ListPushNode in MemFree) makes
\* exactly that block free and keeps the lists sound.
LEMMA PushFree ==
    ASSUME TypeOK, FreeListsAreSound, NEW a \in Blocks, ~Free(a),
           pool' = [pool EXCEPT ![PoolOf[a]] = Append(@, a)]
    PROVE  /\ pool' \in [Pools -> Seq(Blocks)]
           /\ FreeListsAreSound'
           /\ \A b \in Blocks : Free(b)' <=> Free(b) \/ b = a
  <1> DEFINE p == PoolOf[a]
             s == pool[p]
  <1>1. p \in Pools /\ s \in Seq(Blocks) /\ Len(s) \in Nat
    BY MemPoolAssumption DEF TypeOK
  <1>2. /\ Append(s, a) \in Seq(Blocks)
        /\ Len(Append(s, a)) = Len(s) + 1
        /\ \A i \in 1 .. Len(s) : Append(s, a)[i] = s[i]
        /\ Append(s, a)[Len(s) + 1] = a
    BY <1>1
  <1>3. pool' \in [Pools -> Seq(Blocks)]
    BY <1>1, <1>2 DEF TypeOK
  <1>4. pool'[p] = Append(s, a) /\ \A q \in Pools : q # p => pool'[q] = pool[q]
    BY <1>1 DEF TypeOK
  <1>5. \A i \in 1 .. Len(s) : s[i] # a
    BY DEF Free
  <1>6. FreeListsAreSound'
    <2> SUFFICES ASSUME NEW q \in Pools
                 PROVE  /\ \A i \in 1 .. Len(pool'[q]) : PoolOf[pool'[q][i]] = q
                        /\ \A i, j \in 1 .. Len(pool'[q]) :
                              pool'[q][i] = pool'[q][j] => i = j
      BY DEF FreeListsAreSound
    <2>1. CASE q = p
      <3>1. ASSUME NEW i \in 1 .. Len(s) + 1
            PROVE  i \in 1 .. Len(s) \/ i = Len(s) + 1
        BY <1>1
      <3> QED BY <2>1, <1>1, <1>2, <1>4, <1>5, <3>1 DEF FreeListsAreSound
    <2>2. CASE q # p
      BY <2>2, <1>4 DEF FreeListsAreSound
    <2> QED BY <2>1, <2>2
  <1>7. ASSUME NEW b \in Blocks
        PROVE  Free(b)' <=> Free(b) \/ b = a
    <2>1. CASE PoolOf[b] # p
      BY <2>1, <1>4, MemPoolAssumption DEF Free
    <2>2. CASE PoolOf[b] = p
      <3>1. Free(b)' <=> \E i \in 1 .. Len(s) + 1 : Append(s, a)[i] = b
        BY <2>2, <1>2, <1>4 DEF Free
      <3>2. Free(b) <=> \E i \in 1 .. Len(s) : s[i] = b
        BY <2>2 DEF Free
      <3> QED BY <1>1, <1>2, <3>1, <3>2
    <2> QED BY <2>1, <2>2
  <1> QED BY <1>3, <1>6, <1>7

\* A step that leaves the free lists alone and every block with its owner
\* keeps BlockConservation, if the owner still has it only once.
LEMMA SameOwners ==
    ASSUME BlockConservation, pool' = pool,
           \A t \in Threads, b \in Blocks : Owns(t, b)' <=> Owns(t, b),
           \A t \in Threads : HandsAreDistinct(t)'
    PROVE  BlockConservation'
  <1>1. \A b \in Blocks : Free(b)' <=> Free(b)
    BY DEF Free
  <1>2. FreeListsAreSound'
    BY DEF FreeListsAreSound, BlockConservation
  <1> QED BY <1>1, <1>2 DEF BlockConservation

-----------------------------------------------------------------------------
\* MemAlloc only chooses a pool that is large enough: no block moves.
LEMMA MemAllocInductive ==
    ASSUME IndInv, NEW t \in Threads, NEW len \in Lengths, MemAlloc(t, len)
    PROVE  IndInv'
  <1> USE DEF MemAlloc, StartAlloc, blockVars, freeVars, kpiVars
  <1>1. TypeOK'
    BY MemPoolAssumption DEF IndInv, TypeOK, PcLabels, Pools
  <1>2. BlockConservation'
    <2>1. \A u \in Threads : HandsAreDistinct(u)' <=> HandsAreDistinct(u)
      BY DEF HandsAreDistinct
    <2>2. \A u \in Threads, b \in Blocks : Owns(u, b)' <=> Owns(u, b)
      BY DEF Owns
    <2> QED BY <2>1, <2>2, SameOwners DEF IndInv, BlockConservation
  <1>3. LocalsAgree'
    BY MemPoolAssumption DEF IndInv, TypeOK, LocalsAgree, Size, IsMatch
  <1>4. UseFlags' /\ LengthBound'
    BY DEF IndInv, TypeOK, UseFlags, LengthBound, Size, LocalsAgree
  <1> QED BY <1>1, <1>2, <1>3, <1>4 DEF IndInv

\* The pop in MemAlloc moves one block from a free list to the thread; an empty
\* pool passes the request on to a pool that is at least as large.
LEMMA MemAllocPopInductive ==
    ASSUME IndInv, NEW t \in Threads, MemAllocPop(t)
    PROVE  IndInv'
  <1> DEFINE p == poolId[t]
  <1>0. p \in Pools /\ pc[t] = "pop" /\ TypeOK /\ FreeListsAreSound
        /\ node[t] = NoBlock /\ want[t] <= PoolSize[p]
    BY DEF IndInv, LocalsAgree, MemAllocPop, BlockConservation
  <1>1. CASE /\ pool[p] # <<>>
             /\ node' = [node EXCEPT ![t] = Head(pool[p])]
             /\ pool' = [pool EXCEPT ![p] = Tail(@)]
             /\ pc' = [pc EXCEPT ![t] = "mark"]
             /\ UNCHANGED <<poolId, want, isInUsed, length, held, freeVars, kpiVars>>
    <2> DEFINE h == Head(pool[p])
    <2>1. /\ h \in Blocks /\ PoolOf[h] = p /\ Free(h)
          /\ pool' \in [Pools -> Seq(Blocks)]
          /\ FreeListsAreSound'
          /\ \A b \in Blocks : Free(b)' <=> Free(b) /\ b # h
      BY <1>0, <1>1, PopFree
    <2> HIDE DEF h, p
    <2>2. node' = [node EXCEPT ![t] = h]
      BY <1>1 DEF h
    <2>3. TypeOK'
      BY <1>1, <2>1, <2>2 DEF IndInv, TypeOK, PcLabels, freeVars, kpiVars
    <2>4. \A u \in Threads : ~Owns(u, h)
      BY <2>1 DEF IndInv, BlockConservation
    <2>5. \A u \in Threads, b \in Blocks : Owns(u, b)' <=> Owns(u, b) \/ (u = t /\ b = h)
      <3>1. UNCHANGED <<held, buf, rest>>
        BY <1>1 DEF freeVars
      <3>2. \A u \in Threads : node'[u] = IF u = t THEN h ELSE node[u]
        BY <2>2 DEF IndInv, TypeOK
      <3>3. \A b \in Blocks : b # node[t]
        BY <1>0, MemPoolAssumption
      <3> QED BY <3>1, <3>2, <3>3, <2>1 DEF Owns
    <2>6. \A u \in Threads : HandsAreDistinct(u)'
      <3>1. \A u \in Threads : HandsAreDistinct(u)
        BY DEF IndInv, BlockConservation
      <3>2. UNCHANGED <<held, buf, rest>>
        BY <1>1 DEF freeVars
      <3>3. \A u \in Threads : node'[u] = IF u = t THEN h ELSE node[u]
        BY <2>2 DEF IndInv, TypeOK
      <3>4. \A u \in Threads : h \notin held[u] /\ h # buf[u] /\ h # rest[u]
        BY <2>4 DEF Owns
      <3> QED BY <3>1, <3>2, <3>3, <3>4 DEF HandsAreDistinct
    <2>7. BlockConservation'
      BY <2>1, <2>4, <2>5, <2>6 DEF IndInv, BlockConservation
    <2>8. LocalsAgree'
      <3>1. want[t] <= Size(h)
        BY <1>0, <2>1 DEF Size
      <3>2. h # NoBlock
        BY <2>1, MemPoolAssumption
      <3> QED BY <1>0, <1>1, <2>2, <3>1, <3>2
              DEF IndInv, TypeOK, LocalsAgree, Size, freeVars
    <2>9. UseFlags' /\ LengthBound'
      BY <1>0, <1>1 DEF IndInv, TypeOK, UseFlags, LengthBound, Size, freeVars
    <2> QED BY <2>3, <2>7, <2>8, <2>9 DEF IndInv
  <1>2. CASE /\ p < NumPools
             /\ poolId' = [poolId EXCEPT ![t] = p + 1]
             /\ UNCHANGED <<pool, node, pc, want, isInUsed, length, held, freeVars, kpiVars>>
    <2>1. p + 1 \in Pools /\ PoolSize[p] <= PoolSize[p + 1]
      BY <1>0, <1>2, MemPoolAssumption DEF Pools
    <2>2. TypeOK'
      BY <1>0, <1>2 DEF IndInv, TypeOK, freeVars, kpiVars, Pools
    <2>3. BlockConservation'
      <3>1. \A u \in Threads : HandsAreDistinct(u)' <=> HandsAreDistinct(u)
        BY <1>2 DEF HandsAreDistinct, freeVars
      <3>2. \A u \in Threads, b \in Blocks : Owns(u, b)' <=> Owns(u, b)
        BY <1>2 DEF Owns, freeVars
      <3> QED BY <1>2, <3>1, <3>2, SameOwners DEF IndInv, BlockConservation
    <2>4. LocalsAgree'
      BY <1>0, <1>2, <2>1, MemPoolAssumption DEF IndInv, TypeOK, LocalsAgree, Size, freeVars
    <2>5. UseFlags' /\ LengthBound'
      BY <1>2 DEF IndInv, UseFlags, LengthBound, Size, freeVars
    <2> QED BY <2>2, <2>3, <2>4, <2>5 DEF IndInv
  <1>3. CASE /\ AllocReturns(t)
             /\ UNCHANGED <<pool, node, isInUsed, length, held, freeVars, kpiVars>>
    <2>1. TypeOK'
      BY <1>3 DEF IndInv, TypeOK, PcLabels, AllocReturns, freeVars, kpiVars
    <2>2. BlockConservation'
      <3>1. \A u \in Threads : HandsAreDistinct(u)' <=> HandsAreDistinct(u)
        BY <1>3 DEF HandsAreDistinct, freeVars
      <3>2. \A u \in Threads, b \in Blocks : Owns(u, b)' <=> Owns(u, b)
        BY <1>3 DEF Owns, freeVars
      <3> QED BY <1>3, <3>1, <3>2, SameOwners DEF IndInv, BlockConservation
    <2>3. LocalsAgree'
      BY <1>0, <1>3, MemPoolAssumption
         DEF IndInv, TypeOK, LocalsAgree, Size, AllocReturns, freeVars
    <2>4. UseFlags' /\ LengthBound'
      BY <1>0, <1>3 DEF IndInv, TypeOK, UseFlags, LengthBound, Size, AllocReturns, freeVars
    <2> QED BY <2>1, <2>2, <2>3, <2>4 DEF IndInv
  <1> QED BY <1>1, <1>2, <1>3 DEF MemAllocPop

\* When MemAlloc writes the header the block becomes a buffer of its caller, used
\* and of a length that fits.
LEMMA MemAllocMarkInductive ==
    ASSUME IndInv, NEW t \in Threads, MemAllocMark(t)
    PROVE  IndInv'
  <1> DEFINE n == node[t]
  <1>0. n \in Blocks /\ pc[t] = "mark" /\ n # NoBlock /\ want[t] <= Size(n)
    BY DEF IndInv, TypeOK, LocalsAgree, MemAllocMark
  <1>1. TypeOK'
    BY <1>0 DEF IndInv, TypeOK, PcLabels, MemAllocMark, AllocReturns, freeVars, kpiVars
  <1>2. BlockConservation'
    <2>1. \A u \in Threads : HandsAreDistinct(u)'
      BY <1>0, MemPoolAssumption
         DEF IndInv, TypeOK, BlockConservation, HandsAreDistinct, MemAllocMark, freeVars
    <2>2. \A u \in Threads, b \in Blocks : Owns(u, b)' <=> Owns(u, b)
      BY <1>0, MemPoolAssumption DEF IndInv, TypeOK, Owns, MemAllocMark, freeVars
    <2> QED BY <2>1, <2>2, SameOwners DEF IndInv, MemAllocMark
  <1>3. LocalsAgree'
    BY <1>0, MemPoolAssumption
       DEF IndInv, TypeOK, LocalsAgree, Size, MemAllocMark, AllocReturns, freeVars
  <1>4. UseFlags'
    BY <1>0, MemPoolAssumption
       DEF IndInv, TypeOK, UseFlags, MemAllocMark, AllocReturns, freeVars
  <1>5. LengthBound'
    BY <1>0 DEF IndInv, TypeOK, BlockConservation, Owns, LengthBound, Size, MemAllocMark
  <1> QED BY <1>1, <1>2, <1>3, <1>4, <1>5 DEF IndInv

-----------------------------------------------------------------------------
\* The call of MemFree moves a buffer from the caller to MemFree.
LEMMA MemFreeInductive ==
    ASSUME IndInv, NEW t \in Threads, NEW b \in Blocks, MemFree(t, b)
    PROVE  IndInv'
  <1> USE DEF MemFree, blockVars, allocVars, kpiVars
  <1>0. b \in held[t] /\ b # NoBlock /\ buf[t] = NoBlock /\ rest[t] = NoBlock /\ node[t] = NoBlock
    BY MemPoolAssumption DEF IndInv, LocalsAgree
  <1>1. TypeOK'
    BY DEF IndInv, TypeOK, PcLabels
  <1>2. BlockConservation'
    <2>1. \A u \in Threads : HandsAreDistinct(u)'
      BY <1>0 DEF IndInv, TypeOK, BlockConservation, HandsAreDistinct
    <2>2. \A u \in Threads, c \in Blocks : Owns(u, c)' <=> Owns(u, c)
      BY <1>0, MemPoolAssumption DEF IndInv, TypeOK, Owns
    <2> QED BY <2>1, <2>2, SameOwners DEF IndInv
  <1>3. LocalsAgree'
    BY <1>0 DEF IndInv, TypeOK, LocalsAgree, Size
  <1>4. UseFlags' /\ LengthBound'
    BY <1>0 DEF IndInv, TypeOK, UseFlags, LengthBound, Size
  <1> QED BY <1>1, <1>2, <1>3, <1>4 DEF IndInv

\* The test of isInUsed in MemFree changes nothing, as it always succeeds.
LEMMA MemFreeCheckInductive ==
    ASSUME IndInv, NEW t \in Threads, MemFreeCheck(t)
    PROVE  IndInv'
  <1> USE DEF MemFreeCheck, blockVars, allocVars, freeVars, kpiVars
  <1>0. /\ isInUsed[buf[t]] = 1 /\ buf[t] # NoBlock /\ pc[t] = "check"
        /\ pc' = [pc EXCEPT ![t] = "clear"] /\ UNCHANGED <<buf, rest>>
    BY DEF IndInv, LocalsAgree, UseFlags
  <1>1. TypeOK'
    BY <1>0 DEF IndInv, TypeOK, PcLabels
  <1>2. BlockConservation'
    <2>1. \A u \in Threads : HandsAreDistinct(u)' <=> HandsAreDistinct(u)
      BY <1>0 DEF HandsAreDistinct
    <2>2. \A u \in Threads, c \in Blocks : Owns(u, c)' <=> Owns(u, c)
      BY <1>0 DEF Owns
    <2> QED BY <2>1, <2>2, SameOwners DEF IndInv, BlockConservation
  <1>3. LocalsAgree'
    BY <1>0 DEF IndInv, TypeOK, LocalsAgree, Size
  <1>4. UseFlags' /\ LengthBound'
    BY <1>0 DEF IndInv, TypeOK, UseFlags, LengthBound, Size
  <1> QED BY <1>1, <1>2, <1>3, <1>4 DEF IndInv

\* The reset of the header in MemFree touches a block that nobody else owns.
LEMMA MemFreeClearInductive ==
    ASSUME IndInv, NEW t \in Threads, MemFreeClear(t)
    PROVE  IndInv'
  <1> USE DEF MemFreeClear, blockVars, allocVars, freeVars, kpiVars
  <1> DEFINE c == buf[t]
  <1>0. c \in Blocks /\ c # NoBlock /\ pc[t] = "clear"
    BY DEF IndInv, TypeOK, LocalsAgree
  <1>1. TypeOK'
    BY <1>0 DEF IndInv, TypeOK, PcLabels
  <1>2. BlockConservation'
    <2>1. \A u \in Threads : HandsAreDistinct(u)' <=> HandsAreDistinct(u)
      BY DEF HandsAreDistinct
    <2>2. \A u \in Threads, b \in Blocks : Owns(u, b)' <=> Owns(u, b)
      BY DEF Owns
    <2> QED BY <2>1, <2>2, SameOwners DEF IndInv, BlockConservation
  <1>3. LocalsAgree'
    BY <1>0 DEF IndInv, TypeOK, LocalsAgree, Size
  <1>4. UseFlags'
    <2>1. \A u \in Threads : c \notin held[u] /\ (u # t => c # buf[u]) /\ c # rest[u]
      BY <1>0 DEF IndInv, BlockConservation, HandsAreDistinct, Owns
    <2> QED BY <1>0, <2>1 DEF IndInv, TypeOK, UseFlags
  <1>5. LengthBound'
    <2>1. \A u \in Threads : c \notin held[u]
      BY <1>0 DEF IndInv, BlockConservation, HandsAreDistinct, Owns
    <2> QED BY <1>0, <2>1 DEF IndInv, TypeOK, LengthBound, Size
  <1> QED BY <1>1, <1>2, <1>3, <1>4, <1>5 DEF IndInv

\* The push in MemFree makes the block free; MemJoin goes on with its other one.
LEMMA MemFreePushInductive ==
    ASSUME IndInv, NEW t \in Threads, MemFreePush(t)
    PROVE  IndInv'
  <1> USE DEF MemFreePush, FreeReturns, allocVars, kpiVars
  <1> DEFINE c == buf[t]
  <1>0. c \in Blocks /\ c # NoBlock /\ pc[t] = "push" /\ node[t] = NoBlock
    BY DEF IndInv, TypeOK, LocalsAgree
  <1>1. ~Free(c) /\ TypeOK /\ FreeListsAreSound
    BY <1>0 DEF IndInv, BlockConservation, Owns
  <1>2. /\ pool' \in [Pools -> Seq(Blocks)]
        /\ FreeListsAreSound'
        /\ \A b \in Blocks : Free(b)' <=> Free(b) \/ b = c
    BY <1>0, <1>1, PushFree
  <1>3. TypeOK'
    BY <1>2 DEF IndInv, TypeOK, PcLabels
  <1>4. BlockConservation'
    <2>1. \A u \in Threads : c \notin held[u] /\ (u # t => c # buf[u]) /\ c # rest[u] /\ c # node[u]
      BY <1>0 DEF IndInv, BlockConservation, HandsAreDistinct, Owns
    <2>2. \A u \in Threads, b \in Blocks : Owns(u, b)' <=> Owns(u, b) /\ b # c
      <3>1. /\ UNCHANGED <<held, node>>
            /\ \A u \in Threads : /\ buf'[u] = IF u = t THEN rest[u] ELSE buf[u]
                                  /\ rest'[u] = IF u = t THEN NoBlock ELSE rest[u]
        BY DEF IndInv, TypeOK
      <3>2. \A b \in Blocks : b # NoBlock
        BY MemPoolAssumption
      <3> QED BY <3>1, <3>2, <1>0, <2>1 DEF Owns
    <2>3. \A u \in Threads : HandsAreDistinct(u)'
      BY <1>0, MemPoolAssumption DEF IndInv, TypeOK, BlockConservation, HandsAreDistinct
    <2> HIDE DEF c, MemFreePush
    <2> QED BY <1>2, <2>2, <2>3 DEF IndInv, BlockConservation
  <1>5. LocalsAgree'
    BY <1>0 DEF IndInv, TypeOK, LocalsAgree, Size
  <1>6. UseFlags' /\ LengthBound'
    BY <1>0 DEF IndInv, TypeOK, UseFlags, LengthBound, Size
  <1> QED BY <1>3, <1>4, <1>5, <1>6 DEF IndInv

-----------------------------------------------------------------------------
\* Both ways of joining in place: one buffer grows, the other one is freed.
LEMMA JoinIntoInductive ==
    ASSUME IndInv, NEW t \in Threads, NEW keep \in Blocks, NEW gone \in Blocks,
           pc[t] = "idle", keep \in held[t], gone \in held[t], keep # gone,
           length[keep] + length[gone] <= Size(keep),
           JoinInto(t, keep, gone), UNCHANGED <<pool, isInUsed, kpiVars>>
    PROVE  IndInv'
  <1> USE DEF JoinInto, allocVars, kpiVars
  <1>0. gone # NoBlock /\ buf[t] = NoBlock /\ rest[t] = NoBlock /\ node[t] = NoBlock
    BY MemPoolAssumption DEF IndInv, LocalsAgree
  <1>1. TypeOK'
    BY DEF IndInv, TypeOK, PcLabels
  <1>2. BlockConservation'
    <2>1. \A u \in Threads : HandsAreDistinct(u)'
      BY <1>0 DEF IndInv, TypeOK, BlockConservation, HandsAreDistinct
    <2>2. \A u \in Threads, c \in Blocks : Owns(u, c)' <=> Owns(u, c)
      BY <1>0, MemPoolAssumption DEF IndInv, TypeOK, Owns
    <2> QED BY <2>1, <2>2, SameOwners DEF IndInv
  <1>3. LocalsAgree'
    BY <1>0 DEF IndInv, TypeOK, LocalsAgree, Size
  <1>4. UseFlags'
    BY <1>0 DEF IndInv, TypeOK, UseFlags
  <1>5. LengthBound'
    BY DEF IndInv, TypeOK, LengthBound, Size
  <1> QED BY <1>1, <1>2, <1>3, <1>4, <1>5 DEF IndInv

\* Joining by copy: both arguments are on their way to MemFree, whether or not
\* a pool can hold the joined length.
LEMMA JoinByCopyInductive ==
    ASSUME IndInv, NEW t \in Threads, NEW src \in Blocks, NEW dst \in Blocks, NEW sum \in Nat,
           pc[t] = "idle", src \in held[t], dst \in held[t], src # dst,
           JoinByCopy(t, src, dst, sum), UNCHANGED <<pool, isInUsed, kpiVars>>
    PROVE  IndInv'
  <1> USE DEF JoinByCopy, StartAlloc, allocVars, kpiVars
  <1>0. /\ src # NoBlock /\ dst # NoBlock
        /\ buf[t] = NoBlock /\ rest[t] = NoBlock /\ node[t] = NoBlock
    BY MemPoolAssumption DEF IndInv, LocalsAgree
  <1>1. TypeOK'
    <2>1. held' \in [Threads -> SUBSET Blocks]
      BY DEF IndInv, TypeOK
    <2>2. pc' \in [Threads -> PcLabels] /\ want' \in [Threads -> Nat] /\ poolId' \in [Threads -> Nat]
      <3>1. ASSUME NEW p \in Pools, StartAlloc(t, sum, p)
            PROVE  pc' \in [Threads -> PcLabels] /\ want' \in [Threads -> Nat]
                   /\ poolId' \in [Threads -> Nat]
        BY <3>1 DEF IndInv, TypeOK, PcLabels, Pools
      <3>2. CASE pc' = [pc EXCEPT ![t] = "check"] /\ UNCHANGED allocVars
        BY <3>2 DEF IndInv, TypeOK, PcLabels
      <3> QED BY <3>1, <3>2
    <2>3. node' = node
      OBVIOUS
    <2> QED BY <2>1, <2>2, <2>3 DEF IndInv, TypeOK
  <1>2. BlockConservation'
    <2>1. \A u \in Threads : HandsAreDistinct(u)'
      BY <1>0 DEF IndInv, TypeOK, BlockConservation, HandsAreDistinct
    <2>2. \A u \in Threads, c \in Blocks : Owns(u, c)' <=> Owns(u, c)
      BY <1>0, MemPoolAssumption DEF IndInv, TypeOK, Owns
    <2> QED BY <2>1, <2>2, SameOwners DEF IndInv
  <1>3. LocalsAgree'
    BY <1>0 DEF IndInv, TypeOK, LocalsAgree, Size, IsMatch
  <1>4. UseFlags' /\ LengthBound'
    BY <1>0 DEF IndInv, TypeOK, UseFlags, LengthBound, Size
  <1> QED BY <1>1, <1>2, <1>3, <1>4 DEF IndInv

\* MemJoin, by the way it takes.
LEMMA MemJoinInductive ==
    ASSUME IndInv, NEW t \in Threads, NEW src \in Blocks, NEW dst \in Blocks,
           MemJoin(t, src, dst)
    PROVE  IndInv'
  <1> DEFINE sum == length[src] + length[dst]
  <1>1. /\ sum \in Nat /\ length[dst] + length[src] = sum
        /\ pc[t] = "idle" /\ src \in held[t] /\ dst \in held[t] /\ src # dst
        /\ UNCHANGED <<pool, isInUsed, kpiVars>>
    BY DEF IndInv, TypeOK, MemJoin
  <1>2. CASE Size(src) >= sum /\ JoinInto(t, src, dst)
    BY <1>1, <1>2, JoinIntoInductive DEF Size
  <1>3. CASE Size(dst) >= sum /\ JoinInto(t, dst, src)
    BY <1>1, <1>3, JoinIntoInductive DEF Size
  <1>4. CASE JoinByCopy(t, src, dst, sum)
    BY <1>1, <1>4, JoinByCopyInductive
  <1> QED BY <1>2, <1>3, <1>4 DEF MemJoin

\* MemRemove only makes a buffer shorter.
LEMMA MemRemoveInductive ==
    ASSUME IndInv, NEW t \in Threads, NEW b \in Blocks,
           NEW where \in {0} \cup Lengths, NEW count \in Lengths,
           MemRemove(t, b, where, count)
    PROVE  IndInv'
  <1> USE DEF MemRemove, allocVars, freeVars, kpiVars
  <1> DEFINE n == IF count > length[b] - where THEN where ELSE length[b] - count
  <1>0. n \in Nat /\ n <= length[b] /\ length' = [length EXCEPT ![b] = n]
    <2>1. where \in Nat /\ count \in Nat /\ length[b] \in Nat /\ where < length[b]
      BY MemPoolAssumption DEF IndInv, TypeOK
    <2>2. n \in Nat /\ n <= length[b]
      BY <2>1
    <2> QED BY <2>2
  <1> HIDE DEF n
  <1>1. TypeOK'
    BY <1>0 DEF IndInv, TypeOK
  <1>2. BlockConservation'
    <2>1. \A u \in Threads : HandsAreDistinct(u)' <=> HandsAreDistinct(u)
      BY DEF HandsAreDistinct
    <2>2. \A u \in Threads, c \in Blocks : Owns(u, c)' <=> Owns(u, c)
      BY DEF Owns
    <2> QED BY <2>1, <2>2, SameOwners DEF IndInv, BlockConservation
  <1>3. LocalsAgree' /\ UseFlags'
    BY DEF IndInv, LocalsAgree, UseFlags, Size
  <1>4. LengthBound'
    <2>1. \A c \in Blocks : Size(c) \in Nat
      BY MemPoolAssumption DEF Size
    <2>2. \A c \in Blocks : length'[c] \in Nat /\ length[c] \in Nat /\ length'[c] <= length[c]
      BY <1>0 DEF IndInv, TypeOK
    <2>3. held' = held /\ \A u \in Threads : held[u] \subseteq Blocks
      BY DEF IndInv, TypeOK
    <2>4. \A c \in Blocks : Size(c)' = Size(c)
      BY DEF Size
    <2> QED BY <2>1, <2>2, <2>3, <2>4 DEF IndInv, LengthBound
  <1> QED BY <1>1, <1>2, <1>3, <1>4 DEF IndInv

\* The KPI thread only reads what the allocator keeps.
LEMMA KpiInductive ==
    ASSUME IndInv, MemGetAvailableMemBlock \/ KpiRefresh
    PROVE  IndInv'
  <1> USE DEF MemGetAvailableMemBlock, KpiRefresh, blockVars, allocVars, freeVars
  <1>1. TypeOK'
    <2>1. CASE MemGetAvailableMemBlock
      BY <2>1 DEF IndInv, TypeOK
    <2>2. CASE KpiRefresh
      <3>1. NUM_MEM_BLOCK \in Nat
        BY FS_CardinalityType, MemPoolAssumption DEF NUM_MEM_BLOCK
      <3> QED BY <2>2, <3>1 DEF IndInv, TypeOK
    <2> QED BY <2>1, <2>2
  <1>2. BlockConservation'
    <2>1. \A u \in Threads : HandsAreDistinct(u)' <=> HandsAreDistinct(u)
      BY DEF HandsAreDistinct
    <2>2. \A u \in Threads, c \in Blocks : Owns(u, c)' <=> Owns(u, c)
      BY DEF Owns
    <2>3. pool' = pool
      OBVIOUS
    <2> QED BY <2>1, <2>2, <2>3, SameOwners DEF IndInv, BlockConservation
  <1>3. LocalsAgree' /\ UseFlags' /\ LengthBound'
    BY DEF IndInv, LocalsAgree, UseFlags, LengthBound, Size
  <1> QED BY <1>1, <1>2, <1>3 DEF IndInv

-----------------------------------------------------------------------------
\* The state InitMemPool builds satisfies the invariant: every block is in the
\* free list of its pool.
LEMMA InitIndInv == Init => IndInv
  <1> SUFFICES ASSUME Init PROVE IndInv
    OBVIOUS
  <1> USE MemPoolAssumption DEF Init
  <1>1. TypeOK
    BY DEF TypeOK, PcLabels
  <1>2. BlockConservation
    <2>1. FreeListsAreSound
      BY DEF FreeListsAreSound
    <2>2. ASSUME NEW b \in Blocks PROVE Free(b)
      <3>1. PoolOf[b] \in Pools
        OBVIOUS
      <3>2. PICK i \in 1 .. Len(PoolBuffer[PoolOf[b]]) : PoolBuffer[PoolOf[b]][i] = b
        BY <3>1
      <3>3. pool[PoolOf[b]] = PoolBuffer[PoolOf[b]]
        BY <3>1
      <3> QED BY <3>2, <3>3 DEF Free
    <2>3. \A b \in Blocks, t \in Threads : ~Owns(t, b)
      BY DEF Owns
    <2> QED BY <2>1, <2>2, <2>3 DEF BlockConservation, HandsAreDistinct
  <1>3. LocalsAgree /\ UseFlags /\ LengthBound
    BY DEF LocalsAgree, UseFlags, LengthBound
  <1> QED BY <1>1, <1>2, <1>3 DEF IndInv

\* Every step of every thread keeps the invariant of mempool.c.
LEMMA NextIndInv == IndInv /\ [Next]_vars => IndInv'
  <1> SUFFICES ASSUME IndInv, [Next]_vars PROVE IndInv'
    OBVIOUS
  <1>1. CASE UNCHANGED vars
    BY <1>1 DEF vars, blockVars, allocVars, freeVars, kpiVars, IndInv, TypeOK,
                BlockConservation, FreeListsAreSound, HandsAreDistinct, Owns, Free,
                LocalsAgree, UseFlags, LengthBound, Size
  <1>2. ASSUME NEW t \in Threads, AllocStep(t) PROVE IndInv'
    BY <1>2, MemAllocInductive, MemAllocPopInductive, MemAllocMarkInductive DEF AllocStep
  <1>3. ASSUME NEW t \in Threads, FreeStep(t) PROVE IndInv'
    BY <1>3, MemFreeInductive, MemFreeCheckInductive, MemFreeClearInductive,
       MemFreePushInductive DEF FreeStep
  <1>4. ASSUME NEW t \in Threads, DataStep(t) PROVE IndInv'
    BY <1>4, MemJoinInductive, MemRemoveInductive DEF DataStep
  <1>5. CASE MemGetAvailableMemBlock \/ KpiRefresh
    BY <1>5, KpiInductive
  <1> QED BY <1>1, <1>2, <1>3, <1>4, <1>5 DEF Next

\* The inductive invariant of mempool.c under concurrent callers.
THEOREM AllocatorInvariant == Spec => []IndInv
  BY InitIndInv, NextIndInv, PTL DEF Spec

\* Types: the fields and locals of mempool.c keep their ranges.
THEOREM TypeCorrect == Spec => []TypeOK
  <1>1. IndInv => TypeOK
    BY DEF IndInv
  <1> QED BY <1>1, AllocatorInvariant, PTL

\* No interleaving of MemAlloc, MemFree and MemJoin loses a block, frees one
\* twice into a list, or gives one to two owners.
THEOREM Conservation == Spec => []BlockConservation
  <1>1. IndInv => BlockConservation
    BY DEF IndInv
  <1> QED BY <1>1, AllocatorInvariant, PTL

\* The unlocked test of isInUsed in MemFree never reports "already free" to a
\* caller that frees only what it owns: the lock its TODO asks about is not needed.
THEOREM FreeNeedsNoLock == Spec => []NoDoubleFree
  <1>1. IndInv => NoDoubleFree
    BY DEF IndInv, LocalsAgree, UseFlags, NoDoubleFree
  <1> QED BY <1>1, AllocatorInvariant, PTL

\* What MemAlloc, MemJoin and MemRemove record as a buffer's length fits in its block
\* and is not below 0.
THEOREM BuffersFit == Spec => []LengthFits
  <1>1. ASSUME IndInv PROVE LengthFits
    <2>1. \A b \in Blocks : Size(b) \in Nat
      BY MemPoolAssumption DEF Size
    <2>2. \A t \in Threads : \A b \in held[t] : b \in Blocks /\ length[b] \in Nat /\ length[b] <= Size(b)
      BY <1>1 DEF IndInv, TypeOK, LengthBound
    <2> QED BY <2>1, <2>2 DEF LengthFits
  <1> QED BY <1>1, AllocatorInvariant, PTL

-----------------------------------------------------------------------------
\* However the blocks move while they are counted, one free list never has more
\* entries than its pool has blocks.
LEMMA FreeListIsShort ==
    ASSUME TypeOK, FreeListsAreSound, NEW p \in Pools
    PROVE  Len(pool[p]) <= Cardinality({b \in Blocks : PoolOf[b] = p})
  <1> DEFINE S == 1 .. Len(pool[p])
             T == {b \in Blocks : PoolOf[b] = p}
  <1>1. pool[p] \in Seq(Blocks) /\ Len(pool[p]) \in Nat
    BY DEF TypeOK
  <1>2. pool[p] \in [S -> T]
    BY <1>1 DEF FreeListsAreSound
  <1>3. pool[p] \in Injection(S, T)
    BY <1>2 DEF Injection, IsInjective, FreeListsAreSound
  <1>4. IsFiniteSet(T)
    BY FS_Subset, MemPoolAssumption
  <1>5. Cardinality(S) = Len(pool[p])
    BY <1>1, FS_Interval
  <1> HIDE DEF S, T
  <1>6. Cardinality(S) <= Cardinality(T)
    BY <1>3, <1>4, FS_Injection
  <1> QED BY <1>5, <1>6 DEF T

\* The blocks below a pool and the blocks of the pool are the blocks below the
\* next one.
LEMMA BlocksAddUp ==
    ASSUME NEW p \in Pools
    PROVE  /\ Cardinality({b \in Blocks : PoolOf[b] < p}) \in Nat
           /\ Cardinality({b \in Blocks : PoolOf[b] = p}) \in Nat
           /\ Cardinality({b \in Blocks : PoolOf[b] < p + 1})
                = Cardinality({b \in Blocks : PoolOf[b] < p})
                  + Cardinality({b \in Blocks : PoolOf[b] = p})
  <1> DEFINE Below == {b \in Blocks : PoolOf[b] < p}
             Here == {b \in Blocks : PoolOf[b] = p}
  <1>1. IsFiniteSet(Below) /\ IsFiniteSet(Here)
    BY FS_Subset, MemPoolAssumption
  <1>2. Cardinality(Below) \in Nat /\ Cardinality(Here) \in Nat
    BY <1>1, FS_CardinalityType
  <1>3. {b \in Blocks : PoolOf[b] < p + 1} = Below \cup Here /\ Below \cap Here = {}
    BY MemPoolAssumption DEF Pools
  <1> HIDE DEF Below, Here
  <1>4. Cardinality(Below \cup Here)
          = Cardinality(Below) + Cardinality(Here) - Cardinality(Below \cap Here)
    BY <1>1, FS_Union
  <1>5. Cardinality(Below \cap Here) = 0
    BY <1>3, FS_EmptySet
  <1>6. Cardinality(Below \cup Here) = Cardinality(Below) + Cardinality(Here)
    BY ONLY <1>2, <1>4, <1>5
  <1>7. Cardinality({b \in Blocks : PoolOf[b] < p + 1}) = Cardinality(Below) + Cardinality(Here)
    BY ONLY <1>3, <1>6
  <1> QED BY <1>2, <1>7 DEF Below, Here

\* The KPI thread's sum, taken without locks, is bounded pool by pool.
LEMMA KpiNext ==
    IndInv /\ KpiCountIsBounded /\ [Next]_vars => KpiCountIsBounded'
  <1> SUFFICES ASSUME IndInv, KpiCountIsBounded, [Next]_vars
               PROVE  KpiCountIsBounded'
    OBVIOUS
  <1>1. CASE MemGetAvailableMemBlock
    <2>1. kpiNext \in Pools /\ Len(pool[kpiNext]) \in Nat
      BY <1>1 DEF MemGetAvailableMemBlock, IndInv, TypeOK
    <2>2. Len(pool[kpiNext]) <= Cardinality({b \in Blocks : PoolOf[b] = kpiNext})
      BY <2>1, FreeListIsShort DEF IndInv, BlockConservation
    <2>3. kpiCount' <= Cardinality({b \in Blocks : PoolOf[b] < kpiNext + 1})
      <3> DEFINE Below == Cardinality({b \in Blocks : PoolOf[b] < kpiNext})
                 Here == Cardinality({b \in Blocks : PoolOf[b] = kpiNext})
                 Both == Cardinality({b \in Blocks : PoolOf[b] < kpiNext + 1})
      <3>1. Below \in Nat /\ Here \in Nat /\ Both = Below + Here
        BY <2>1, BlocksAddUp
      <3>2. kpiCount' = kpiCount + Len(pool[kpiNext]) /\ kpiCount \in Nat /\ kpiCount <= Below
        BY <1>1 DEF MemGetAvailableMemBlock, KpiCountIsBounded, IndInv, TypeOK
      <3> HIDE DEF Below, Here, Both
      <3>3. kpiCount' <= Both
        BY <2>1, <2>2, <3>1, <3>2 DEF Here
      <3> QED BY <3>3 DEF Both
    <2>4. kpiNext' = kpiNext + 1 /\ kpiMem' = kpiMem
      BY <1>1 DEF MemGetAvailableMemBlock
    <2>5. kpiNext' \in 1 .. NumPools + 1
      BY <2>1, <2>4, MemPoolAssumption DEF Pools
    <2> QED BY <2>3, <2>4, <2>5 DEF KpiCountIsBounded, KpiMemInRange, NUM_MEM_BLOCK
  <1>2. CASE KpiRefresh
    <2> DEFINE Below == {b \in Blocks : PoolOf[b] < NumPools + 1}
    <2>1. Below = Blocks
      BY MemPoolAssumption DEF Pools
    <2>2. kpiCount \in 0 .. NUM_MEM_BLOCK /\ NUM_MEM_BLOCK \in Nat
      <3>1. NUM_MEM_BLOCK \in Nat
        BY FS_CardinalityType, MemPoolAssumption DEF NUM_MEM_BLOCK
      <3>2. kpiCount <= NUM_MEM_BLOCK
        BY <1>2, <2>1 DEF KpiRefresh, KpiCountIsBounded, NUM_MEM_BLOCK
      <3> QED BY <3>1, <3>2 DEF IndInv, TypeOK
    <2>3. kpiMem' = NUM_MEM_BLOCK - kpiCount /\ kpiNext' = 1 /\ kpiCount' = 0
      BY <1>2 DEF KpiRefresh
    <2>4. KpiMemInRange'
      BY <2>2, <2>3 DEF KpiMemInRange, NUM_MEM_BLOCK
    <2>5. Cardinality({b \in Blocks : PoolOf[b] < 1}) \in Nat
      BY FS_Subset, FS_CardinalityType, MemPoolAssumption
    <2> QED BY <2>3, <2>4, <2>5, MemPoolAssumption DEF KpiCountIsBounded
  <1>3. CASE UNCHANGED kpiVars
    BY <1>3 DEF kpiVars, KpiCountIsBounded, KpiMemInRange, NUM_MEM_BLOCK
  <1>4. \A t \in Threads : AllocStep(t) \/ FreeStep(t) \/ DataStep(t) => UNCHANGED kpiVars
    BY DEF AllocStep, FreeStep, DataStep, MemAlloc, MemAllocPop, MemAllocMark, MemFree,
           MemFreeCheck, MemFreeClear, MemFreePush, MemJoin, MemRemove
  <1> QED BY <1>1, <1>2, <1>3, <1>4 DEF Next, vars

\* The number of used blocks that KpiRefresh publishes is never negative and never
\* above the total: the race of the counting with the allocator blurs it, no more.
THEOREM KpiIsInRange == Spec => []KpiMemInRange
  <1>1. Init => KpiCountIsBounded
    <2> SUFFICES ASSUME Init PROVE KpiCountIsBounded
      OBVIOUS
    <2>1. /\ Cardinality({b \in Blocks : PoolOf[b] < 1}) \in Nat
          /\ NUM_MEM_BLOCK \in Nat
      BY FS_Subset, FS_CardinalityType, MemPoolAssumption DEF NUM_MEM_BLOCK
    <2> QED BY <2>1, MemPoolAssumption DEF Init, KpiCountIsBounded, KpiMemInRange
  <1>2. KpiCountIsBounded => KpiMemInRange
    BY DEF KpiCountIsBounded
  <1> QED BY <1>1, <1>2, KpiNext, AllocatorInvariant, PTL DEF Spec
=============================================================================
