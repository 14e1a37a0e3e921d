------------------------------ MODULE MemPool ------------------------------
(***************************************************************************)
(* The fixed-size block allocator of ulp/src/mempool.c, used concurrently  *)
(* by the ULP worker, the resource cleaner and the KPI thread.             *)
(*                                                                         *)
(* A block never moves between pools and its header (isInUsed, length) is  *)
(* written outside any lock; only the push and the pop on a pool's free    *)
(* list hold that list's lock.  Each statement that another thread can see *)
(* between two of these is therefore a step of its own here.  A pool's     *)
(* free list is a sequence: LinkedList shows the list of list.c to behave  *)
(* as one.                                                                 *)
(*                                                                         *)
(* held[t] is the set of buffers that thread t owns: it got them from      *)
(* MemAlloc and has not passed them to MemFree or MemJoin.  Only an owner  *)
(* frees a buffer: this is the discipline the callers rely on, there is no *)
(* reference count in the code.                                            *)
(***************************************************************************)
EXTENDS Integers, Sequences, FiniteSets

CONSTANTS Threads,     \* threads that allocate and free
          Blocks,      \* the memory nodes of all pools
          NumPools,    \* MAX_NUM_POOL_SIZE
          PoolOf,      \* MemNode.poolId
          PoolSize,    \* gMemPoolConfig[i].size
          PoolBuffer,  \* gMemPoolConfig[i].pBufferStart: the nodes in address order
          Lengths,     \* the lengths the callers ask for
          NoBlock      \* the null pointer

Pools == 1 .. NumPools

ASSUME MemPoolAssumption ==
    /\ NumPools \in Nat
    /\ PoolOf \in [Blocks -> Pools]
    /\ PoolSize \in [Pools -> Nat]
    /\ \A p, q \in Pools : p <= q => PoolSize[p] <= PoolSize[q]
    /\ \A p \in Pools :
        /\ PoolBuffer[p] \in Seq(Blocks)
        /\ \A b \in Blocks :
            PoolOf[b] = p <=> \E i \in 1 .. Len(PoolBuffer[p]) : PoolBuffer[p][i] = b
        /\ \A i, j \in 1 .. Len(PoolBuffer[p]) :
            PoolBuffer[p][i] = PoolBuffer[p][j] => i = j
    /\ Lengths \subseteq Nat
    /\ NoBlock \notin Blocks
    /\ IsFiniteSet(Blocks)

VARIABLES pool,      \* gMemPool.pool[i]: the free list of each pool
          isInUsed,  \* MemNode.isInUsed
          length,    \* MemNode.length
          held,      \* the buffers each thread owns
          pc,        \* where each thread is in MemAlloc / MemFree / MemJoin
          want,      \* MemAlloc's argument
          poolId,    \* MemAlloc's local: the pool to try next
          node,      \* MemAlloc's local pNode, popped and not yet marked
          buf,       \* the buffer MemFree is working on
          rest,      \* MemJoin's other buffer, to be freed after buf
          kpiNext,   \* MemGetAvailableMemBlock's loop index
          kpiCount,  \* MemGetAvailableMemBlock's sum so far
          kpiMem     \* gLteKpi.mem

blockVars == <<pool, isInUsed, length>>
allocVars == <<want, poolId, node>>
freeVars == <<buf, rest>>
kpiVars == <<kpiNext, kpiCount, kpiMem>>
vars == <<blockVars, allocVars, freeVars, kpiVars, held, pc>>

Size(b) == PoolSize[PoolOf[b]]

\* Mutant: the pool is compared with the length without its last byte
IsMatch_OffByOne(len, p) ==
    /\ len <= PoolSize[p] + 1
    /\ \A q \in Pools : q < p => len > PoolSize[q] + 1

\* findMatchPool: the first pool whose blocks are large enough
IsMatch(len, p) ==
    /\ len <= PoolSize[p]
    /\ \A q \in Pools : q < p => len > PoolSize[q]

NUM_MEM_BLOCK == Cardinality(Blocks)

\* InitMemPool
Init ==
    /\ pool = [p \in Pools |-> PoolBuffer[p]]
    /\ isInUsed = [b \in Blocks |-> 0]
    /\ length = [b \in Blocks |-> 0]
    /\ held = [t \in Threads |-> {}]
    /\ pc = [t \in Threads |-> "idle"]
    /\ want = [t \in Threads |-> 0]
    /\ poolId = [t \in Threads |-> 1]
    /\ node = [t \in Threads |-> NoBlock]
    /\ buf = [t \in Threads |-> NoBlock]
    /\ rest = [t \in Threads |-> NoBlock]
    /\ kpiNext = 1
    /\ kpiCount = 0
    /\ kpiMem = 0

-----------------------------------------------------------------------------
(***************************************************************************)
(* MemAlloc.  A length no pool can hold is refused before any pool is      *)
(* looked at, which changes nothing.                                       *)
(***************************************************************************)
StartAlloc(t, len, p) ==
    /\ IsMatch(len, p)
    /\ want' = [want EXCEPT ![t] = len]
    /\ poolId' = [poolId EXCEPT ![t] = p]
    /\ pc' = [pc EXCEPT ![t] = "pop"]
    /\ UNCHANGED node

MemAlloc(t, len) ==
    /\ pc[t] = "idle"
    /\ \E p \in Pools : StartAlloc(t, len, p)
    /\ UNCHANGED <<blockVars, freeVars, kpiVars, held>>

\* MemAlloc's locals end; MemJoin goes on to free its two arguments
AllocReturns(t) ==
    /\ want' = [want EXCEPT ![t] = 0]
    /\ poolId' = [poolId EXCEPT ![t] = 1]
    /\ pc' = [pc EXCEPT ![t] = IF buf[t] = NoBlock THEN "idle" ELSE "check"]

\* ListPopNode on one pool; an empty pool passes the request to the next one
MemAllocPop(t) ==
    /\ pc[t] = "pop"
    /\ LET p == poolId[t] IN
        \/ /\ pool[p] # <<>>
           /\ node' = [node EXCEPT ![t] = Head(pool[p])]
           /\ pool' = [pool EXCEPT ![p] = Tail(@)]
           /\ pc' = [pc EXCEPT ![t] = "mark"]
           /\ UNCHANGED <<poolId, want>>
        \/ /\ pool[p] = <<>>
           /\ p < NumPools
           /\ poolId' = [poolId EXCEPT ![t] = p + 1]
           /\ UNCHANGED <<pool, node, pc, want>>
        \/ /\ pool[p] = <<>>
           /\ p = NumPools
           /\ AllocReturns(t)
           /\ UNCHANGED <<pool, node>>
    /\ UNCHANGED <<isInUsed, length, held, freeVars, kpiVars>>

\* the popped node's header is written after the list's lock is released
MemAllocMark(t) ==
    /\ pc[t] = "mark"
    /\ length' = [length EXCEPT ![node[t]] = want[t]]
    /\ isInUsed' = [isInUsed EXCEPT ![node[t]] = 1]
    /\ held' = [held EXCEPT ![t] = @ \cup {node[t]}]
    /\ node' = [node EXCEPT ![t] = NoBlock]
    /\ AllocReturns(t)
    /\ UNCHANGED <<pool, freeVars, kpiVars>>

-----------------------------------------------------------------------------
(***************************************************************************)
(* MemFree.  The test of isInUsed, the reset of the header and the push    *)
(* are three steps: the code asks itself whether a lock is needed here.    *)
(***************************************************************************)
MemFree(t, b) ==
    /\ pc[t] = "idle"
    /\ b \in held[t]
    /\ held' = [held EXCEPT ![t] = @ \ {b}]
    /\ buf' = [buf EXCEPT ![t] = b]
    /\ pc' = [pc EXCEPT ![t] = "check"]
    /\ UNCHANGED <<blockVars, allocVars, rest, kpiVars>>

\* Mutant: MemJoin forgets to free its second argument
FreeReturns_OnlyFirst(t) ==
    /\ buf' = [buf EXCEPT ![t] = NoBlock]
    /\ rest' = [rest EXCEPT ![t] = NoBlock]
    /\ pc' = [pc EXCEPT ![t] = "idle"]

\* MemFree returns; MemJoin then frees its other argument, if one is left
FreeReturns(t) ==
    /\ buf' = [buf EXCEPT ![t] = rest[t]]
    /\ rest' = [rest EXCEPT ![t] = NoBlock]
    /\ pc' = [pc EXCEPT ![t] = IF rest[t] = NoBlock THEN "idle" ELSE "check"]

MemFreeCheck(t) ==
    /\ pc[t] = "check"
    /\ IF isInUsed[buf[t]] = 1
       THEN pc' = [pc EXCEPT ![t] = "clear"] /\ UNCHANGED freeVars
       ELSE FreeReturns(t)
    /\ UNCHANGED <<blockVars, allocVars, kpiVars, held>>

MemFreeClear(t) ==
    /\ pc[t] = "clear"
    /\ length' = [length EXCEPT ![buf[t]] = 0]
    /\ isInUsed' = [isInUsed EXCEPT ![buf[t]] = 0]
    /\ pc' = [pc EXCEPT ![t] = "push"]
    /\ UNCHANGED <<pool, allocVars, freeVars, kpiVars, held>>

MemFreePush(t) ==
    /\ pc[t] = "push"
    /\ pool' = [pool EXCEPT ![PoolOf[buf[t]]] = Append(@, buf[t])]
    /\ FreeReturns(t)
    /\ UNCHANGED <<isInUsed, length, allocVars, kpiVars, held>>

-----------------------------------------------------------------------------
(***************************************************************************)
(* MemJoin(src, dst): append in src, or shift inside dst, or copy both to  *)
(* a new block.  Both arguments are given up whatever the allocation says. *)
(***************************************************************************)
\* Mutant: the caller goes on using the buffer that MemJoin frees
JoinInto_KeepsBoth(t, keep, gone) ==
    /\ length' = [length EXCEPT ![keep] = @ + length[gone]]
    /\ buf' = [buf EXCEPT ![t] = gone]
    /\ pc' = [pc EXCEPT ![t] = "check"]
    /\ UNCHANGED <<held, rest, allocVars>>

JoinInto(t, keep, gone) ==
    /\ length' = [length EXCEPT ![keep] = @ + length[gone]]
    /\ held' = [held EXCEPT ![t] = @ \ {gone}]
    /\ buf' = [buf EXCEPT ![t] = gone]
    /\ pc' = [pc EXCEPT ![t] = "check"]
    /\ UNCHANGED <<rest, allocVars>>

JoinByCopy(t, src, dst, sum) ==
    /\ held' = [held EXCEPT ![t] = @ \ {src, dst}]
    /\ buf' = [buf EXCEPT ![t] = src]
    /\ rest' = [rest EXCEPT ![t] = dst]
    /\ \/ \E p \in Pools : StartAlloc(t, sum, p)
       \/ /\ \A p \in Pools : sum > PoolSize[p]
          /\ pc' = [pc EXCEPT ![t] = "check"]
          /\ UNCHANGED allocVars
    /\ UNCHANGED length

MemJoin(t, src, dst) ==
    /\ pc[t] = "idle"
    /\ src \in held[t] /\ dst \in held[t] /\ src # dst
    /\ LET sum == length[src] + length[dst] IN
        \/ Size(src) >= sum /\ JoinInto(t, src, dst)
        \/ Size(src) < sum /\ Size(dst) >= sum /\ JoinInto(t, dst, src)
        \/ Size(src) < sum /\ Size(dst) < sum /\ JoinByCopy(t, src, dst, sum)
    /\ UNCHANGED <<pool, isInUsed, kpiVars>>

\* Mutant: a count that is too large is not cut
MemRemove_NotCut(t, b, where, count) ==
    /\ pc[t] = "idle"
    /\ b \in held[t]
    /\ where < length[b]
    /\ length' = [length EXCEPT ![b] = @ - count]
    /\ UNCHANGED <<pool, isInUsed, allocVars, freeVars, kpiVars, held, pc>>

\* MemRemove(b, where, count): a count that is too large is cut
MemRemove(t, b, where, count) ==
    /\ pc[t] = "idle"
    /\ b \in held[t]
    /\ where < length[b]
    /\ length' = [length EXCEPT ![b] = IF count > @ - where THEN where ELSE @ - count]
    /\ UNCHANGED <<pool, isInUsed, allocVars, freeVars, kpiVars, held, pc>>

-----------------------------------------------------------------------------
(***************************************************************************)
(* The KPI thread adds up the lengths of the free lists, one list after    *)
(* the other and without their locks, and publishes the blocks in use.     *)
(***************************************************************************)
MemGetAvailableMemBlock ==
    /\ kpiNext \in Pools
    /\ kpiCount' = kpiCount + Len(pool[kpiNext])
    /\ kpiNext' = kpiNext + 1
    /\ UNCHANGED <<blockVars, allocVars, freeVars, held, pc, kpiMem>>

\* Mutant: the sum of the last refresh is not cleared
KpiRefresh_KeepsSum ==
    /\ kpiNext = NumPools + 1
    /\ kpiMem' = NUM_MEM_BLOCK - kpiCount
    /\ kpiNext' = 1
    /\ UNCHANGED <<blockVars, allocVars, freeVars, held, pc, kpiCount>>

KpiRefresh ==
    /\ kpiNext = NumPools + 1
    /\ kpiMem' = NUM_MEM_BLOCK - kpiCount
    /\ kpiNext' = 1
    /\ kpiCount' = 0
    /\ UNCHANGED <<blockVars, allocVars, freeVars, held, pc>>

-----------------------------------------------------------------------------
AllocStep(t) == (\E len \in Lengths : MemAlloc(t, len)) \/ MemAllocPop(t) \/ MemAllocMark(t)

FreeStep(t) ==
    \/ \E b \in Blocks : MemFree(t, b)
    \/ MemFreeCheck(t)
    \/ MemFreeClear(t)
    \/ MemFreePush(t)

DataStep(t) ==
    \/ \E src, dst \in Blocks : MemJoin(t, src, dst)
    \/ \E b \in Blocks, where \in {0} \cup Lengths, count \in Lengths : MemRemove(t, b, where, count)

Next ==
    \/ \E t \in Threads : AllocStep(t) \/ FreeStep(t) \/ DataStep(t)
    \/ MemGetAvailableMemBlock
    \/ KpiRefresh

Spec == Init /\ [][Next]_vars
-----------------------------------------------------------------------------
PcLabels == {"idle", "pop", "mark", "check", "clear", "push"}

\* Every variable has its type; in particular the locals of MemAlloc and
\* MemFree are null exactly when the code has nothing in them.
TypeOK ==
    /\ pool \in [Pools -> Seq(Blocks)]
    /\ isInUsed \in [Blocks -> {0, 1}]
    /\ length \in [Blocks -> Nat]
    /\ held \in [Threads -> SUBSET Blocks]
    /\ pc \in [Threads -> PcLabels]
    /\ want \in [Threads -> Nat]
    /\ poolId \in [Threads -> Nat]
    /\ node \in [Threads -> Blocks \cup {NoBlock}]
    /\ buf \in [Threads -> Blocks \cup {NoBlock}]
    /\ rest \in [Threads -> Blocks \cup {NoBlock}]
    /\ kpiNext \in Nat
    /\ kpiCount \in Nat
    /\ kpiMem \in Int

\* thread t is responsible for block b
Owns(t, b) == b \in held[t] \/ b = node[t] \/ b = buf[t] \/ b = rest[t]

Free(b) == \E i \in 1 .. Len(pool[PoolOf[b]]) : pool[PoolOf[b]][i] = b

\* a block sits in a free list at most once, and only in its own pool's
FreeListsAreSound ==
    \A p \in Pools :
        /\ \A i \in 1 .. Len(pool[p]) : PoolOf[pool[p][i]] = p
        /\ \A i, j \in 1 .. Len(pool[p]) : pool[p][i] = pool[p][j] => i = j

\* the buffers a thread has in different hands are different
HandsAreDistinct(t) ==
    /\ node[t] # NoBlock => node[t] \notin held[t] \cup {buf[t], rest[t]}
    /\ buf[t] # NoBlock => buf[t] \notin held[t] \cup {rest[t]}
    /\ rest[t] # NoBlock => rest[t] \notin held[t]

\* BlockConservation: at every step of every interleaving of MemAlloc, MemFree
\* and MemJoin each block is in exactly one place: once in the free list of its
\* own pool, or once with exactly one thread.  No block is lost when an
\* allocation inside MemJoin fails, and no buffer is handed out twice.
BlockConservation ==
    /\ FreeListsAreSound
    /\ \A b \in Blocks : Free(b) \/ \E t \in Threads : Owns(t, b)
    /\ \A b \in Blocks, t \in Threads : Owns(t, b) => ~Free(b)
    /\ \A b \in Blocks, t, u \in Threads : Owns(t, b) /\ Owns(u, b) => t = u
    /\ \A t \in Threads : HandsAreDistinct(t)

\* NoDoubleFree: the branch of MemFree that reports "already free" is never
\* taken, although isInUsed is tested and reset without a lock: MemAllocMark of
\* one thread can not come between the test and the reset of another.
NoDoubleFree == \A t \in Threads : pc[t] = "check" => isInUsed[buf[t]] = 1

\* LengthFits: the length recorded for a buffer neither exceeds the block it lies in,
\* whichever pool the request fell through to and however often buffers were joined
\* into it, nor falls below 0, whatever MemRemove is asked to cut.
LengthFits == \A t \in Threads : \A b \in held[t] : length[b] \in 0 .. Size(b)

\* KpiMemInRange: the number of used blocks the KPI thread computes is never
\* negative and never above the total (KpiRefresh tests for a negative value),
\* although the free lists it adds up change while it reads them.
KpiMemInRange == kpiMem \in 0 .. NUM_MEM_BLOCK

-----------------------------------------------------------------------------
(***************************************************************************)
(* The strengthening that makes the invariants above inductive.            *)
(***************************************************************************)
\* what a thread has in hand at each label of the code
LocalsAgree ==
    \A t \in Threads :
        /\ pc[t] = "mark" <=> node[t] # NoBlock
        /\ pc[t] = "idle" => buf[t] = NoBlock
        /\ pc[t] \in {"check", "clear", "push"} => buf[t] # NoBlock
        /\ buf[t] = NoBlock => rest[t] = NoBlock
        /\ pc[t] = "pop" => poolId[t] \in Pools /\ want[t] <= PoolSize[poolId[t]]
        /\ pc[t] = "mark" => want[t] <= Size(node[t])

\* a buffer is marked as used from the end of MemAlloc to MemFree's reset
UseFlags ==
    \A t \in Threads :
        /\ \A b \in held[t] : isInUsed[b] = 1
        /\ buf[t] # NoBlock /\ pc[t] # "push" => isInUsed[buf[t]] = 1
        /\ rest[t] # NoBlock => isInUsed[rest[t]] = 1

\* the half of LengthFits that TypeOK does not state
LengthBound == \A t \in Threads : \A b \in held[t] : length[b] <= Size(b)

IndInv == TypeOK /\ BlockConservation /\ LocalsAgree /\ UseFlags /\ LengthBound

\* the KPI thread has counted at most the blocks of the pools it has read
KpiCountIsBounded ==
    /\ kpiNext \in 1 .. NumPools + 1
    /\ kpiCount <= Cardinality({b \in Blocks : PoolOf[b] < kpiNext})
    /\ KpiMemInRange
=============================================================================
