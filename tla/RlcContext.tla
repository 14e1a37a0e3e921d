----------------------------- MODULE RlcContext -----------------------------
(***************************************************************************)
(* The list of RLC UE contexts, gRlcUeContextList, shared by the ULP       *)
(* worker (RlcProcessAMRxPacket in ulp/src/lteRlc.c finds or creates the   *)
(* context of a packet) and the resource cleaner (ExecuteCleanup in        *)
(* ulp/src/lteResCleaner.c ages the contexts and deletes the idle ones).   *)
(*                                                                         *)
(* Pushing and unlinking a node hold the list's lock; walking the list,    *)
(* reading deleteFlag and idleCount and using the context do not.  Each of *)
(* these is a step.  Unlinking clears the node's next pointer and freeing  *)
(* does not touch it, so a thread that stands on an unlinked node reads a  *)
(* null pointer.                                                           *)
(***************************************************************************)
EXTENDS Integers, Sequences, FiniteSets, SequencesExt

CONSTANTS Contexts,       \* the blocks contexts are allocated from
          Rntis,          \* the UEs
          NoContext,      \* the null pointer
          gMaxIdleCount,  \* passes of the cleaner after which a context is idle
          MaxPackets,     \* bound: how many packets arrive altogether
          MaxPasses       \* timing: passes of the cleaner that may start during one packet

ASSUME RlcContextAssumption ==
    /\ NoContext \notin Contexts
    /\ Rntis # {}
    /\ gMaxIdleCount \in Nat \ {0}
    /\ MaxPackets \in Nat
    /\ MaxPasses \in Nat \ {0}

VARIABLES list,        \* gRlcUeContextList
          allocated,   \* the blocks in use as contexts
          rnti,        \* RlcUeContext.rnti
          idleCount,   \* RlcUeContext.idleCount
          deleteFlag,  \* RlcUeContext.deleteFlag
          packets,     \* packets that have arrived
          pcW,         \* where the worker is in RlcProcessAMRxPacket
          ueRnti,      \* the RNTI of the worker's packet
          pUeCtx,      \* the worker's context pointer
          passes,      \* passes of the cleaner started during the packet in hand
          pcC,         \* where the cleaner is in ExecuteCleanup
          pRlcUeCtx,   \* the context the cleaner visits
          pNext        \* pNextRlcUeCtx, read before the visit

contextVars == <<allocated, rnti, idleCount, deleteFlag>>
workerVars == <<packets, pcW, ueRnti, pUeCtx>>
cleanerVars == <<passes, pcC, pRlcUeCtx, pNext>>
vars == <<list, contextVars, workerVars, cleanerVars>>

Init ==
    /\ list = <<>>
    /\ allocated = {}
    /\ rnti \in [Contexts -> {CHOOSE r \in Rntis : TRUE}]
    /\ idleCount = [c \in Contexts |-> 0]
    /\ deleteFlag = [c \in Contexts |-> 0]
    /\ packets = 0
    /\ pcW = "idle" /\ ueRnti = (CHOOSE r \in Rntis : TRUE) /\ pUeCtx = NoContext
    /\ passes = 0
    /\ pcC = "idle" /\ pRlcUeCtx = NoContext /\ pNext = NoContext

ListGetFirstNode == IF list = <<>> THEN NoContext ELSE Head(list)

ListGetNextNode(c) ==
    LET after == {i \in 1 .. Len(list) - 1 : list[i] = c} IN
    IF after = {} THEN NoContext ELSE list[1 + CHOOSE i \in after : TRUE]

-----------------------------------------------------------------------------
(***************************************************************************)
(* The worker.                                                             *)
(***************************************************************************)
\* a data PDU for UE r: RlcGetUeContext starts at the head of the list
PacketArrives(r) ==
    /\ pcW = "idle"
    /\ packets < MaxPackets
    /\ packets' = packets + 1
    /\ ueRnti' = r
    /\ pUeCtx' = ListGetFirstNode
    /\ pcW' = "walk"
    /\ passes' = 0
    /\ UNCHANGED <<list, contextVars, pcC, pRlcUeCtx, pNext>>

\* one turn of RlcGetUeContext's loop
RlcGetUeContext ==
    /\ pcW = "walk"
    /\ \/ /\ pUeCtx = NoContext
          /\ pcW' = "create"
          /\ UNCHANGED pUeCtx
       \/ /\ pUeCtx # NoContext
          /\ rnti[pUeCtx] = ueRnti
          /\ pcW' = "found"
          /\ UNCHANGED pUeCtx
       \/ /\ pUeCtx # NoContext
          /\ rnti[pUeCtx] # ueRnti
          /\ pUeCtx' = ListGetNextNode(pUeCtx)
          /\ UNCHANGED pcW
    /\ UNCHANGED <<list, contextVars, packets, ueRnti, cleanerVars>>

\* the new context is filled before the push makes it visible; without memory
\* the packet is dropped
RlcCreateUeContext ==
    /\ pcW = "create"
    /\ \/ \E c \in Contexts \ allocated :
           /\ allocated' = allocated \cup {c}
           /\ rnti' = [rnti EXCEPT ![c] = ueRnti]
           /\ idleCount' = [idleCount EXCEPT ![c] = 0]
           /\ deleteFlag' = [deleteFlag EXCEPT ![c] = 0]
           /\ list' = Append(list, c)
           /\ pUeCtx' = c
           /\ pcW' = "use"
       \/ /\ Contexts \subseteq allocated
          /\ pcW' = "idle"
          /\ UNCHANGED <<list, contextVars, pUeCtx>>
    /\ UNCHANGED <<packets, ueRnti, cleanerVars>>

\* a context that is pending deletion is not used, the packet is dropped
TestDeleteFlag ==
    /\ pcW = "found"
    /\ pcW' = IF deleteFlag[pUeCtx] = 1 THEN "idle" ELSE "touch"
    /\ UNCHANGED <<list, contextVars, packets, ueRnti, pUeCtx, cleanerVars>>

\* RlcUpdateUeContextTime(pUeCtx, 0)
ResetIdleCount ==
    /\ pcW = "touch"
    /\ idleCount' = [idleCount EXCEPT ![pUeCtx] = 0]
    /\ pcW' = "use"
    /\ UNCHANGED <<list, allocated, rnti, deleteFlag, packets, ueRnti, pUeCtx, cleanerVars>>

\* the rest of the packet works on the context's entities (RlcAm)
UseContext ==
    /\ pcW = "use"
    /\ pcW' = "idle"
    /\ UNCHANGED <<list, contextVars, packets, ueRnti, pUeCtx, cleanerVars>>

-----------------------------------------------------------------------------
(***************************************************************************)
(* The cleaner.                                                            *)
(***************************************************************************)
\* a notification wakes the cleaner; with an empty list it has nothing to do
StartCleanup ==
    /\ pcC = "idle"
    /\ pcW = "idle" \/ passes < MaxPasses
    /\ passes' = IF pcW = "idle" THEN 0 ELSE passes + 1
    /\ pRlcUeCtx' = ListGetFirstNode
    /\ pcC' = IF list = <<>> THEN "idle" ELSE "visit"
    /\ UNCHANGED <<list, contextVars, workerVars, pNext>>

ReadNext ==
    /\ pcC = "visit"
    /\ pNext' = ListGetNextNode(pRlcUeCtx)
    /\ pcC' = "test"
    /\ UNCHANGED <<list, contextVars, workerVars, passes, pRlcUeCtx>>

\* Mutant: the cleaner stays on the context it has visited
Advance_StaysPut ==
    /\ pNext' = NoContext
    /\ pcC' = IF pNext = NoContext THEN "idle" ELSE "visit"
    /\ UNCHANGED pRlcUeCtx

\* pRlcUeCtx = pNextRlcUeCtx
Advance ==
    /\ pRlcUeCtx' = pNext
    /\ pNext' = NoContext
    /\ pcC' = IF pNext = NoContext THEN "idle" ELSE "visit"

\* Mutant: one pass too many
TestIdleCount_OffByOne ==
    /\ pcC = "test"
    /\ \/ /\ idleCount[pRlcUeCtx] > gMaxIdleCount
          /\ pcC' = "flag"
          /\ UNCHANGED <<idleCount, pRlcUeCtx, pNext>>
       \/ /\ idleCount[pRlcUeCtx] <= gMaxIdleCount
          /\ idleCount' = [idleCount EXCEPT ![pRlcUeCtx] = @ + 1]
          /\ Advance
    /\ UNCHANGED <<list, allocated, rnti, deleteFlag, workerVars, passes>>

\* Mutant: the last context of the list does not grow older
TestIdleCount_NotTheLast ==
    /\ pcC = "test"
    /\ \/ /\ idleCount[pRlcUeCtx] >= gMaxIdleCount
          /\ pcC' = "flag"
          /\ UNCHANGED <<idleCount, pRlcUeCtx, pNext>>
       \/ /\ idleCount[pRlcUeCtx] < gMaxIdleCount
          /\ idleCount' = [idleCount EXCEPT ![pRlcUeCtx] = IF pNext = NoContext THEN @ ELSE @ + 1]
          /\ Advance
    /\ UNCHANGED <<list, allocated, rnti, deleteFlag, workerVars, passes>>

\* the test of idleCount does not take lockOfCount, the increment does
TestIdleCount ==
    /\ pcC = "test"
    /\ \/ /\ idleCount[pRlcUeCtx] >= gMaxIdleCount
          /\ pcC' = "flag"
          /\ UNCHANGED <<idleCount, pRlcUeCtx, pNext>>
       \/ /\ idleCount[pRlcUeCtx] < gMaxIdleCount
          /\ idleCount' = [idleCount EXCEPT ![pRlcUeCtx] = @ + 1]
          /\ Advance
    /\ UNCHANGED <<list, allocated, rnti, deleteFlag, workerVars, passes>>

SetDeleteFlag ==
    /\ pcC = "flag"
    /\ deleteFlag' = [deleteFlag EXCEPT ![pRlcUeCtx] = 1]
    /\ pcC' = "unlink"
    /\ UNCHANGED <<list, allocated, rnti, idleCount, workerVars, passes, pRlcUeCtx, pNext>>

\* Mutant: the context is freed without being taken out of the list
UnlinkContext_Skipped ==
    /\ pcC = "unlink"
    /\ pcC' = "free"
    /\ UNCHANGED <<list, contextVars, workerVars, passes, pRlcUeCtx, pNext>>

\* RlcDeleteUeContext: unlink under the list's lock, then free the entities and
\* the context
UnlinkContext ==
    /\ pcC = "unlink"
    /\ list' = RemoveFirst(list, pRlcUeCtx)
    /\ pcC' = "free"
    /\ UNCHANGED <<contextVars, workerVars, passes, pRlcUeCtx, pNext>>

FreeContext ==
    /\ pcC = "free"
    /\ allocated' = allocated \ {pRlcUeCtx}
    /\ Advance
    /\ UNCHANGED <<list, rnti, idleCount, deleteFlag, workerVars, passes>>

-----------------------------------------------------------------------------
WorkerRuns ==
    \/ RlcGetUeContext
    \/ RlcCreateUeContext
    \/ TestDeleteFlag
    \/ ResetIdleCount
    \/ UseContext

CleanerRuns ==
    \/ StartCleanup
    \/ ReadNext
    \/ TestIdleCount
    \/ SetDeleteFlag
    \/ UnlinkContext
    \/ FreeContext

Next ==
    \/ \E r \in Rntis : PacketArrives(r)
    \/ WorkerRuns
    \/ CleanerRuns

\* both threads are notified for ever (EventLoop), and packets may end
Spec == Init /\ [][Next]_vars /\ WF_vars(WorkerRuns) /\ WF_vars(CleanerRuns)
-----------------------------------------------------------------------------
\* Every variable has its type.
TypeOK ==
    /\ list \in Seq(Contexts)
    /\ allocated \subseteq Contexts
    /\ rnti \in [Contexts -> Rntis]
    /\ idleCount \in [Contexts -> 0 .. gMaxIdleCount]
    /\ deleteFlag \in [Contexts -> {0, 1}]
    /\ packets \in 0 .. MaxPackets
    /\ passes \in 0 .. MaxPasses
    /\ pcW \in {"idle", "walk", "create", "found", "touch", "use"}
    /\ ueRnti \in Rntis
    /\ {pUeCtx, pRlcUeCtx, pNext} \subseteq Contexts \cup {NoContext}
    /\ pcC \in {"idle", "visit", "test", "flag", "unlink", "free"}

\* CleanerIsOneAhead: between its two readings of the list the cleaner holds two
\* different contexts, and the one it has unlinked is still allocated.
CleanerIsOneAhead ==
    /\ pcC \in {"idle", "visit"} => pNext = NoContext
    /\ pcC \notin {"idle", "visit"} => pNext # pRlcUeCtx
    /\ pcC = "free" => pRlcUeCtx \in allocated

\* ListHoldsLiveContexts: a context is in the list at most once and only while
\* its block is allocated, and an allocated context is in the list unless the
\* cleaner is just about to free it: the worker's pushes and the cleaner's
\* deletions never lose or resurrect a context.
ListHoldsLiveContexts ==
    /\ TypeOK
    /\ IsInjective(list)
    /\ ToSet(list) = allocated \ (IF pcC = "free" THEN {pRlcUeCtx} ELSE {})

\* CleanerStandsOnLiveContexts: the context the cleaner visits and the one it will
\* visit next are in the list: the next pointer read before a deletion is still
\* good after it, whatever the worker pushed in between.
CleanerStandsOnLiveContexts ==
    /\ pcC \in {"visit", "test", "flag", "unlink"} => pRlcUeCtx \in ToSet(list)
    /\ pNext # NoContext => pNext \in ToSet(list)

\* SilentUesAreForgotten: once no more packets arrive every context is deleted, so
\* that the memory of UEs that left the cell comes back.
SilentUesAreForgotten == <>[](list = <<>> /\ allocated = {})

\* WorkerUsesLiveContext: a context that passed the test of deleteFlag is still
\* the allocated context of the packet's UE when the worker resets its idleCount
\* under lockOfCount.
WorkerUsesLiveContext ==
    pcW = "touch" => pUeCtx \in allocated /\ rnti[pUeCtx] = ueRnti
=============================================================================
