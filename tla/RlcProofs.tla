----------------------------- MODULE RlcProofs -----------------------------
(***************************************************************************)
(* The RLC layer: first the list of its UE contexts (RlcContext), then the *)
(* receiver of one context's entity (RlcAm).                               *)
(***************************************************************************)
EXTENDS RlcContext, RlcAm, CollectionLemmas

(***************************************************************************)
(* First part.  The list of RLC UE contexts stays sound, and the cleaner   *)
(* stays on it, for any number of UEs, blocks, packets and passes of the   *)
(* cleaner.                                                                *)
(*                                                                         *)
(* Three facts depend on each other: the list holds the live contexts      *)
(* once each, the cleaner's two pointers are in the list, and these two    *)
(* pointers differ, so that deleting the one leaves the other good.        *)
(***************************************************************************)

IndInv ==
    /\ ListHoldsLiveContexts
    /\ CleanerStandsOnLiveContexts
    /\ CleanerIsOneAhead

\* The next node of a list without repetitions is another one of its nodes.
LEMMA NextIsAnother ==
    ASSUME TypeOK, IsInjective(list), NEW c \in Contexts
    PROVE  \/ ListGetNextNode(c) = NoContext
           \/ ListGetNextNode(c) \in ToSet(list) \ {c}
  <1> DEFINE after == {i \in 1 .. Len(list) - 1 : list[i] = c}
  <1>1. DOMAIN list = 1 .. Len(list) /\ Len(list) \in Nat
    BY DEF TypeOK
  <1>2. CASE after = {}
    BY <1>2 DEF ListGetNextNode
  <1>3. CASE after # {}
    <2>1. PICK k \in after : k = CHOOSE i \in after : TRUE
      BY <1>3
    <2>2. k \in DOMAIN list /\ 1 + k \in DOMAIN list /\ list[k] = c /\ 1 + k # k
      <3>1. k \in 1 .. Len(list) - 1 /\ list[k] = c
        OBVIOUS
      <3> QED BY <3>1, <1>1
    <2>3. ListGetNextNode(c) = list[1 + k]
      BY <1>3, <2>1 DEF ListGetNextNode
    <2> HIDE DEF after
    <2> QED BY <2>2, <2>3 DEF ToSet, IsInjective
  <1> QED BY <1>2, <1>3

\* The first node is in the list.
LEMMA FirstIsListed ==
    ASSUME TypeOK, list # <<>>
    PROVE  ListGetFirstNode \in ToSet(list) /\ ListGetFirstNode \in Contexts
  <1>1. list \in Seq(Contexts)
    BY DEF TypeOK
  <1>2. DOMAIN list = 1 .. Len(list) /\ Len(list) \in Nat \ {0} /\ list[1] \in Contexts
    BY <1>1
  <1>3. ListGetFirstNode = list[1]
    BY <1>1 DEF ListGetFirstNode
  <1>4. list[1] \in ToSet(list)
    BY <1>2 DEF ToSet
  <1> QED BY <1>2, <1>3, <1>4

\* What is listed is a context.
LEMMA ListedIsContext ==
    ASSUME TypeOK
    PROVE  ToSet(list) \subseteq Contexts
  BY LenProperties, ElementOfSeq DEF TypeOK, ToSet

-----------------------------------------------------------------------------
\* At start there are no contexts.
LEMMA InitIndInv ==
    Init => IndInv
  <1> SUFFICES ASSUME Init PROVE IndInv
    OBVIOUS
  <1> USE RlcContextAssumption DEF Init
  <1>1. TypeOK
    BY DEF TypeOK
  <1>2. IsInjective(list) /\ ToSet(list) = {}
    BY DEF IsInjective, ToSet
  <1> QED BY <1>1, <1>2 DEF IndInv, ListHoldsLiveContexts, CleanerStandsOnLiveContexts, CleanerIsOneAhead

\* The worker's steps move only its own pointer, until it creates a context.
LEMMA WorkerInductive ==
    ASSUME IndInv, WorkerRuns \/ \E r \in Rntis : PacketArrives(r)
    PROVE  IndInv'
  <1> USE DEF IndInv, ListHoldsLiveContexts, contextVars, workerVars, cleanerVars
  <1>1. CASE \E r \in Rntis : PacketArrives(r)
    <2>1. TypeOK'
      BY <1>1, FirstIsListed, RlcContextAssumption DEF PacketArrives, TypeOK, ListGetFirstNode
    <2> QED BY <1>1, <2>1 DEF PacketArrives, CleanerStandsOnLiveContexts, CleanerIsOneAhead
  <1>2. CASE RlcGetUeContext
    <2>1. pUeCtx' \in Contexts \cup {NoContext}
      <3>1. CASE pUeCtx' = pUeCtx
        BY <3>1 DEF TypeOK
      <3>2. CASE pUeCtx \in Contexts /\ pUeCtx' = ListGetNextNode(pUeCtx)
        BY <3>2, NextIsAnother, ListedIsContext
      <3> QED BY <1>2, <3>1, <3>2 DEF RlcGetUeContext, TypeOK
    <2>2. TypeOK'
      BY <1>2, <2>1 DEF RlcGetUeContext, TypeOK
    <2> QED BY <1>2, <2>2 DEF RlcGetUeContext, CleanerStandsOnLiveContexts, CleanerIsOneAhead
  <1>3. CASE RlcCreateUeContext
    <2>1. CASE UNCHANGED <<list, contextVars, pUeCtx>> /\ pcW' = "idle"
      <3>1. TypeOK'
        BY <1>3, <2>1 DEF RlcCreateUeContext, TypeOK
      <3> QED BY <1>3, <2>1, <3>1
              DEF RlcCreateUeContext, CleanerStandsOnLiveContexts, CleanerIsOneAhead
    <2>2. ASSUME NEW c \in Contexts \ allocated,
                 allocated' = allocated \cup {c},
                 rnti' = [rnti EXCEPT ![c] = ueRnti],
                 idleCount' = [idleCount EXCEPT ![c] = 0],
                 deleteFlag' = [deleteFlag EXCEPT ![c] = 0],
                 list' = Append(list, c),
                 pUeCtx' = c,
                 pcW' = "use"
          PROVE  IndInv'
      <3>1. c \notin ToSet(list) /\ (pcC = "free" => c # pRlcUeCtx)
        BY <2>2 DEF CleanerIsOneAhead
      <3>2. /\ list' \in Seq(Contexts)
            /\ IsInjective(list')
            /\ ToSet(list') = ToSet(list) \cup {c}
        BY <2>2, <3>1, AppendNew DEF TypeOK
      <3>3. UNCHANGED <<packets, ueRnti, cleanerVars>>
        BY <1>3 DEF RlcCreateUeContext
      <3>4. TypeOK'
        BY <2>2, <3>2, <3>3, RlcContextAssumption DEF TypeOK
      <3>5. ListHoldsLiveContexts'
        BY <2>2, <3>1, <3>2, <3>3, <3>4
      <3> QED BY <2>2, <3>2, <3>3, <3>5 DEF CleanerStandsOnLiveContexts, CleanerIsOneAhead
    <2> QED BY <1>3, <2>1, <2>2 DEF RlcCreateUeContext
  <1>4. CASE TestDeleteFlag
    <2>1. TypeOK'
      BY <1>4 DEF TestDeleteFlag, TypeOK
    <2> QED BY <1>4, <2>1 DEF TestDeleteFlag, CleanerStandsOnLiveContexts, CleanerIsOneAhead
  <1>5. CASE ResetIdleCount
    <2>1. idleCount' \in [Contexts -> 0 .. gMaxIdleCount]
      <3>1. idleCount \in [Contexts -> 0 .. gMaxIdleCount] /\ 0 \in 0 .. gMaxIdleCount
        BY RlcContextAssumption DEF TypeOK
      <3>2. idleCount' = [idleCount EXCEPT ![pUeCtx] = 0]
        BY <1>5 DEF ResetIdleCount
      <3> QED BY ONLY <3>1, <3>2
    <2>2. TypeOK'
      BY <1>5, <2>1 DEF ResetIdleCount, TypeOK
    <2> QED BY <1>5, <2>2 DEF ResetIdleCount, CleanerStandsOnLiveContexts, CleanerIsOneAhead
  <1>6. CASE UseContext
    <2>1. TypeOK'
      BY <1>6 DEF UseContext, TypeOK
    <2> QED BY <1>6, <2>1 DEF UseContext, CleanerStandsOnLiveContexts, CleanerIsOneAhead
  <1> QED BY <1>1, <1>2, <1>3, <1>4, <1>5, <1>6 DEF WorkerRuns

\* Going on to the next context ends the visit of this one.
LEMMA AdvanceStaysOnList ==
    ASSUME IndInv, Advance, list' = list,
           pcC \in {"test", "free"}, {pRlcUeCtx, pNext} \subseteq Contexts \cup {NoContext}
    PROVE  /\ CleanerStandsOnLiveContexts'
           /\ CleanerIsOneAhead'
           /\ {pRlcUeCtx', pNext'} \subseteq Contexts \cup {NoContext}
           /\ pcC' \in {"idle", "visit"}
  BY DEF IndInv, Advance, CleanerStandsOnLiveContexts, CleanerIsOneAhead

\* The cleaner's steps.
LEMMA CleanerInductive ==
    ASSUME IndInv, CleanerRuns
    PROVE  IndInv'
  <1> USE DEF IndInv, ListHoldsLiveContexts, contextVars, workerVars, cleanerVars
  <1>1. CASE StartCleanup
    <2>1. TypeOK'
      BY <1>1, FirstIsListed, RlcContextAssumption DEF StartCleanup, TypeOK, ListGetFirstNode
    <2>2. CleanerStandsOnLiveContexts'
      BY <1>1, FirstIsListed DEF StartCleanup, CleanerStandsOnLiveContexts
    <2> QED BY <1>1, <2>1, <2>2 DEF StartCleanup, CleanerIsOneAhead
  <1>2. CASE ReadNext
    <2>1. pRlcUeCtx \in Contexts
      BY <1>2, ListedIsContext DEF ReadNext, CleanerStandsOnLiveContexts
    <2>2. pNext' = NoContext \/ pNext' \in ToSet(list) \ {pRlcUeCtx}
      BY <1>2, <2>1, NextIsAnother DEF ReadNext
    <2>3. TypeOK'
      BY <1>2, <2>2, ListedIsContext DEF ReadNext, TypeOK
    <2> QED BY <1>2, <2>1, <2>2, <2>3, RlcContextAssumption
            DEF ReadNext, CleanerStandsOnLiveContexts, CleanerIsOneAhead
  <1>3. CASE TestIdleCount
    <2>1. CASE UNCHANGED <<idleCount, pRlcUeCtx, pNext>> /\ pcC' = "flag"
      <3>1. TypeOK'
        BY <1>3, <2>1 DEF TestIdleCount, TypeOK
      <3> QED BY <1>3, <2>1, <3>1
              DEF TestIdleCount, CleanerStandsOnLiveContexts, CleanerIsOneAhead
    <2>2. CASE /\ idleCount[pRlcUeCtx] < gMaxIdleCount
               /\ idleCount' = [idleCount EXCEPT ![pRlcUeCtx] = @ + 1]
               /\ Advance
      <3>1. /\ CleanerStandsOnLiveContexts'
            /\ CleanerIsOneAhead'
            /\ {pRlcUeCtx', pNext'} \subseteq Contexts \cup {NoContext}
            /\ pcC' \in {"idle", "visit"}
        BY <1>3, <2>2, AdvanceStaysOnList DEF TestIdleCount, TypeOK
      <3>2. pRlcUeCtx \in Contexts
        BY <1>3, ListedIsContext DEF TestIdleCount, CleanerStandsOnLiveContexts
      <3>3. idleCount' \in [Contexts -> 0 .. gMaxIdleCount]
        BY <2>2, <3>2, RlcContextAssumption DEF TypeOK
      <3>4. TypeOK'
        BY <1>3, <3>1, <3>3 DEF TestIdleCount, TypeOK
      <3> QED BY <1>3, <3>1, <3>4 DEF TestIdleCount
    <2> QED BY <1>3, <2>1, <2>2 DEF TestIdleCount
  <1>4. CASE SetDeleteFlag
    <2>1. TypeOK'
      BY <1>4 DEF SetDeleteFlag, TypeOK
    <2> QED BY <1>4, <2>1 DEF SetDeleteFlag, CleanerStandsOnLiveContexts, CleanerIsOneAhead
  <1>5. CASE UnlinkContext
    <2>1. pRlcUeCtx \in ToSet(list)
      BY <1>5 DEF UnlinkContext, CleanerStandsOnLiveContexts
    <2>2. /\ list' \in Seq(Contexts)
          /\ IsInjective(list')
          /\ ToSet(list') = ToSet(list) \ {pRlcUeCtx}
      BY <1>5, <2>1, RemoveFirstUnique DEF UnlinkContext, TypeOK
    <2>3. TypeOK'
      BY <1>5, <2>2 DEF UnlinkContext, TypeOK
    <2>4. ListHoldsLiveContexts'
      BY <1>5, <2>2, <2>3 DEF UnlinkContext
    <2> QED BY <1>5, <2>1, <2>2, <2>4
            DEF UnlinkContext, CleanerStandsOnLiveContexts, CleanerIsOneAhead
  <1>6. CASE FreeContext
    <2>1. /\ CleanerStandsOnLiveContexts'
          /\ CleanerIsOneAhead'
          /\ {pRlcUeCtx', pNext'} \subseteq Contexts \cup {NoContext}
          /\ pcC' \in {"idle", "visit"}
      BY <1>6, AdvanceStaysOnList DEF FreeContext, TypeOK
    <2>2. TypeOK'
      BY <1>6, <2>1 DEF FreeContext, TypeOK
    <2> QED BY <1>6, <2>1, <2>2 DEF FreeContext
  <1> QED BY <1>1, <1>2, <1>3, <1>4, <1>5, <1>6 DEF CleanerRuns

\* A step that changes nothing keeps everything.
LEMMA StutterInductive ==
    ASSUME IndInv, UNCHANGED vars
    PROVE  IndInv'
  BY DEF IndInv, vars, contextVars, workerVars, cleanerVars, ListHoldsLiveContexts,
         TypeOK, CleanerStandsOnLiveContexts, CleanerIsOneAhead

-----------------------------------------------------------------------------
\* The three facts hold in every state the worker (RlcProcessAMRxPacket) and the
\* cleaner (ExecuteCleanup) can reach together.
THEOREM ListInvariant ==
    Spec => []IndInv
  <1>1. Init => IndInv
    BY InitIndInv
  <1>2. IndInv /\ [Next]_vars => IndInv'
    BY WorkerInductive, CleanerInductive, StutterInductive DEF Next
  <1> QED BY <1>1, <1>2, PTL DEF Spec

\* The worker's pushes (RlcCreateUeContext) and the cleaner's deletions
\* (RlcDeleteUeContext) never lose a context and never keep a freed one.
THEOREM ContextsAreConserved ==
    Spec => []ListHoldsLiveContexts
  <1>1. IndInv => ListHoldsLiveContexts
    BY DEF IndInv
  <1> QED BY <1>1, ListInvariant, PTL

\* The pointer pNextRlcUeCtx that ExecuteCleanup reads before it may delete a
\* context is good after the deletion, although the walk takes no lock.
THEOREM CleanerIsSafe ==
    Spec => []CleanerStandsOnLiveContexts
  <1>1. IndInv => CleanerStandsOnLiveContexts
    BY DEF IndInv
  <1> QED BY <1>1, ListInvariant, PTL

-----------------------------------------------------------------------------
(***************************************************************************)
(* Second part.  The receiver: it delivers genuine SDUs, their report      *)
(* lists match, and it loses no block, for any script of packets, any      *)
(* modulus of the sequence numbers, any pools and any answers of MAC.      *)
(*                                                                         *)
(* The invariant comes in layers.  Base says which pointers are set at     *)
(* which point of RlcProcessAMRxPacket; QueueInStep and SizesInStep that   *)
(* the elements are those the packet's header describes; RawInStep what    *)
(* the raw SDU is the beginning of, and where the packet in hand lies seen *)
(* from it; ReportsInStep that the report list counts the raw SDU's        *)
(* segments; BlocksApart that no block is reached twice.                   *)
(***************************************************************************)
Statuses == {"FULL", "START", "END", "MID"}

\* an element that has its two blocks
HeldElement == [node : Blocks, data : Blocks, size : Nat, status : Statuses, frag : Fragment]

\* which pointers are set at which point, and how far the queue is
InStep ==
    /\ pc # "idle" => pkt # 0
    /\ pc \in {"first", "split", "enqueue", "reassemble"} => Script[pkt].kind = "data"
    /\ IF pc \in {"header", "decode", "first"} THEN rlcdata \in Blocks ELSE rlcdata = NoBlock
    /\ IF pc \in {"idle", "header"} THEN amdPdu = NoBlock ELSE amdPdu \in Blocks
    /\ IF pc \in {"idle", "header", "decode"} THEN segment = NoBlock ELSE segment \in Blocks
    /\ IF pc \in {"split", "enqueue"} THEN dfe \in HeldElement ELSE dfe = NoDfe
    /\ dfeQ \in Seq(HeldElement)
    /\ pc \notin {"split", "enqueue", "reassemble"} => dfeQ = <<>>
    /\ pc = "split" => Len(dfeQ) < Len(Script[pkt].li)
    /\ pc = "enqueue" => Len(dfeQ) = Len(Script[pkt].li)

\* the elements of the packet in hand that were taken from the queue
Handled == IF pc = "reassemble" THEN Len(Script[pkt].li) + 1 - Len(dfeQ) ELSE 0

\* the status and the fragment of an element are those the packet's header gives
IsElement(e, p, j) == j \in Elements(p) /\ e.status = StatusOf(p, j) /\ e.frag = p.frag[j]

QueueInStep ==
    /\ \A i \in 1 .. Len(dfeQ) : IsElement(dfeQ[i], Script[pkt], Handled + i)
    /\ pc \in {"split", "enqueue"} => IsElement(dfe, Script[pkt], Len(dfeQ) + 1)

\* the rest of the packet that an element begins with, as long as it is split
SizesInStep ==
    /\ pc \in {"split", "enqueue"} =>
        /\ HeaderIsValid(Script[pkt])
        /\ dfe.size = Script[pkt].size - Taken(Script[pkt], Len(dfeQ))
        /\ \A i \in 1 .. Len(dfeQ) : dfeQ[i].size = SizeOf(Script[pkt], i)
    /\ pc = "reassemble" =>
        /\ HeaderIsValid(Script[pkt])
        /\ Taken(Script[pkt], Len(Script[pkt].li)) <= Script[pkt].size
        /\ \A i \in 1 .. Len(dfeQ) : dfeQ[i].size = SizeOf(Script[pkt], Handled + i)
    /\ raw.data # NoBlock => raw.size > 0

BlocksOf(e) == {e.node, e.data}
BlocksIn(q) == UNION {BlocksOf(q[i]) : i \in 1 .. Len(q)}

\* no two elements of a queue share a block
ElementsApart(q) ==
    /\ \A i \in 1 .. Len(q) : q[i].node # q[i].data
    /\ \A i, j \in 1 .. Len(q) : i # j => BlocksOf(q[i]) \cap BlocksOf(q[j]) = {}

\* no block is reached by two pointers
BlocksApart ==
    /\ ElementsApart(dfeQ)
    /\ {rlcdata, amdPdu, segment, dfe.node, dfe.data, raw.data} \cap BlocksIn(dfeQ) = {}
    /\ rlcdata # NoBlock => rlcdata \notin {amdPdu, segment, dfe.node, dfe.data, raw.data}
    /\ amdPdu # NoBlock => amdPdu \notin {segment, dfe.node, dfe.data, raw.data}
    /\ segment # NoBlock => segment \notin {dfe.node, dfe.data, raw.data}
    /\ dfe.node # NoBlock => dfe.node \notin {dfe.data, raw.data}
    /\ dfe.data # NoBlock => dfe.data # raw.data

\* where packet k may lie, seen from the raw SDU
Window == (2 - SN_MODULUS) .. (SN_MODULUS - 1)

\* the raw SDU is the beginning of an SDU up to the end of packet upTo
RawInStep ==
    /\ pc # "idle" => pkt \in received
    /\ raw.data # NoBlock =>
        /\ raw.upTo \in received /\ Script[raw.upTo].kind = "data"
        /\ raw.sn = Sn(raw.upTo)
        /\ raw.frags # <<>> /\ Genuine(raw.frags)
        /\ LET stop == Script[raw.upTo].frag[Len(Script[raw.upTo].frag)] IN
            raw.frags[Len(raw.frags)] = stop /\ ~stop.last
        /\ pc # "idle" => raw.upTo = pkt \/ pkt - raw.upTo \in Window
        /\ pc # "idle" /\ raw.upTo = pkt =>
            pkt \in Redelivered \/ (pc = "reassemble" /\ dfeQ = <<>>)

\* the list has an entry for each segment of the raw SDU; a raw SDU that the first
\* element of a packet has left there is one the packet does not follow
ReportsInStep ==
    /\ MacKnown = {TRUE} /\ raw.data # NoBlock => rptCount = Capped(Len(raw.frags))
    /\ pc = "reassemble" /\ Handled > 0 /\ dfeQ # <<>> /\ raw.data # NoBlock =>
        raw.upTo \notin {pkt - 1, pkt}

Base == AmTypeOK /\ InStep
RawType == [data : Blocks \cup {NoBlock}, sn : 0 .. SN_MODULUS - 1, size : Nat,
            frags : Seq(Fragment), upTo : Nat]

(***************************************************************************)
(* What one turn of the reassembly may do, told by what becomes of the raw *)
(* SDU.                                                                    *)
(***************************************************************************)
Follows == isSNEqual(pkt, raw.sn + 1) \/ isSNEqual(pkt, raw.sn)

Dropped ==
    /\ UNCHANGED rawVars
    /\ \/ live' = live \ {Current.data, Current.node}
       \/ JoinMayFail /\ live' = live \ {raw.data, Current.data, Current.node}
    /\ raw.data # NoBlock /\ Follows /\ ~JoinMayFail => Current.status = "MID"

Whole ==
    /\ Current.status = "FULL"
    /\ raw' = NoRaw
    /\ \E known \in MacKnown : Deliver(<<Current.frag>>, FirstReport(known))
    /\ live' = live \ ({raw.data} \cup FreedByPdcp(Current.data, Current.size) \cup {Current.node})

Started ==
    /\ Current.status = "START"
    /\ SaveSdu(Current)
    /\ \/ \E known \in MacKnown : rptCount' = FirstReport(known)
       \/ raw.data # NoBlock /\ Follows /\ UNCHANGED rptCount
    /\ live' = live \ {raw.data, Current.node}
    /\ UNCHANGED delivered

Ended ==
    /\ raw.data # NoBlock /\ Follows
    /\ Current.status = "END"
    /\ JoinEnd

Continued ==
    /\ raw.data # NoBlock /\ isSNEqual(pkt, raw.sn + 1) /\ ~isSNEqual(pkt, raw.sn)
    /\ Current.status = "MID"
    /\ JoinMid

(***************************************************************************)
(* The steps as the queue sees them.                                       *)
(***************************************************************************)
NoQueue ==
    /\ pc' \notin {"split", "enqueue", "reassemble"}
    /\ dfeQ' = <<>>
    /\ UNCHANGED rawVars
    /\ \/ pc' = "idle" /\ UNCHANGED received
       \/ \E k \in 1 .. Len(Script) :
            InWindow(k) /\ pkt' = k /\ received' = received \cup {k}
       \/ pc \notin {"idle", "reassemble"} /\ UNCHANGED <<pkt, received>>

FirstMade ==
    /\ pc = "first"
    /\ HeaderIsValid(Script[pkt])
    /\ dfe'.size = Script[pkt].size
    /\ dfe'.status = FirstStatus(Script[pkt])
    /\ dfe'.frag = Script[pkt].frag[1]
    /\ pc' \in {"split", "enqueue"}
    /\ UNCHANGED <<pkt, received, dfeQ, rawVars>>

Split ==
    LET p == Script[pkt]
        i == Len(dfeQ) + 1
    IN /\ pc = "split"
       /\ i \in 1 .. Len(p.li)
       /\ p.li[i] <= dfe.size
       /\ dfeQ' = Append(dfeQ, [dfe EXCEPT !.size = p.li[i]])
       /\ dfe'.size = dfe.size - p.li[i]
       /\ dfe'.status = IF i = Len(p.li) THEN LastStatus(p) ELSE "FULL"
       /\ dfe'.frag = p.frag[i + 1]
       /\ pc' \in {"split", "enqueue"}
       /\ UNCHANGED <<pkt, received, rawVars>>

\* What RlcGetConcatenationHeaderInfo and the decoder read from a packet.
LEMMA PacketFacts ==
    ASSUME NEW k \in 1 .. Len(Script)
    PROVE  /\ Script[k].li \in Seq(Nat) /\ Len(Script[k].li) \in Nat
           /\ \A j \in 1 .. Len(Script[k].li) : Script[k].li[j] \in Nat
           /\ Script[k].size \in Nat /\ Script[k].fi \in 0 .. 3
           /\ Script[k].kind = "data" =>
                \A j \in Elements(Script[k]) : Script[k].frag[j] \in Fragment
  <1> DEFINE Packets == [kind : STRING, fi : 0 .. 3, li : Seq(Nat), size : Nat,
                         frag : Seq([sdu : Nat, part : Nat, last : BOOLEAN])]
  <1>1. Script[k] \in Packets
    <2>1. Script \in Seq(Packets)
      BY RlcAmAssumption DEF RlcAmAssumption
    <2> HIDE DEF Packets
    <2> QED BY <2>1
  <1>2. /\ Script[k].li \in Seq(Nat) /\ Script[k].size \in Nat /\ Script[k].fi \in 0 .. 3
        /\ Script[k].frag \in Seq(Fragment)
    BY <1>1 DEF Fragment
  <1>3. Len(Script[k].li) \in Nat /\ \A j \in 1 .. Len(Script[k].li) : Script[k].li[j] \in Nat
    BY <1>2
  <1>4. Script[k].kind = "data" => Len(Script[k].frag) = Len(Script[k].li) + 1
    BY RlcAmAssumption DEF RlcAmAssumption
  <1>5. \A j \in 1 .. Len(Script[k].frag) : Script[k].frag[j] \in Fragment
    BY <1>2
  <1> QED BY <1>2, <1>3, <1>4, <1>5 DEF Elements

\* Only the first element of a packet can end an SDU, only the last can start one.
LEMMA StatusFacts ==
    ASSUME NEW k \in 1 .. Len(Script), NEW j \in Elements(Script[k])
    PROVE  /\ StatusOf(Script[k], j) \in Statuses
           /\ StatusOf(Script[k], j) \in {"END", "MID"} => j = 1
           /\ StatusOf(Script[k], j) \in {"START", "MID"} => j = Len(Script[k].li) + 1
  <1> DEFINE p == Script[k]
  <1>1. p.fi \in 0 .. 3 /\ Len(p.li) \in Nat /\ p.li \in Seq(Nat)
    BY PacketFacts
  <1> HIDE DEF p
  <1>2. FirstStatus(p) \in Statuses /\ (p.li # <<>> => FirstStatus(p) \in {"END", "FULL"})
    <2>1. p.li # <<>> => FirstStatus(p) \in {"END", "FULL"}
      BY DEF FirstStatus
    <2>2. p.li = <<>> => FirstStatus(p) \in Statuses
      <3>1. p.fi = 0 \/ p.fi = 1 \/ p.fi = 2 \/ p.fi = 3
        BY <1>1
      <3> QED BY <3>1 DEF FirstStatus, Statuses
    <2> QED BY <2>1, <2>2 DEF Statuses
  <1>3. LastStatus(p) \in {"START", "FULL"}
    BY DEF LastStatus
  <1>4. p.li = <<>> => Len(p.li) = 0
    OBVIOUS
  <1>5. j \in Nat /\ j >= 1
    BY <1>1 DEF Elements, p
  <1>6. p.li # <<>> => Len(p.li) # 0
    BY <1>1
  <1>7. /\ StatusOf(p, j) \in Statuses
        /\ StatusOf(p, j) \in {"END", "MID"} => j = 1
        /\ StatusOf(p, j) \in {"START", "MID"} => j = Len(p.li) + 1
    BY <1>1, <1>2, <1>3, <1>4, <1>5, <1>6 DEF StatusOf, Statuses
  <1> QED BY <1>7 DEF p

\* The types of the entity's variables, as single facts.
LEMMA TypeFacts ==
    AmTypeOK => /\ pkt \in 0 .. Len(Script) /\ live \subseteq Blocks /\ NoBlock \notin live
                /\ rlcdata \in Blocks \cup {NoBlock} /\ amdPdu \in Blocks \cup {NoBlock}
                /\ segment \in Blocks \cup {NoBlock} /\ raw.data \in Blocks \cup {NoBlock}
                /\ raw.size \in Nat /\ raw.frags \in Seq(Fragment) /\ raw.upTo \in Nat
                /\ raw.sn \in 0 .. SN_MODULUS - 1
                /\ rptCount \in 0 .. MAX_RLC_SEGMENTS_NUM
                /\ NoBlock \notin Blocks
                /\ MAX_RLC_SEGMENTS_NUM \in Nat \ {0} /\ SN_MODULUS \in Nat \ {0}
  BY RlcAmAssumption DEF AmTypeOK, Blocks, NoBlock, RlcAmAssumption

\* A packet that is over leaves no pointer behind.
LEMMA PacketEndsBase ==
    ASSUME Base, NEW freed, PacketEnds(freed), UNCHANGED rawVars
    PROVE  Base'
  <1>1. /\ live' = live \ freed /\ pc' = "idle" /\ pkt' = 0
        /\ rlcdata' = NoBlock /\ amdPdu' = NoBlock /\ segment' = NoBlock
        /\ dfe' = NoDfe /\ dfeQ' = <<>> /\ received' = received
        /\ raw' = raw /\ rptCount' = rptCount /\ delivered' = delivered
    BY DEF PacketEnds, rawVars
  <1>2. <<>> \in Seq(HeldElement) /\ <<>> \in Seq(Element) /\ NoDfe \in Element
    BY DEF NoDfe, Element, Fragment
  <1>3. AmTypeOK'
    <2>1. Len(Script) \in Nat
      BY RlcAmAssumption DEF RlcAmAssumption
    <2> QED BY <1>1, <1>2, <2>1 DEF Base, AmTypeOK
  <1>4. InStep'
    BY <1>1, <1>2 DEF InStep
  <1> QED BY <1>3, <1>4 DEF Base

\* An element that has its two blocks is an element, and so are those of a queue.
LEMMA HeldIsElement ==
    /\ HeldElement \subseteq Element
    /\ \A e \in HeldElement : e.node \in Blocks /\ e.data \in Blocks /\ e.size \in Nat
                              /\ e.status \in Statuses /\ e.frag \in Fragment
    /\ \A q \in Seq(HeldElement) : q \in Seq(Element)
  <1>1. HeldElement \subseteq Element
    BY DEF HeldElement, Element, Statuses
  <1>2. \A e \in HeldElement : e.node \in Blocks /\ e.data \in Blocks /\ e.size \in Nat
                              /\ e.status \in Statuses /\ e.frag \in Fragment
    BY DEF HeldElement
  <1>3. \A q \in Seq(HeldElement) : q \in Seq(Element)
    BY <1>1
  <1> QED BY <1>1, <1>2, <1>3

\* The steps from the packet to the first element.
LEMMA DecodeBase ==
    ASSUME Base,
           (\E k \in 1 .. Len(Script) : Receive(k)) \/ RlcProcessAMRxPacket \/ RlcProcessAmdPduSegment
           \/ RlcDecodeAmdPdu \/ FirstDfe
    PROVE  Base'
  <1>1. AmTypeOK /\ InStep
    BY DEF Base
  <1>2. <<>> \in Seq(HeldElement) /\ <<>> \in Seq(Element) /\ NoDfe \in Element
    BY DEF NoDfe, Element, Fragment
  <1>3. ASSUME NEW k \in 1 .. Len(Script), Receive(k) PROVE Base'
    <2>1. PICK b \in Blocks : live' = live \cup {b} /\ rlcdata' = b
      BY <1>3 DEF Receive
    <2>2. /\ pc = "idle" /\ pc' = "header" /\ pkt' = k /\ received' = received \cup {k}
          /\ amdPdu' = amdPdu /\ segment' = segment /\ dfe' = dfe /\ dfeQ' = dfeQ
          /\ raw' = raw /\ rptCount' = rptCount /\ delivered' = delivered
      BY <1>3 DEF Receive, rawVars
    <2>3. AmTypeOK'
      BY <1>1, <2>1, <2>2 DEF AmTypeOK
    <2>4. InStep'
      BY <1>1, <2>1, <2>2 DEF InStep
    <2> QED BY <2>3, <2>4 DEF Base
  <1>4. ASSUME RlcProcessAMRxPacket PROVE Base'
    <2>1. CASE PacketEnds({rlcdata})
      BY <1>4, <2>1, PacketEndsBase DEF RlcProcessAMRxPacket
    <2>2. ASSUME NEW b \in Blocks, live' = live \cup {b}, amdPdu' = b, pc' = "decode",
                 UNCHANGED <<pkt, received, rlcdata, segment, dfe, dfeQ>>
          PROVE  Base'
      <3>1. /\ pc = "header" /\ raw' = raw /\ rptCount' = rptCount /\ delivered' = delivered
        BY <1>4 DEF RlcProcessAMRxPacket, rawVars
      <3>2. AmTypeOK'
        BY <1>1, <2>2, <3>1 DEF AmTypeOK
      <3>3. InStep'
        BY <1>1, <2>2, <3>1 DEF InStep
      <3> QED BY <3>2, <3>3 DEF Base
    <2> QED BY <1>4, <2>1, <2>2 DEF RlcProcessAMRxPacket
  <1>5. ASSUME RlcProcessAmdPduSegment PROVE Base'
    BY <1>5, PacketEndsBase DEF RlcProcessAmdPduSegment
  <1>6. ASSUME RlcDecodeAmdPdu PROVE Base'
    <2>1. CASE PacketEnds({rlcdata, amdPdu})
      BY <1>6, <2>1, PacketEndsBase DEF RlcDecodeAmdPdu
    <2>2. ASSUME NEW b \in Blocks, live' = live \cup {b}, segment' = b, pc' = "first",
                 UNCHANGED <<pkt, received, rlcdata, amdPdu, dfe, dfeQ>>
          PROVE  Base'
      <3>1. /\ pc = "decode" /\ Script[pkt].kind = "data"
            /\ raw' = raw /\ rptCount' = rptCount /\ delivered' = delivered
        BY <1>6 DEF RlcDecodeAmdPdu, rawVars
      <3>2. AmTypeOK'
        BY <1>1, <2>2, <3>1 DEF AmTypeOK
      <3>3. InStep'
        BY <1>1, <2>2, <3>1 DEF InStep
      <3> QED BY <3>2, <3>3 DEF Base
    <2> QED BY <1>6, <2>1, <2>2 DEF RlcDecodeAmdPdu
  <1>7. ASSUME FirstDfe PROVE Base'
    <2> DEFINE p == Script[pkt]
    <2>1. CASE PacketEnds({rlcdata, amdPdu, segment})
      BY <1>7, <2>1, PacketEndsBase DEF FirstDfe
    <2>2. ASSUME NEW b \in Blocks, live' = live \cup {b},
                 dfe' = [node |-> b, data |-> rlcdata, size |-> p.size,
                         status |-> FirstStatus(p), frag |-> p.frag[1]],
                 rlcdata' = NoBlock, pc' = IF p.li = <<>> THEN "enqueue" ELSE "split",
                 UNCHANGED <<pkt, received, amdPdu, segment, dfeQ>>
          PROVE  Base'
      <3>1. /\ pc = "first" /\ p.kind = "data" /\ pkt \in 1 .. Len(Script) /\ dfeQ = <<>>
            /\ rlcdata \in Blocks
            /\ raw' = raw /\ rptCount' = rptCount /\ delivered' = delivered
        BY <1>1, <1>7 DEF FirstDfe, rawVars, InStep, AmTypeOK
      <3>2. p.size \in Nat /\ Len(p.li) \in Nat /\ p.li \in Seq(Nat) /\ p.frag[1] \in Fragment
            /\ 1 \in Elements(p)
        <4>1. /\ p.size \in Nat /\ Len(p.li) \in Nat /\ p.li \in Seq(Nat)
              /\ \A j \in Elements(p) : p.frag[j] \in Fragment
          BY <3>1, PacketFacts
        <4>2. 1 \in Elements(p)
          BY <4>1 DEF Elements
        <4> QED BY <4>1, <4>2
      <3>3. FirstStatus(p) \in Statuses
        <4>1. StatusOf(p, 1) = FirstStatus(p)
          BY DEF StatusOf
        <4> QED BY <3>1, <3>2, <4>1, StatusFacts
      <3> HIDE DEF p
      <3>4. dfe' \in HeldElement
        BY <2>2, <3>1, <3>2, <3>3 DEF HeldElement
      <3>5. AmTypeOK'
        BY <1>1, <2>2, <3>1, <3>4, HeldIsElement DEF AmTypeOK
      <3>6. p.li # <<>> => Len(p.li) > 0
        BY <3>2
      <3>7. p.li = <<>> => Len(p.li) = 0
        OBVIOUS
      <3>8. InStep'
        <4>1. Script[pkt]' = p /\ Len(dfeQ') = 0
          BY <2>2, <3>1 DEF p
        <4> QED BY <1>1, <2>2, <3>1, <3>4, <3>6, <3>7, <4>1 DEF InStep, p
      <3> QED BY <3>5, <3>8 DEF Base
    <2> QED BY <1>7, <2>1, <2>2 DEF FirstDfe
  <1> QED BY <1>3, <1>4, <1>5, <1>6, <1>7

\* The steps that split the packet into elements.
LEMMA SplitBase ==
    ASSUME Base, RlcDecodeAndEnqueueAMSegment \/ Enqueue
    PROVE  Base'
  <1> DEFINE p == Script[pkt]
             i == Len(dfeQ) + 1
  <1>1. /\ AmTypeOK /\ InStep /\ dfeQ \in Seq(HeldElement) /\ dfe \in HeldElement
        /\ pc \in {"split", "enqueue"} /\ pkt \in 1 .. Len(Script) /\ p.kind = "data"
        /\ Len(dfeQ) \in Nat
    <2>1. AmTypeOK /\ InStep
      BY DEF Base
    <2>2. pc \in {"split", "enqueue"}
      BY DEF RlcDecodeAndEnqueueAMSegment, Enqueue
    <2>3. dfeQ \in Seq(HeldElement) /\ dfe \in HeldElement /\ pkt \in 1 .. Len(Script) /\ p.kind = "data"
      BY <2>1, <2>2 DEF InStep, AmTypeOK
    <2>4. Len(dfeQ) \in Nat
      BY ONLY <2>3, LenProperties
    <2> QED BY <2>1, <2>2, <2>3, <2>4
  <1>2. /\ p.li \in Seq(Nat) /\ Len(p.li) \in Nat
        /\ \A j \in 1 .. Len(p.li) : p.li[j] \in Nat
        /\ \A j \in Elements(p) : p.frag[j] \in Fragment
    BY <1>1, PacketFacts
  <1> HIDE DEF p
  <1>3. CASE RlcDecodeAndEnqueueAMSegment
    <2>1. CASE PacketEnds({dfe.node, dfe.data, amdPdu, segment} \cup QueueBlocks)
      BY <1>3, <2>1, PacketEndsBase DEF RlcDecodeAndEnqueueAMSegment
    <2>2. ASSUME NEW b \in Blocks, NEW d \in Blocks,
                 p.li[i] <= dfe.size,
                 live' = live \cup {b, d},
                 dfeQ' = Append(dfeQ, [dfe EXCEPT !.size = p.li[i]]),
                 dfe' = [node |-> b, data |-> d, size |-> dfe.size - p.li[i],
                         status |-> IF i = Len(p.li) THEN LastStatus(p) ELSE "FULL",
                         frag |-> p.frag[i + 1]],
                 pc' = IF i = Len(p.li) THEN "enqueue" ELSE "split",
                 UNCHANGED <<pkt, received, rlcdata, amdPdu, segment>>
          PROVE  Base'
      <3>1. /\ pc = "split" /\ i \in 1 .. Len(p.li) /\ i + 1 \in Elements(p)
            /\ raw' = raw /\ rptCount' = rptCount /\ delivered' = delivered
        BY <1>1, <1>2, <1>3 DEF RlcDecodeAndEnqueueAMSegment, rawVars, InStep, Elements, p
      <3>2. [dfe EXCEPT !.size = p.li[i]] \in HeldElement
        BY <1>1, <1>2, <3>1 DEF HeldElement
      <3>3. dfeQ' \in Seq(HeldElement) /\ Len(dfeQ') = i
        BY <1>1, <2>2, <3>2
      <3>4. dfe' \in HeldElement
        <4>1. dfe.size - p.li[i] \in Nat
          <5>1. p.li[i] \in Nat /\ p.li[i] <= dfe.size
            BY <1>2, <2>2, <3>1
          <5>2. dfe.size \in Nat
            BY <1>1, HeldIsElement
          <5> QED BY ONLY <5>1, <5>2
        <4>2. (IF i = Len(p.li) THEN LastStatus(p) ELSE "FULL") \in Statuses
          BY DEF LastStatus, Statuses
        <4> HIDE DEF i
        <4> QED BY <1>2, <2>2, <3>1, <4>1, <4>2 DEF HeldElement
      <3> HIDE DEF i
      <3>5. AmTypeOK'
        BY <1>1, <2>2, <3>1, <3>3, <3>4, HeldIsElement DEF AmTypeOK
      <3>6. InStep'
        <4>1. Script[pkt]' = p
          BY <2>2 DEF p
        <4>2. /\ i = Len(p.li) => pc' = "enqueue"
              /\ i # Len(p.li) => pc' = "split"
          BY <2>2
        <4>3. i <= Len(p.li) /\ i \in Nat
          BY <1>2, <3>1
        <4>4. /\ pkt' # 0 /\ Script[pkt]'.kind = "data" /\ rlcdata' = NoBlock
              /\ amdPdu' \in Blocks /\ segment' \in Blocks
          BY <1>1, <2>2, <3>1, <4>1 DEF InStep
        <4> QED BY <3>3, <3>4, <1>2, <4>1, <4>2, <4>3, <4>4 DEF InStep
      <3> QED BY <3>5, <3>6 DEF Base
    <2> QED BY <1>3, <2>1, <2>2 DEF RlcDecodeAndEnqueueAMSegment, p
  <1>4. CASE Enqueue
    <2>1. /\ pc = "enqueue" /\ dfeQ' = Append(dfeQ, dfe) /\ dfe' = NoDfe /\ pc' = "reassemble"
          /\ UNCHANGED <<pkt, received, live, rlcdata, amdPdu, segment>>
          /\ raw' = raw /\ rptCount' = rptCount /\ delivered' = delivered
      BY <1>4 DEF Enqueue, rawVars
    <2>2. dfeQ' \in Seq(HeldElement) /\ Len(dfeQ') = Len(dfeQ) + 1
      BY <1>1, <2>1
    <2>3. NoDfe \in Element
      BY DEF NoDfe, Element, Fragment
    <2>4. AmTypeOK'
      BY <1>1, <2>1, <2>2, <2>3, HeldIsElement DEF AmTypeOK
    <2>5. InStep'
      BY <1>1, <2>1, <2>2 DEF InStep, p
    <2> QED BY <2>4, <2>5 DEF Base
  <1> QED BY <1>3, <1>4

\* A turn takes the element at the head of the queue.
LEMMA TurnQueue ==
    ASSUME Base, RlcReassembleAmdDfeQ
    PROVE  /\ AmTypeOK /\ InStep /\ pc = "reassemble" /\ Len(dfeQ) \in Nat \ {0}
           /\ pkt \in 1 .. Len(Script)
           /\ Current = dfeQ[1] /\ Current \in HeldElement
           /\ Current.node \in Blocks /\ Current.data \in Blocks /\ Current.size \in Nat
           /\ Current.status \in Statuses /\ Current.frag \in Fragment
           /\ dfeQ' = Tail(dfeQ) /\ dfeQ' \in Seq(HeldElement)
           /\ Len(dfeQ') = Len(dfeQ) - 1
           /\ \A i \in 1 .. Len(dfeQ') : dfeQ'[i] = dfeQ[i + 1]
           /\ UNCHANGED <<pc, pkt, received, rlcdata, amdPdu, segment, dfe>>
  <1>1. /\ AmTypeOK /\ InStep /\ dfeQ \in Seq(HeldElement)
        /\ pc = "reassemble" /\ dfeQ # <<>> /\ dfeQ' = Tail(dfeQ)
        /\ UNCHANGED <<pc, pkt, received, rlcdata, amdPdu, segment, dfe>>
    BY DEF Base, InStep, RlcReassembleAmdDfeQ
  <1>2. pkt \in 1 .. Len(Script)
    BY <1>1 DEF InStep, AmTypeOK
  <1>3. /\ Len(dfeQ) \in Nat \ {0} /\ Head(dfeQ) = dfeQ[1] /\ dfeQ[1] \in HeldElement
        /\ dfeQ' \in Seq(HeldElement) /\ Len(dfeQ') = Len(dfeQ) - 1
        /\ \A i \in 1 .. Len(dfeQ') : dfeQ'[i] = dfeQ[i + 1]
    BY <1>1
  <1>4. Current = dfeQ[1] /\ Current \in HeldElement
    BY <1>3 DEF Current
  <1> QED BY <1>1, <1>2, <1>3, <1>4, HeldIsElement

\* Every branch of RlcReassembleInCmpAMSdu and RlcReassembleFirstSduSegment is one of
\* the five outcomes.
LEMMA TurnOutcomes ==
    ASSUME Base, RlcReassembleAmdDfeQ
    PROVE  Dropped \/ Whole \/ Started \/ Ended \/ Continued
  <1>1. /\ AmTypeOK /\ NoBlock \notin live
    BY TypeFacts DEF Base
  <1>2. ASSUME NEW S, FirstSduSegment(S),
               \/ S = {} /\ raw.data = NoBlock
               \/ S = {raw.data} /\ Current.status \in {"FULL", "START"}
        PROVE  Dropped \/ Whole \/ Started
    <2>1. \A T : live \ (S \cup T) = live \ ({raw.data} \cup T)
      BY <1>1, <1>2
    <2>2. ASSUME Current.status = "FULL", raw' = NoRaw,
                 \E known \in MacKnown : Deliver(<<Current.frag>>, FirstReport(known)),
                 Frees(S \cup FreedByPdcp(Current.data, Current.size))
          PROVE  Whole
      <3>1. live' = live \ (S \cup FreedByPdcp(Current.data, Current.size) \cup {Current.node})
        BY <2>2 DEF Frees
      <3>2. live' = live \ ({raw.data} \cup FreedByPdcp(Current.data, Current.size) \cup {Current.node})
        BY <2>1, <3>1
      <3> QED BY <2>2, <3>2 DEF Whole
    <2>3. ASSUME Current.status = "START", SaveSdu(Current),
                 \E known \in MacKnown : rptCount' = FirstReport(known),
                 Frees(S), UNCHANGED delivered
          PROVE  Started
      <3>1. live' = live \ {raw.data, Current.node}
        BY <2>1, <2>3 DEF Frees
      <3> QED BY <2>3, <3>1 DEF Started
    <2>4. ASSUME Current.status \in {"END", "MID"}, Frees(S \cup {Current.data}), UNCHANGED rawVars
          PROVE  Dropped
      <3>1. S = {} /\ raw.data = NoBlock
        BY <1>2, <2>4
      <3>2. live' = live \ {Current.data, Current.node}
        BY <2>4, <3>1 DEF Frees
      <3> QED BY <2>4, <3>1, <3>2 DEF Dropped
    <2> QED BY <1>2, <2>2, <2>3, <2>4 DEF FirstSduSegment
  <1>3. ASSUME RlcReassembleFirstSduSegment
        PROVE  Dropped \/ Whole \/ Started
    <2>1. raw.data = NoBlock /\ FirstSduSegment({})
      BY <1>3 DEF RlcReassembleFirstSduSegment
    <2> QED BY <1>2, <2>1
  <1>4. ASSUME DropElement, ~Follows \/ Current.status = "MID"
        PROVE  Dropped
    BY <1>4 DEF DropElement, Dropped, Frees
  <1>5. ASSUME JoinFails
        PROVE  Dropped
    BY <1>5 DEF JoinFails, Dropped, Frees
  <1>6. ASSUME raw.data # NoBlock, Follows, InSequence
        PROVE  Dropped \/ Whole \/ Started \/ Ended \/ Continued
    <2>1. ASSUME Current.status = "END", JoinEnd
          PROVE  Ended
      BY <1>6, <2>1 DEF Ended
    <2>2. ASSUME Current.status = "MID", ~isSNEqual(pkt, raw.sn), JoinMid
          PROVE  Continued
      BY <1>6, <2>2 DEF Continued, Follows
    <2>3. ASSUME Current.status = "FULL", FirstSduSegment({raw.data})
          PROVE  Dropped \/ Whole \/ Started
      BY <1>2, <2>3
    <2>4. ASSUME Current.status = "START", SaveSdu(Current), Frees({raw.data}),
                 UNCHANGED <<rptCount, delivered>>
          PROVE  Started
      <3>1. live' = live \ {raw.data, Current.node}
        BY <2>4 DEF Frees
      <3> QED BY <1>6, <2>4, <3>1 DEF Started
    <2> QED BY <1>4, <1>5, <1>6, <2>1, <2>2, <2>3, <2>4 DEF InSequence
  <1>7. ASSUME ~Follows, OutOfSequence
        PROVE  Dropped \/ Whole \/ Started
    BY <1>2, <1>4, <1>7 DEF OutOfSequence
  <1>8. ASSUME RlcReassembleInCmpAMSdu
        PROVE  Dropped \/ Whole \/ Started \/ Ended \/ Continued
    <2>1. raw.data # NoBlock /\ (IF Follows THEN InSequence ELSE OutOfSequence)
      BY <1>8 DEF RlcReassembleInCmpAMSdu, Follows
    <2> QED BY <1>6, <1>7, <2>1
  <1> QED BY <1>3, <1>8 DEF RlcReassembleAmdDfeQ

\* ulRptInfoList never has more entries than it has room for.
LEMMA ReportTypes ==
    ASSUME AmTypeOK, NEW known
    PROVE  /\ OneMoreReport(known) \in 0 .. MAX_RLC_SEGMENTS_NUM
           /\ FirstReport(known) \in 0 .. MAX_RLC_SEGMENTS_NUM
  BY TypeFacts DEF OneMoreReport, FirstReport

\* A sequence number is below the modulus.
LEMMA SnType ==
    ASSUME NEW k \in Nat
    PROVE  Sn(k) \in 0 .. SN_MODULUS - 1
  BY RlcAmAssumption DEF RlcAmAssumption, Sn

\* The empty rawSdu has its type.
LEMMA NoRawType == NoRaw \in RawType
  <1>1. 0 \in 0 .. SN_MODULUS - 1
    BY RlcAmAssumption DEF RlcAmAssumption
  <1>2. <<>> \in Seq(Fragment)
    OBVIOUS
  <1> QED BY <1>1, <1>2 DEF NoRaw, RawType

\* The raw SDU and the SDU that goes up keep their types.
LEMMA RawTypes ==
    ASSUME Base, RlcReassembleAmdDfeQ
    PROVE  /\ raw' \in RawType /\ rptCount' \in 0 .. MAX_RLC_SEGMENTS_NUM
           /\ delivered' \in [frags : Seq(Fragment), reports : 0 .. MAX_RLC_SEGMENTS_NUM]
           /\ live' \subseteq Blocks
  <1>1. /\ AmTypeOK /\ raw \in RawType /\ rptCount \in 0 .. MAX_RLC_SEGMENTS_NUM
        /\ delivered \in [frags : Seq(Fragment), reports : 0 .. MAX_RLC_SEGMENTS_NUM]
        /\ live \subseteq Blocks
    BY DEF Base, AmTypeOK, RawType
  <1>2. /\ Current \in HeldElement /\ Current.data \in Blocks /\ Current.size \in Nat
        /\ Current.frag \in Fragment /\ pkt \in Nat
        /\ Current.node \in Blocks
    <2>1. pkt \in 1 .. Len(Script) /\ Len(Script) \in Nat
      BY TurnQueue, RlcAmAssumption DEF RlcAmAssumption
    <2> QED BY <2>1, TurnQueue
  <1>3. Sn(pkt) \in 0 .. SN_MODULUS - 1
    BY <1>2, SnType
  <1>4. <<Current.frag>> \in Seq(Fragment)
    BY <1>2
  <1>5. 0 \in 0 .. MAX_RLC_SEGMENTS_NUM
    BY <1>1, TypeFacts
  <1>6. CASE Dropped
    BY <1>1, <1>6 DEF Dropped, rawVars
  <1>7. CASE Whole
    <2>1. NoRaw \in RawType
      BY NoRawType
    <2>2. PICK known \in MacKnown : Deliver(<<Current.frag>>, FirstReport(known))
      BY <1>7 DEF Whole
    <2>3. FirstReport(known) \in 0 .. MAX_RLC_SEGMENTS_NUM
      BY <1>1, ReportTypes
    <2>4. /\ rptCount' = 0
          /\ delivered' = [frags |-> <<Current.frag>>, reports |-> FirstReport(known)]
      BY <2>2 DEF Deliver
    <2>5. raw' = NoRaw /\ live' \subseteq live
      BY <1>7 DEF Whole
    <2> QED BY <1>1, <1>4, <1>5, <2>1, <2>3, <2>4, <2>5
  <1>8. CASE Started
    <2>1. raw' = [data |-> Current.data, sn |-> Sn(pkt), size |-> Current.size,
                  frags |-> <<Current.frag>>, upTo |-> pkt]
      BY <1>8 DEF Started, SaveSdu
    <2>2. raw' \in RawType
      BY <1>2, <1>3, <1>4, <2>1 DEF RawType
    <2>3. rptCount' \in 0 .. MAX_RLC_SEGMENTS_NUM
      BY <1>1, <1>8, ReportTypes DEF Started
    <2>4. delivered' = delivered /\ live' \subseteq live
      BY <1>8 DEF Started
    <2> QED BY <1>1, <2>2, <2>3, <2>4
  <1>9. ASSUME NEW block \in Blocks
        PROVE  Joined(block) \in RawType
    <2>1. /\ raw.size + Current.size \in Nat /\ Append(raw.frags, Current.frag) \in Seq(Fragment)
      BY <1>1, <1>2 DEF RawType
    <2> QED BY <1>1, <1>2, <1>3, <2>1 DEF Joined, RawType
  <1>10. CASE Ended
    <2>1. PICK block \in Blocks, freed \in SUBSET Blocks :
            /\ live' = (live \cup {block}) \ (freed \cup FreedByPdcp(block, Joined(block).size)
                                                    \cup {Current.node})
            /\ \E known \in MacKnown : Deliver(Joined(block).frags, OneMoreReport(known))
      BY <1>10 DEF Ended, JoinEnd
    <2>2. PICK known \in MacKnown : Deliver(Joined(block).frags, OneMoreReport(known))
      BY <2>1
    <2>3. raw' = NoRaw
      BY <1>10 DEF Ended, JoinEnd
    <2>4. NoRaw \in RawType
      BY NoRawType
    <2>5. /\ rptCount' = 0
          /\ delivered' = [frags |-> Joined(block).frags, reports |-> OneMoreReport(known)]
      BY <2>2 DEF Deliver
    <2>6. Joined(block).frags \in Seq(Fragment) /\ OneMoreReport(known) \in 0 .. MAX_RLC_SEGMENTS_NUM
      BY <1>1, <1>9, ReportTypes DEF RawType
    <2> QED BY <1>1, <1>5, <2>1, <2>3, <2>4, <2>5, <2>6
  <1>11. CASE Continued
    <2>1. PICK block \in Blocks, freed \in SUBSET Blocks :
            live' = (live \cup {block}) \ (freed \cup {Current.node}) /\ raw' = Joined(block)
      BY <1>11 DEF Continued, JoinMid
    <2>2. delivered' = delivered /\ \E known \in MacKnown : rptCount' = OneMoreReport(known)
      BY <1>11 DEF Continued, JoinMid
    <2> QED BY <1>1, <1>9, <2>1, <2>2, ReportTypes
  <1> QED BY <1>6, <1>7, <1>8, <1>10, <1>11, TurnOutcomes

\* A turn of RlcReassembleAmdDfeQ keeps the types and the pointers of each point.
LEMMA TurnBase ==
    ASSUME Base, RlcReassembleAmdDfeQ
    PROVE  Base'
  <1>1. /\ AmTypeOK /\ InStep /\ pc = "reassemble"
        /\ dfeQ' \in Seq(HeldElement)
        /\ UNCHANGED <<pc, pkt, received, rlcdata, amdPdu, segment, dfe>>
    BY TurnQueue
  <1>2. dfeQ' \in Seq(Element)
    BY <1>1, HeldIsElement
  <1>3. AmTypeOK'
    BY <1>1, <1>2, RawTypes DEF AmTypeOK, RawType
  <1>4. InStep'
    BY <1>1 DEF InStep
  <1> QED BY <1>3, <1>4 DEF Base

\* So do the end of the packet, the deletion of the entity and a stuttering step.
LEMMA RestBase ==
    ASSUME Base, RlcReassembleRlcSdu \/ RlcDeleteRxAmEntity \/ UNCHANGED amVars
    PROVE  Base'
  <1>1. AmTypeOK /\ InStep
    BY DEF Base
  <1>2. ASSUME RlcReassembleRlcSdu PROVE Base'
    BY <1>2, PacketEndsBase DEF RlcReassembleRlcSdu
  <1>3. ASSUME RlcDeleteRxAmEntity PROVE Base'
    <2>1. /\ pc = "idle" /\ live' = live \ {raw.data} /\ raw' = NoRaw /\ rptCount' = 0
          /\ UNCHANGED <<pc, pkt, received, rlcdata, amdPdu, segment, dfe, dfeQ, delivered>>
      BY <1>3 DEF RlcDeleteRxAmEntity, decodeVars
    <2>2. raw' \in RawType /\ rptCount' \in 0 .. MAX_RLC_SEGMENTS_NUM
      <3>1. 0 \in 0 .. MAX_RLC_SEGMENTS_NUM
        BY <1>1, TypeFacts
      <3> QED BY <2>1, <3>1, NoRawType
    <2>3. AmTypeOK'
      BY <1>1, <2>1, <2>2 DEF AmTypeOK, RawType
    <2>4. InStep'
      BY <1>1, <2>1 DEF InStep
    <2> QED BY <2>3, <2>4 DEF Base
  <1>4. ASSUME UNCHANGED amVars PROVE Base'
    <2>1. UNCHANGED <<pc, pkt, received, live, rlcdata, amdPdu, segment, dfe, dfeQ, raw, rptCount,
                      delivered>>
      BY <1>4 DEF amVars, decodeVars, rawVars
    <2>2. AmTypeOK'
      BY <1>1, <2>1 DEF AmTypeOK
    <2>3. InStep'
      BY <1>1, <2>1 DEF InStep
    <2> QED BY <2>2, <2>3 DEF Base
  <1> QED BY <1>2, <1>3, <1>4

\* Every step of the receiver keeps the types and the pointers of each point.
LEMMA BaseNext == Base /\ [AmNext]_amVars => Base'
  BY DecodeBase, SplitBase, TurnBase, RestBase DEF AmNext

\* At start nothing is held.
LEMMA BaseInit == AmInit => Base
  <1> SUFFICES ASSUME AmInit PROVE Base
    OBVIOUS
  <1>1. /\ pc = "idle" /\ pkt = 0 /\ received = {} /\ live = {} /\ rlcdata = NoBlock
        /\ amdPdu = NoBlock /\ segment = NoBlock /\ dfe = NoDfe /\ dfeQ = <<>> /\ raw = NoRaw
        /\ rptCount = 0 /\ delivered = [frags |-> <<>>, reports |-> 0]
    BY DEF AmInit
  <1>2. /\ SN_MODULUS \in Nat \ {0} /\ MAX_RLC_SEGMENTS_NUM \in Nat \ {0} /\ Len(Script) \in Nat
    BY RlcAmAssumption DEF RlcAmAssumption
  <1>3. 0 \in 0 .. SN_MODULUS - 1 /\ 0 \in 0 .. MAX_RLC_SEGMENTS_NUM /\ 0 \in 0 .. Len(Script)
    BY <1>2
  <1>4. \A S : <<>> \in Seq(S)
    OBVIOUS
  <1>5. NoDfe \in Element /\ NoRaw \in RawType
    BY NoRawType DEF NoDfe, Element, Fragment
  <1>6. delivered \in [frags : Seq(Fragment), reports : 0 .. MAX_RLC_SEGMENTS_NUM]
    BY <1>1, <1>3, <1>4
  <1>7. AmTypeOK
    BY <1>1, <1>3, <1>4, <1>5, <1>6 DEF AmTypeOK, RawType
  <1>8. InStep
    BY <1>1, <1>4 DEF InStep
  <1> QED BY <1>7, <1>8 DEF Base

\* Every variable of the receiver keeps its type, for any script and any pools.
THEOREM AmTypesHold ==
    AmSpec => []AmTypeOK
  <1>1. Base => AmTypeOK
    BY DEF Base
  <1> QED BY <1>1, BaseInit, BaseNext, PTL DEF AmSpec

-----------------------------------------------------------------------------
\* What a step does to the queue of elements and to the raw SDU, whichever allocation fails.
LEMMA Shapes ==
    ASSUME Base, [AmNext]_amVars
    PROVE  \/ NoQueue \/ FirstMade \/ Split \/ Enqueue \/ RlcReassembleAmdDfeQ
           \/ RlcDeleteRxAmEntity \/ UNCHANGED amVars
  <1>1. AmTypeOK /\ InStep
    BY DEF Base
  <1>2. ASSUME NEW freed, PacketEnds(freed), UNCHANGED rawVars PROVE NoQueue
    BY <1>2 DEF PacketEnds, NoQueue
  <1>3. ASSUME NEW k \in 1 .. Len(Script), Receive(k) PROVE NoQueue
    BY <1>1, <1>3 DEF Receive, NoQueue, InStep
  <1>4. ASSUME RlcProcessAMRxPacket PROVE NoQueue
    <2>1. CASE PacketEnds({rlcdata})
      BY <1>2, <1>4, <2>1 DEF RlcProcessAMRxPacket
    <2>2. CASE pc' = "decode" /\ UNCHANGED <<pkt, received, dfeQ>>
      BY <1>1, <1>4, <2>2 DEF RlcProcessAMRxPacket, NoQueue, InStep
    <2> QED BY <1>4, <2>1, <2>2 DEF RlcProcessAMRxPacket
  <1>5. ASSUME RlcProcessAmdPduSegment PROVE NoQueue
    BY <1>2, <1>5 DEF RlcProcessAmdPduSegment
  <1>6. ASSUME RlcDecodeAmdPdu PROVE NoQueue
    <2>1. CASE PacketEnds({rlcdata, amdPdu})
      BY <1>2, <1>6, <2>1 DEF RlcDecodeAmdPdu
    <2>2. CASE pc' = "first" /\ UNCHANGED <<pkt, received, dfeQ>>
      BY <1>1, <1>6, <2>2 DEF RlcDecodeAmdPdu, NoQueue, InStep
    <2> QED BY <1>6, <2>1, <2>2 DEF RlcDecodeAmdPdu
  <1>7. ASSUME FirstDfe PROVE NoQueue \/ FirstMade
    <2>1. CASE PacketEnds({rlcdata, amdPdu, segment})
      BY <1>2, <1>7, <2>1 DEF FirstDfe
    <2>2. CASE ~PacketEnds({rlcdata, amdPdu, segment})
      BY <1>7, <2>2 DEF FirstDfe, FirstMade
    <2> QED BY <2>1, <2>2
  <1>8. ASSUME RlcDecodeAndEnqueueAMSegment PROVE NoQueue \/ Split
    <2>1. CASE PacketEnds({dfe.node, dfe.data, amdPdu, segment} \cup QueueBlocks)
      BY <1>2, <1>8, <2>1 DEF RlcDecodeAndEnqueueAMSegment
    <2>2. CASE ~PacketEnds({dfe.node, dfe.data, amdPdu, segment} \cup QueueBlocks)
      <3>1. pc = "split" /\ Len(dfeQ) \in Nat /\ Len(Script[pkt].li) \in Nat
            /\ Len(dfeQ) < Len(Script[pkt].li)
        <4>1. pc = "split" /\ dfeQ \in Seq(HeldElement) /\ pkt \in 1 .. Len(Script)
          BY <1>1, <1>8 DEF RlcDecodeAndEnqueueAMSegment, InStep, AmTypeOK
        <4> QED BY <1>1, <4>1, PacketFacts DEF InStep
      <3>2. Len(dfeQ) + 1 \in 1 .. Len(Script[pkt].li)
        BY <3>1
      <3> QED BY <1>8, <2>2, <3>1, <3>2 DEF RlcDecodeAndEnqueueAMSegment, Split
    <2> QED BY <2>1, <2>2
  <1>9. ASSUME RlcReassembleRlcSdu PROVE NoQueue
    BY <1>2, <1>9 DEF RlcReassembleRlcSdu
  <1> QED BY <1>3, <1>4, <1>5, <1>6, <1>7, <1>8, <1>9 DEF AmNext

\* The elements are those the header describes, from the one that is next on.
LEMMA QueueNext ==
    ASSUME Base, QueueInStep, [AmNext]_amVars
    PROVE  QueueInStep'
  <1> DEFINE p == Script[pkt]
  <1>1. AmTypeOK /\ InStep /\ dfeQ \in Seq(HeldElement) /\ Len(dfeQ) \in Nat
    BY DEF Base, InStep
  <1>2. pc # "idle" => /\ pkt \in 1 .. Len(Script) /\ Len(p.li) \in Nat
    <2>1. pc # "idle" => pkt \in 1 .. Len(Script)
      BY <1>1 DEF InStep, AmTypeOK
    <2> QED BY <2>1, PacketFacts
  <1>3. CASE NoQueue
    BY <1>3 DEF NoQueue, QueueInStep
  <1>4. CASE FirstMade
    <2>1. pc = "first" /\ dfeQ' = <<>> /\ pkt' = pkt
      BY <1>1, <1>4 DEF FirstMade, InStep
    <2>2. IsElement(dfe', p, 1)
      <3>1. 1 \in Elements(p)
        BY <1>2, <2>1 DEF Elements
      <3>2. StatusOf(p, 1) = FirstStatus(p)
        BY DEF StatusOf
      <3> QED BY <1>4, <3>1, <3>2 DEF FirstMade, IsElement
    <2> HIDE DEF p
    <2>3. Script[pkt]' = p /\ Len(dfeQ') = 0
      BY <2>1 DEF p
    <2> QED BY <2>1, <2>2, <2>3 DEF QueueInStep
  <1>5. CASE Split
    <2> DEFINE i == Len(dfeQ) + 1
               x == [dfe EXCEPT !.size = p.li[i]]
    <2>1. /\ pc = "split" /\ pkt' = pkt /\ pc' \in {"split", "enqueue"} /\ i \in 1 .. Len(p.li)
          /\ dfeQ' = Append(dfeQ, x)
          /\ dfe'.status = IF i = Len(p.li) THEN LastStatus(p) ELSE "FULL"
          /\ dfe'.frag = p.frag[i + 1]
      BY <1>5 DEF Split
    <2>2. Handled = 0 /\ Handled' = 0
      BY <2>1 DEF Handled
    <2>3. IsElement(x, p, i)
      <3>1. dfe \in HeldElement /\ IsElement(dfe, p, i)
        BY <1>1, <2>1 DEF InStep, QueueInStep
      <3>2. x.status = dfe.status /\ x.frag = dfe.frag
        BY <3>1 DEF HeldElement
      <3> QED BY <3>1, <3>2 DEF IsElement
    <2>4. IsElement(dfe', p, i + 1)
      <3>1. i + 1 \in Elements(p) /\ i + 1 # 1 /\ (i + 1 = Len(p.li) + 1 <=> i = Len(p.li))
        BY <1>2, <2>1 DEF Elements
      <3> QED BY <2>1, <3>1 DEF IsElement, StatusOf
    <2>5. /\ Len(dfeQ') = i /\ dfeQ'[i] = x
          /\ \A j \in 1 .. Len(dfeQ) : dfeQ'[j] = dfeQ[j]
      BY <1>1, <2>1
    <2>6. \A j \in 1 .. Len(dfeQ) : IsElement(dfeQ[j], p, j)
      BY <1>1, <2>2 DEF QueueInStep
    <2> HIDE DEF x, p
    <2>7. \A j \in 1 .. Len(dfeQ') : IsElement(dfeQ'[j], p, j)
      <3>1. \A j \in 1 .. Len(dfeQ') : j = i \/ j \in 1 .. Len(dfeQ)
        BY <1>1, <2>5
      <3> QED BY <2>3, <2>5, <2>6, <3>1
    <2>8. Script[pkt]' = p
      BY <2>1 DEF p
    <2>9. \A j \in 1 .. Len(dfeQ') : Handled' + j = j
      BY <2>2, <2>5, <1>1
    <2> QED BY <2>1, <2>2, <2>4, <2>5, <2>7, <2>8, <2>9 DEF QueueInStep
  <1>6. CASE Enqueue
    <2>1. /\ pc = "enqueue" /\ pc' = "reassemble" /\ pkt' = pkt /\ dfeQ' = Append(dfeQ, dfe)
          /\ Len(dfeQ) = Len(p.li)
      BY <1>1, <1>6 DEF Enqueue, InStep
    <2>2. /\ Len(dfeQ') = Len(dfeQ) + 1 /\ dfeQ'[Len(dfeQ) + 1] = dfe
          /\ \A j \in 1 .. Len(dfeQ) : dfeQ'[j] = dfeQ[j]
      <3>1. dfe \in HeldElement
        BY <1>1, <2>1 DEF InStep
      <3> QED BY <1>1, <2>1, <3>1
    <2>3. Handled = 0 /\ Handled' = 0
      BY <1>1, <2>1, <2>2 DEF Handled
    <2>4. \A j \in 1 .. Len(dfeQ) : IsElement(dfeQ[j], p, j)
      BY <1>1, <2>3 DEF QueueInStep
    <2>5. IsElement(dfe, p, Len(dfeQ) + 1)
      BY <2>1 DEF QueueInStep
    <2> HIDE DEF p
    <2>6. \A j \in 1 .. Len(dfeQ') : IsElement(dfeQ'[j], p, j)
      <3>1. \A j \in 1 .. Len(dfeQ') : j = Len(dfeQ) + 1 \/ j \in 1 .. Len(dfeQ)
        BY <1>1, <2>2
      <3> QED BY <2>2, <2>4, <2>5, <3>1
    <2>7. Script[pkt]' = p
      BY <2>1 DEF p
    <2>8. \A j \in 1 .. Len(dfeQ') : Handled' + j = j
      BY <2>2, <2>3, <1>1
    <2> QED BY <2>1, <2>6, <2>7, <2>8 DEF QueueInStep
  <1>7. CASE RlcReassembleAmdDfeQ
    <2>1. /\ pc = "reassemble" /\ pc' = pc /\ pkt' = pkt /\ Len(dfeQ') = Len(dfeQ) - 1
          /\ \A i \in 1 .. Len(dfeQ') : dfeQ'[i] = dfeQ[i + 1]
      BY <1>7, TurnQueue
    <2>2. Handled' = Handled + 1 /\ Handled \in Int
      BY <1>1, <1>2, <2>1 DEF Handled
    <2>3. \A i \in 1 .. Len(dfeQ') : i + 1 \in 1 .. Len(dfeQ) /\ Handled' + i = Handled + (i + 1)
      BY <1>1, <2>1, <2>2
    <2>4. \A i \in 1 .. Len(dfeQ') : IsElement(dfeQ[i + 1], p, Handled + (i + 1))
      BY <2>3 DEF QueueInStep
    <2> HIDE DEF p
    <2>5. Script[pkt]' = p
      BY <2>1 DEF p
    <2> QED BY <2>1, <2>3, <2>4, <2>5 DEF QueueInStep
  <1>8. CASE RlcDeleteRxAmEntity
    BY <1>1, <1>8 DEF RlcDeleteRxAmEntity, decodeVars, InStep, QueueInStep
  <1>9. CASE UNCHANGED amVars
    <2>1. UNCHANGED <<pc, pkt, dfe, dfeQ>>
      BY <1>9 DEF amVars, decodeVars
    <2> QED BY <2>1 DEF QueueInStep, Handled
  <1> QED BY <1>3, <1>4, <1>5, <1>6, <1>7, <1>8, <1>9, Shapes

\* Between packets that are no further apart than the window, a sequence number that
\* follows, or is repeated, is that of the next packet, or of the same one.
LEMMA SnInWindow ==
    ASSUME NEW a \in Nat, NEW b \in Nat, a - b \in Window
    PROVE  /\ isSNEqual(a, Sn(b) + 1) => a = b + 1
           /\ isSNEqual(a, Sn(b)) => a = b
  <1> DEFINE M == SN_MODULUS
             ra == a % M
             rb == b % M
             qa == a \div M
             qb == b \div M
  <1>1. M \in Nat \ {0}
    BY RlcAmAssumption DEF RlcAmAssumption
  <1>2. /\ ra \in 0 .. M - 1 /\ rb \in 0 .. M - 1 /\ qa \in Int /\ qb \in Int
        /\ a = M * qa + ra /\ b = M * qb + rb
    BY <1>1, Division
  <1>3. a - b >= 2 - M /\ a - b <= M - 1
    BY <1>1 DEF Window
  <1>4. rb % M = rb
    BY <1>1, <1>2
  <1>5. (rb + 1) % M = IF rb + 1 = M THEN 0 ELSE rb + 1
    <2>1. CASE rb + 1 = M
      BY <1>1, <2>1
    <2>2. CASE rb + 1 # M
      <3>1. rb + 1 \in 0 .. M - 1
        BY <1>1, <1>2, <2>2
      <3> HIDE DEF rb
      <3> QED BY <1>1, <3>1, <2>2
    <2> QED BY <2>1, <2>2
  <1> DEFINE k == qa - qb
  <1>6. k \in Int /\ a - b = M * k + (ra - rb)
    BY <1>1, <1>2
  <1> HIDE DEF M, ra, rb, qa, qb, k
  <1>7. /\ \A m \in Int : m >= 1 => M * m >= M
        /\ \A m \in Int : m <= -1 => M * m <= -M
    BY <1>1
  <1>8. ra = rb => a = b
    <2>1. k >= 1 \/ k <= -1 \/ k = 0
      BY <1>6
    <2>2. M * 0 = 0
      BY <1>1
    <2> QED BY <1>1, <1>2, <1>3, <1>6, <1>7, <2>1, <2>2
  <1>9. ra = rb + 1 => a = b + 1
    <2>1. k >= 1 \/ k <= -1 \/ k = 0
      BY <1>6
    <2>2. M * 0 = 0
      BY <1>1
    <2> QED BY <1>1, <1>2, <1>3, <1>6, <1>7, <2>1, <2>2
  <1>10. ra = 0 /\ rb + 1 = M => a = b + 1
    <2>1. k - 1 >= 1 \/ k - 1 <= -1 \/ k - 1 = 0
      BY <1>6
    <2>2. M * 0 = 0 /\ M * (k - 1) = M * k - M /\ k - 1 \in Int
      BY <1>1, <1>6
    <2> QED BY <1>1, <1>2, <1>3, <1>6, <1>7, <2>1, <2>2
  <1>11. isSNEqual(a, Sn(b) + 1) => ra = (rb + 1) % M
    BY DEF isSNEqual, Sn, ra, rb, M
  <1>12. isSNEqual(a, Sn(b)) => ra = rb % M
    BY DEF isSNEqual, Sn, ra, rb, M
  <1> QED BY <1>4, <1>5, <1>8, <1>9, <1>10, <1>11, <1>12

\* isSNEqual finds a packet's own sequence number and the one after it.
LEMMA SnOfNext ==
    ASSUME NEW b \in Nat
    PROVE  isSNEqual(b, Sn(b)) /\ isSNEqual(b + 1, Sn(b) + 1)
  <1> DEFINE M == SN_MODULUS
             r == b % M
             q == b \div M
  <1>1. M \in Nat \ {0} /\ r \in 0 .. M - 1 /\ q \in Int /\ b = M * q + r
    BY RlcAmAssumption, Division DEF RlcAmAssumption
  <1>2. isSNEqual(b, Sn(b))
    <2>1. r % M = r
      <3> HIDE DEF r, M
      <3> QED BY <1>1
    <2> QED BY <2>1 DEF isSNEqual, Sn
  <1>3. (b + 1) % M = (r + 1) % M
    <2> HIDE DEF r, q, M
    <2>1. CASE r + 1 = M
      <3>1. b + 1 = M * (q + 1)
        BY <1>1, <2>1
      <3>2. (M * (q + 1)) % M = 0
        BY <1>1
      <3>3. M % M = 0
        BY <1>1
      <3> QED BY <2>1, <3>1, <3>2, <3>3
    <2>2. CASE r + 1 # M
      <3>1. r + 1 \in 0 .. M - 1 /\ b + 1 = M * q + (r + 1)
        BY <1>1, <2>2
      <3>2. (r + 1) % M = r + 1
        BY <1>1, <3>1
      <3>3. \A x \in 0 .. M - 1 : (M * q + x) % M = x
        BY <1>1
      <3> QED BY <3>1, <3>2, <3>3
    <2> QED BY <2>1, <2>2
  <1> QED BY <1>2, <1>3 DEF isSNEqual, Sn

-----------------------------------------------------------------------------
\* no packet that the link may repeat ends one SDU and starts another
RepetitionsAreSafe == \A k \in Redelivered : SafeToRepeat(Script[k])

GenuineInv == Base /\ QueueInStep /\ RawInStep /\ GenuineSdus

\* the last fragment of packet k
Stop(k) == Script[k].frag[Len(Script[k].frag)]

\* What the header of packet k says of an element is true of its fragment.
LEMMA SentFacts ==
    ASSUME SentInOrder, NEW k \in 1 .. Len(Script), Script[k].kind = "data"
    PROVE  /\ Len(Script[k].frag) = Len(Script[k].li) + 1 /\ Len(Script[k].li) \in Nat
           /\ Stop(k) = Script[k].frag[Len(Script[k].li) + 1]
           /\ Stop(k).last <=> StatusOf(Script[k], Len(Script[k].li) + 1) \in {"FULL", "END"}
           /\ \A j \in Elements(Script[k]) :
                /\ Script[k].frag[j].part = 1 <=> StatusOf(Script[k], j) \in {"FULL", "START"}
                /\ Script[k].frag[j].last <=> StatusOf(Script[k], j) \in {"FULL", "END"}
           /\ k + 1 \in 1 .. Len(Script) /\ Script[k + 1].kind = "data" /\ ~Stop(k).last =>
                /\ Script[k + 1].frag[1].sdu = Stop(k).sdu
                /\ Script[k + 1].frag[1].part = Stop(k).part + 1
  <1>1. Len(Script[k].frag) = Len(Script[k].li) + 1 /\ Len(Script) \in Nat
    BY RlcAmAssumption DEF RlcAmAssumption
  <1>2. Len(Script[k].li) \in Nat
    BY PacketFacts
  <1>3. Len(Script[k].li) + 1 \in Elements(Script[k])
    BY <1>2 DEF Elements
  <1> QED BY <1>1, <1>2, <1>3 DEF SentInOrder, Stop

\* The fragments so far and the one that follows are the beginning of the SDU.
LEMMA AppendGenuine ==
    ASSUME NEW frags \in Seq(Fragment), frags # <<>>, Genuine(frags),
           NEW f \in Fragment,
           f.sdu = frags[Len(frags)].sdu, f.part = frags[Len(frags)].part + 1
    PROVE  /\ Genuine(Append(frags, f)) /\ Append(frags, f) # <<>>
           /\ Append(frags, f)[Len(Append(frags, f))] = f
  <1> DEFINE n == Len(frags)
             all == Append(frags, f)
  <1>1. /\ n \in Nat \ {0} /\ Len(all) = n + 1 /\ all[n + 1] = f
        /\ \A i \in 1 .. n : all[i] = frags[i]
    BY AppendProperties
  <1>2. f.sdu = frags[1].sdu /\ f.part = n + 1
    BY <1>1 DEF Genuine
  <1> HIDE DEF n, all
  <1>3. \A i \in 1 .. Len(all) : i = n + 1 \/ i \in 1 .. n
    BY <1>1
  <1>4. all[1] = frags[1] /\ \A i \in 1 .. n : frags[i].sdu = frags[1].sdu /\ frags[i].part = i
    BY <1>1 DEF Genuine, n
  <1>5. Genuine(all)
    BY <1>1, <1>2, <1>3, <1>4 DEF Genuine
  <1>6. all # <<>>
    BY <1>1
  <1> QED BY <1>1, <1>5, <1>6 DEF all

\* The element of a turn, and where its packet lies seen from the raw SDU.
LEMMA TurnFacts ==
    ASSUME SentInOrder, GenuineInv, RlcReassembleAmdDfeQ
    PROVE  /\ Base /\ AmTypeOK /\ InStep /\ RawInStep /\ GenuineSdus /\ pc = "reassemble"
           /\ pkt \in 1 .. Len(Script) /\ Script[pkt].kind = "data" /\ pkt \in received
           /\ received \subseteq 1 .. Len(Script) /\ Len(Script) \in Nat
           /\ UNCHANGED <<pc, pkt, received>> /\ dfeQ # <<>>
           /\ Current.frag \in Fragment
           /\ Len(dfeQ) \in Nat /\ Len(dfeQ') = Len(dfeQ) - 1 /\ dfeQ' \in Seq(HeldElement)
           /\ Len(Script[pkt].li) \in Nat /\ Handled = Len(Script[pkt].li) + 1 - Len(dfeQ)
           /\ Handled + 1 = Len(Script[pkt].li) + 1 => dfeQ' = <<>>
           /\ Handled + 1 \in Elements(Script[pkt])
           /\ Current.status = StatusOf(Script[pkt], Handled + 1)
           /\ Current.frag = Script[pkt].frag[Handled + 1]
           /\ Current.frag.part = 1 <=> Current.status \in {"FULL", "START"}
           /\ Current.frag.last <=> Current.status \in {"FULL", "END"}
           /\ Current.status \in {"END", "MID"} => Handled + 1 = 1
           /\ Current.status \in {"START", "MID"} => Handled + 1 = Len(Script[pkt].li) + 1
           /\ raw.data # NoBlock =>
                /\ raw.upTo \in received /\ raw.upTo \in 1 .. Len(Script)
                /\ Script[raw.upTo].kind = "data" /\ raw.sn = Sn(raw.upTo)
                /\ raw.frags \in Seq(Fragment) /\ raw.frags # <<>> /\ Genuine(raw.frags)
                /\ raw.frags[Len(raw.frags)] = Stop(raw.upTo) /\ ~Stop(raw.upTo).last
                /\ raw.upTo = pkt \/ pkt - raw.upTo \in Window
                /\ raw.upTo = pkt => pkt \in Redelivered
                /\ isSNEqual(pkt, raw.sn + 1) /\ ~isSNEqual(pkt, raw.sn) => pkt = raw.upTo + 1
                /\ Follows => pkt \in {raw.upTo, raw.upTo + 1}
  <1> DEFINE p == Script[pkt]
             cur == Current
             j == Handled + 1
  <1>1. /\ Base /\ AmTypeOK /\ InStep /\ RawInStep /\ GenuineSdus /\ pc = "reassemble"
        /\ pkt \in 1 .. Len(Script) /\ p.kind = "data" /\ pkt \in received
        /\ received \subseteq 1 .. Len(Script) /\ Len(Script) \in Nat
        /\ UNCHANGED <<pc, pkt, received>> /\ dfeQ # <<>>
        /\ cur.frag \in Fragment
        /\ Len(dfeQ) \in Nat /\ Len(dfeQ') = Len(dfeQ) - 1 /\ dfeQ' \in Seq(HeldElement)
    <2>1. Len(Script) \in Nat
      BY RlcAmAssumption DEF RlcAmAssumption
    <2> QED BY <2>1, TurnQueue DEF GenuineInv, InStep, AmTypeOK, RawInStep
  <1>2. IsElement(cur, p, j)
    <2>1. IsElement(dfeQ[1], p, Handled + 1)
      BY <1>1, TurnQueue DEF GenuineInv, QueueInStep
    <2> QED BY <1>1, <2>1, TurnQueue
  <1>3. /\ Len(p.li) \in Nat /\ Handled = Len(p.li) + 1 - Len(dfeQ)
        /\ j = Len(p.li) + 1 => dfeQ' = <<>>
    <2>1. Len(p.li) \in Nat /\ Handled = Len(p.li) + 1 - Len(dfeQ)
      BY <1>1, PacketFacts DEF Handled
    <2>2. j = Len(p.li) + 1 => Len(dfeQ') = 0
      BY <1>1, <2>1
    <2> QED BY <1>1, <2>1, <2>2, EmptySeq
  <1>4. /\ j \in Elements(p) /\ cur.status = StatusOf(p, j) /\ cur.frag = p.frag[j]
        /\ cur.frag.part = 1 <=> cur.status \in {"FULL", "START"}
        /\ cur.frag.last <=> cur.status \in {"FULL", "END"}
        /\ cur.status \in {"END", "MID"} => j = 1
        /\ cur.status \in {"START", "MID"} => j = Len(p.li) + 1
    <2>1. j \in Elements(p) /\ cur.status = StatusOf(p, j) /\ cur.frag = p.frag[j]
      BY <1>2 DEF IsElement
    <2>2. \A i \in Elements(p) :
            /\ p.frag[i].part = 1 <=> StatusOf(p, i) \in {"FULL", "START"}
            /\ p.frag[i].last <=> StatusOf(p, i) \in {"FULL", "END"}
      BY <1>1, SentFacts
    <2>3. \A i \in Elements(p) :
            /\ StatusOf(p, i) \in {"END", "MID"} => i = 1
            /\ StatusOf(p, i) \in {"START", "MID"} => i = Len(p.li) + 1
      BY <1>1, StatusFacts
    <2> HIDE DEF p, cur, j
    <2> QED BY <2>1, <2>2, <2>3
  <1>5. raw.data # NoBlock =>
            /\ raw.upTo \in received /\ raw.upTo \in 1 .. Len(Script)
            /\ Script[raw.upTo].kind = "data" /\ raw.sn = Sn(raw.upTo)
            /\ raw.frags \in Seq(Fragment) /\ raw.frags # <<>> /\ Genuine(raw.frags)
            /\ raw.frags[Len(raw.frags)] = Stop(raw.upTo) /\ ~Stop(raw.upTo).last
            /\ raw.upTo = pkt \/ pkt - raw.upTo \in Window
            /\ raw.upTo = pkt => pkt \in Redelivered
    BY <1>1, TypeFacts DEF RawInStep, Stop
  <1>6. raw.data # NoBlock =>
            /\ isSNEqual(pkt, raw.sn + 1) /\ ~isSNEqual(pkt, raw.sn) => pkt = raw.upTo + 1
            /\ Follows => pkt \in {raw.upTo, raw.upTo + 1}
    <2> SUFFICES ASSUME raw.data # NoBlock
                 PROVE  /\ isSNEqual(pkt, raw.sn + 1) /\ ~isSNEqual(pkt, raw.sn) => pkt = raw.upTo + 1
                        /\ Follows => pkt \in {raw.upTo, raw.upTo + 1}
      OBVIOUS
    <2>1. pkt \in Nat /\ raw.upTo \in Nat
      BY <1>1, <1>5
    <2>2. CASE pkt - raw.upTo \in Window
      BY <1>5, <2>1, <2>2, SnInWindow DEF Follows
    <2>3. CASE raw.upTo = pkt
      <3>1. isSNEqual(pkt, raw.sn)
        <4> DEFINE r == pkt % SN_MODULUS
        <4>1. r \in 0 .. SN_MODULUS - 1 /\ SN_MODULUS \in Nat \ {0}
          BY <2>1, RlcAmAssumption DEF RlcAmAssumption
        <4>2. r % SN_MODULUS = r
          <5> HIDE DEF r
          <5> QED BY <4>1
        <4> QED BY <1>5, <2>3, <4>2 DEF isSNEqual, Sn
      <3> QED BY <2>3, <3>1
    <2> QED BY <1>5, <2>2, <2>3
  <1> HIDE DEF p, cur, j
  <1>7. /\ Handled + 1 = Len(p.li) + 1 => dfeQ' = <<>>
        /\ Handled + 1 \in Elements(p)
        /\ cur.status = StatusOf(p, Handled + 1) /\ cur.frag = p.frag[Handled + 1]
        /\ cur.status \in {"END", "MID"} => Handled + 1 = 1
        /\ cur.status \in {"START", "MID"} => Handled + 1 = Len(p.li) + 1
    BY <1>3, <1>4 DEF j
  <1> QED BY <1>1, <1>3, <1>4, <1>5, <1>6, <1>7 DEF p, cur

\* A turn keeps what is known of the raw SDU and of what goes up.
LEMMA TurnGenuine ==
    ASSUME SentInOrder, RepetitionsAreSafe, GenuineInv, RlcReassembleAmdDfeQ
    PROVE  RawInStep' /\ GenuineSdus'
  <1> DEFINE p == Script[pkt]
             cur == Current
             j == Handled + 1
  <1>1. /\ Base /\ AmTypeOK /\ RawInStep /\ GenuineSdus /\ pc = "reassemble"
        /\ pkt \in 1 .. Len(Script) /\ p.kind = "data" /\ pkt \in received
        /\ received \subseteq 1 .. Len(Script) /\ Len(Script) \in Nat
        /\ UNCHANGED <<pc, pkt, received>> /\ dfeQ # <<>> /\ cur.frag \in Fragment
    BY TurnFacts
  <1>3. Len(p.li) \in Nat /\ (j = Len(p.li) + 1 => dfeQ' = <<>>)
    BY TurnFacts
  <1>4. /\ j \in Elements(p) /\ cur.status = StatusOf(p, j) /\ cur.frag = p.frag[j]
        /\ cur.frag.part = 1 <=> cur.status \in {"FULL", "START"}
        /\ cur.frag.last <=> cur.status \in {"FULL", "END"}
        /\ cur.status \in {"END", "MID"} => j = 1
        /\ cur.status \in {"START", "MID"} => j = Len(p.li) + 1
    BY TurnFacts
  <1>5. raw.data # NoBlock =>
            /\ raw.upTo \in received /\ raw.upTo \in 1 .. Len(Script)
            /\ Script[raw.upTo].kind = "data" /\ raw.sn = Sn(raw.upTo)
            /\ raw.frags \in Seq(Fragment) /\ raw.frags # <<>> /\ Genuine(raw.frags)
            /\ raw.frags[Len(raw.frags)] = Stop(raw.upTo) /\ ~Stop(raw.upTo).last
            /\ raw.upTo = pkt => pkt \in Redelivered
    BY TurnFacts
  <1>6. raw.data # NoBlock =>
            /\ isSNEqual(pkt, raw.sn + 1) /\ ~isSNEqual(pkt, raw.sn) => pkt = raw.upTo + 1
            /\ Follows => pkt \in {raw.upTo, raw.upTo + 1}
    BY TurnFacts
  <1> HIDE DEF p, cur, j
  <1>7. ASSUME raw' = NoRaw
        PROVE  RawInStep'
    <2>1. raw'.data = NoBlock
      BY <1>7 DEF NoRaw
    <2> QED BY <1>1, <2>1 DEF RawInStep
  <1>8. CASE Dropped
    <2>1. raw' = raw /\ delivered' = delivered
      BY <1>8 DEF Dropped, rawVars
    <2>2. RawInStep'
      BY <1>1, <2>1 DEF RawInStep
    <2> QED BY <1>1, <2>1, <2>2 DEF GenuineSdus
  <1>9. CASE Whole
    <2>1. raw' = NoRaw /\ cur.status = "FULL" /\ delivered'.frags = <<cur.frag>>
      BY <1>9 DEF Whole, Deliver, cur
    <2>2. cur.frag.part = 1 /\ cur.frag.last
      BY <1>4, <2>1
    <2>3. GenuineSdus'
      BY <2>1, <2>2 DEF GenuineSdus, Genuine
    <2> QED BY <1>7, <2>1, <2>3
  <1>10. CASE Started
    <2>1. /\ cur.status = "START" /\ delivered' = delivered
          /\ raw'.sn = Sn(pkt) /\ raw'.frags = <<cur.frag>> /\ raw'.upTo = pkt
      BY <1>10 DEF Started, SaveSdu, cur
    <2>2. /\ j = Len(p.li) + 1 /\ dfeQ' = <<>> /\ cur.frag = Stop(pkt) /\ ~cur.frag.last
          /\ cur.frag.part = 1
      BY <1>1, <1>3, <1>4, <2>1, SentFacts DEF p
    <2>3. Genuine(<<cur.frag>>) /\ <<cur.frag>> # <<>> /\ <<cur.frag>>[Len(<<cur.frag>>)] = cur.frag
      BY <2>2 DEF Genuine
    <2>4. RawInStep'
      BY <1>1, <2>1, <2>2, <2>3 DEF RawInStep, Stop, p
    <2> QED BY <1>1, <2>1, <2>4 DEF GenuineSdus
  <1>11. ASSUME raw.data # NoBlock, pkt = raw.upTo + 1, j = 1
         PROVE  /\ Genuine(Append(raw.frags, cur.frag)) /\ Append(raw.frags, cur.frag) # <<>>
                /\ Append(raw.frags, cur.frag)[Len(Append(raw.frags, cur.frag))] = cur.frag
    <2>1. cur.frag.sdu = Stop(raw.upTo).sdu /\ cur.frag.part = Stop(raw.upTo).part + 1
      <3>1. Script[raw.upTo + 1] = p /\ Script[raw.upTo + 1].kind = "data"
            /\ raw.upTo + 1 \in 1 .. Len(Script)
        BY <1>1, <1>11 DEF p
      <3>2. cur.frag = Script[raw.upTo + 1].frag[1]
        BY <1>4, <1>11, <3>1
      <3> QED BY <1>5, <1>11, <3>1, <3>2, SentFacts
    <2> QED BY <1>1, <1>5, <1>11, <2>1, AppendGenuine
  <1>12. CASE Ended
    <2>1. raw.data # NoBlock /\ Follows /\ cur.status = "END" /\ raw' = NoRaw /\ j = 1
      BY <1>4, <1>12 DEF Ended, JoinEnd, cur
    <2>2. PICK block \in Blocks, known \in MacKnown : Deliver(Joined(block).frags, OneMoreReport(known))
      BY <1>12 DEF Ended, JoinEnd
    <2>3. delivered'.frags = Append(raw.frags, cur.frag)
      <3>1. delivered'.frags = Joined(block).frags
        BY <2>2 DEF Deliver
      <3>2. raw \in RawType
        BY <1>1 DEF AmTypeOK, RawType
      <3>3. Joined(block).frags = Append(raw.frags, cur.frag)
        BY <3>2 DEF Joined, RawType, cur
      <3> QED BY <3>1, <3>3
    <2>4. pkt # raw.upTo
      <3> SUFFICES ASSUME pkt = raw.upTo PROVE FALSE
        OBVIOUS
      <3>1. /\ ~Stop(pkt).last /\ SafeToRepeat(p) /\ FirstStatus(p) = "END" /\ p.kind = "data"
        <4>1. StatusOf(p, 1) = FirstStatus(p)
          BY DEF StatusOf
        <4> QED BY <1>1, <1>4, <1>5, <2>1, <4>1 DEF RepetitionsAreSafe, p
      <3>2. StatusOf(p, Len(p.li) + 1) \notin {"FULL", "END"}
        BY <1>1, <3>1, SentFacts DEF p
      <3>3. CASE p.li = <<>>
        <4>1. Len(p.li) + 1 = 1
          BY <3>3
        <4> QED BY <3>1, <3>2, <4>1 DEF StatusOf
      <3>4. CASE p.li # <<>>
        <4>1. Len(p.li) # 0
          BY <1>1, <3>4, PacketFacts, EmptySeq DEF p
        <4>2. StatusOf(p, Len(p.li) + 1) = LastStatus(p)
          BY <1>3, <4>1 DEF StatusOf
        <4>3. LastStatus(p) # "START"
          BY <3>1, <3>4 DEF SafeToRepeat
        <4> QED BY <3>2, <4>2, <4>3 DEF LastStatus
      <3> QED BY <3>3, <3>4
    <2>5. pkt = raw.upTo + 1
      BY <1>6, <2>1, <2>4
    <2>6. cur.frag.last
      BY <1>4, <2>1
    <2>7. GenuineSdus'
      BY <1>11, <2>1, <2>3, <2>5, <2>6 DEF GenuineSdus
    <2> QED BY <1>7, <2>1, <2>7
  <1>13. CASE Continued
    <2>1. /\ raw.data # NoBlock /\ pkt = raw.upTo + 1 /\ cur.status = "MID"
          /\ j = 1 /\ j = Len(p.li) + 1 /\ delivered' = delivered
      BY <1>4, <1>6, <1>13 DEF Continued, JoinMid, cur
    <2>2. PICK block \in Blocks : raw' = Joined(block)
      BY <1>13 DEF Continued, JoinMid
    <2>3. raw'.sn = Sn(pkt) /\ raw'.frags = Append(raw.frags, cur.frag) /\ raw'.upTo = pkt
      <3>1. raw \in RawType
        BY <1>1 DEF AmTypeOK, RawType
      <3> QED BY <2>2, <3>1 DEF Joined, RawType, cur
    <2>4. dfeQ' = <<>> /\ cur.frag = Stop(pkt) /\ ~cur.frag.last
      BY <1>1, <1>3, <1>4, <2>1, SentFacts DEF p
    <2>5. RawInStep'
      BY <1>1, <1>11, <2>1, <2>3, <2>4 DEF RawInStep, Stop, p
    <2> QED BY <1>1, <2>1, <2>5 DEF GenuineSdus
  <1> QED BY <1>1, <1>8, <1>9, <1>10, <1>12, <1>13, TurnOutcomes

\* The other steps leave the raw SDU alone; a packet that arrives lies in the window, and
\* may be repeated if the raw SDU reaches up to it.
LEMMA GenuineNext ==
    ASSUME SentInOrder, RepetitionsAreSafe, GenuineInv, [AmNext]_amVars
    PROVE  GenuineInv'
  <1>1. /\ Base /\ QueueInStep /\ AmTypeOK /\ InStep /\ RawInStep /\ GenuineSdus
        /\ received \subseteq 1 .. Len(Script)
    BY DEF GenuineInv, Base, AmTypeOK
  <1>2. Base' /\ QueueInStep'
    BY <1>1, BaseNext, QueueNext
  <1>3. ASSUME UNCHANGED rawVars PROVE GenuineSdus'
    BY <1>1, <1>3 DEF rawVars, GenuineSdus
  <1>4. CASE NoQueue
    <2>1. raw' = raw /\ UNCHANGED rawVars
      BY <1>4 DEF NoQueue, rawVars
    <2>2. CASE pc' = "idle" /\ UNCHANGED received
      BY <1>1, <1>3, <2>1, <2>2, <1>2 DEF RawInStep, GenuineInv
    <2>3. ASSUME NEW k \in 1 .. Len(Script), InWindow(k), pkt' = k, received' = received \cup {k}
          PROVE  RawInStep'
      <3>1. k \in received => k \in Redelivered
        BY <2>3 DEF InWindow
      <3>2. raw.data # NoBlock => k - raw.upTo \in Window
        BY <2>3 DEF InWindow, Window
      <3>3. pkt' \in received' /\ received \subseteq received'
        BY <2>3
      <3>4. raw.data # NoBlock =>
              /\ raw.upTo \in received' /\ Script[raw.upTo].kind = "data" /\ raw.sn = Sn(raw.upTo)
              /\ raw.frags # <<>> /\ Genuine(raw.frags)
              /\ LET stop == Script[raw.upTo].frag[Len(Script[raw.upTo].frag)] IN
                  raw.frags[Len(raw.frags)] = stop /\ ~stop.last
              /\ raw.upTo = k => k \in Redelivered
        BY <1>1, <3>1, <3>3 DEF RawInStep
      <3> QED BY <2>1, <2>3, <3>2, <3>3, <3>4 DEF RawInStep
    <2>4. CASE pc \notin {"idle", "reassemble"} /\ UNCHANGED <<pkt, received>>
      <3>1. RawInStep'
        BY <1>1, <2>1, <2>4 DEF RawInStep
      <3> QED BY <1>2, <1>3, <2>1, <3>1 DEF GenuineInv
    <2> QED BY <1>2, <1>3, <1>4, <2>1, <2>2, <2>3, <2>4 DEF NoQueue, GenuineInv
  <1>5. CASE FirstMade \/ Split \/ Enqueue
    <2>1. /\ raw' = raw /\ UNCHANGED rawVars /\ UNCHANGED <<pkt, received>>
          /\ pc \notin {"idle", "reassemble"}
      BY <1>5 DEF FirstMade, Split, Enqueue, rawVars
    <2>2. RawInStep'
      BY <1>1, <2>1 DEF RawInStep
    <2> QED BY <1>2, <1>3, <2>1, <2>2 DEF GenuineInv
  <1>6. CASE RlcReassembleAmdDfeQ
    BY <1>2, <1>6, TurnGenuine DEF GenuineInv
  <1>7. CASE RlcDeleteRxAmEntity
    <2>1. pc' = "idle" /\ raw'.data = NoBlock /\ delivered' = delivered
      BY <1>7 DEF RlcDeleteRxAmEntity, NoRaw
    <2>2. RawInStep' /\ GenuineSdus'
      BY <1>1, <2>1 DEF RawInStep, GenuineSdus
    <2> QED BY <1>2, <2>2 DEF GenuineInv
  <1>8. CASE UNCHANGED amVars
    <2>1. UNCHANGED <<pc, pkt, received, dfeQ, raw>> /\ UNCHANGED rawVars
      BY <1>8 DEF amVars, decodeVars, rawVars
    <2>2. RawInStep'
      BY <1>1, <2>1 DEF RawInStep
    <2> QED BY <1>2, <1>3, <2>1, <2>2 DEF GenuineInv
  <1> QED BY <1>1, <1>4, <1>5, <1>6, <1>7, <1>8, Shapes

\* At start there is no raw SDU and nothing was delivered.
LEMMA GenuineInit == AmInit => GenuineInv
  <1> SUFFICES ASSUME AmInit PROVE GenuineInv
    OBVIOUS
  <1>1. pc = "idle" /\ dfeQ = <<>> /\ raw = NoRaw /\ delivered.frags = <<>>
    BY DEF AmInit
  <1>2. QueueInStep
    BY <1>1 DEF QueueInStep
  <1>3. RawInStep
    BY <1>1 DEF RawInStep, NoRaw
  <1> QED BY <1>1, <1>2, <1>3, BaseInit DEF GenuineInv, GenuineSdus

\* What RlcReassembleInCmpAMSdu sends up is a whole SDU as the UE sent it, whichever
\* packets are missed, repeated or late.  The hypotheses are about the radio side: the
\* UE segments by the standard, and a packet that ends one SDU and starts another is
\* not repeated (if it is, the receiver joins it to itself).
THEOREM SdusAreGenuine ==
    ASSUME SentInOrder, RepetitionsAreSafe
    PROVE  AmSpec => []GenuineSdus
  <1>1. GenuineInv /\ [AmNext]_amVars => GenuineInv'
    BY GenuineNext
  <1>2. GenuineInv => GenuineSdus
    BY DEF GenuineInv
  <1> QED BY <1>1, <1>2, GenuineInit, PTL DEF AmSpec

-----------------------------------------------------------------------------
ReportsInv == GenuineInv /\ ReportsInStep /\ ReportsMatchSegments

\* The first segment has the first entry.
LEMMA FirstCounts ==
    ASSUME MacKnown = {TRUE}, NEW known \in MacKnown, NEW f
    PROVE  FirstReport(known) = Capped(Len(<<f>>))
  <1>1. MAX_RLC_SEGMENTS_NUM \in Nat \ {0} /\ known = TRUE
    BY RlcAmAssumption DEF RlcAmAssumption
  <1>2. Len(<<f>>) = 1
    OBVIOUS
  <1> QED BY <1>1, <1>2 DEF FirstReport, Capped

\* One entry more keeps up with one segment more.
LEMMA ReportCounts ==
    ASSUME MacKnown = {TRUE}, NEW known \in MacKnown, NEW frags \in Seq(Fragment), NEW f \in Fragment,
           rptCount = Capped(Len(frags))
    PROVE  OneMoreReport(known) = Capped(Len(Append(frags, f)))
  <1>1. MAX_RLC_SEGMENTS_NUM \in Nat \ {0} /\ known = TRUE
    BY RlcAmAssumption DEF RlcAmAssumption
  <1>2. Len(frags) \in Nat /\ Len(Append(frags, f)) = Len(frags) + 1
    OBVIOUS
  <1> QED BY <1>1, <1>2 DEF OneMoreReport, Capped

\* A turn keeps the report list in step with the segments.
LEMMA TurnReports ==
    ASSUME SentInOrder, RepetitionsAreSafe, ~JoinMayFail, ReportsInv, RlcReassembleAmdDfeQ
    PROVE  ReportsInStep' /\ ReportsMatchSegments'
  <1> DEFINE p == Script[pkt]
             cur == Current
             j == Handled + 1
             Known == MacKnown = {TRUE}
  <1>1. /\ GenuineInv /\ ReportsInStep /\ ReportsMatchSegments /\ pc = "reassemble" /\ dfeQ # <<>>
        /\ UNCHANGED <<pc, pkt>> /\ cur.frag \in Fragment /\ pkt \in Nat
        /\ Len(p.li) \in Nat /\ (j = Len(p.li) + 1 => dfeQ' = <<>>)
        /\ j \in Nat /\ j >= 1 /\ pkt \in 1 .. Len(Script) /\ p.kind = "data"
    <2>1. GenuineInv
      BY DEF ReportsInv
    <2>2. j \in Elements(p) /\ Len(p.li) \in Nat /\ pkt \in 1 .. Len(Script) /\ Len(Script) \in Nat
      BY <2>1, TurnFacts
    <2> HIDE DEF j
    <2>3. j \in Nat /\ j >= 1 /\ pkt \in Nat
      BY <2>2 DEF Elements
    <2> QED BY <2>1, <2>2, <2>3, TurnFacts DEF ReportsInv, j
  <1>2. /\ cur.frag = p.frag[j]
        /\ cur.status = "START" => cur.frag.part = 1
        /\ cur.status \in {"END", "MID"} => j = 1
        /\ cur.status \in {"START", "MID"} => j = Len(p.li) + 1
    BY <1>1, TurnFacts
  <1>3. raw.data # NoBlock =>
            /\ raw.upTo \in 1 .. Len(Script) /\ raw.upTo \in Nat
            /\ Script[raw.upTo].kind = "data" /\ raw.sn = Sn(raw.upTo)
            /\ raw.frags \in Seq(Fragment) /\ raw.frags # <<>> /\ Genuine(raw.frags)
            /\ raw.frags[Len(raw.frags)] = Stop(raw.upTo) /\ ~Stop(raw.upTo).last
            /\ Follows => pkt \in {raw.upTo, raw.upTo + 1}
    BY <1>1, TurnFacts
  <1>4. raw.data # NoBlock /\ Handled > 0 => raw.upTo \notin {pkt - 1, pkt}
    BY <1>1 DEF ReportsInStep
  <1>5. Handled' = Handled + 1 /\ Handled \in Nat
    <2>1. Handled = Len(p.li) + 1 - Len(dfeQ) /\ Len(dfeQ) \in Nat /\ Len(dfeQ') = Len(dfeQ) - 1
      BY <1>1, TurnFacts
    <2>2. Handled' = Handled + 1 /\ Handled \in Int
      BY <1>1, <2>1 DEF Handled
    <2>3. Handled + 1 >= 1
      BY <1>1
    <2> QED BY <2>2, <2>3
  <1>6. raw \in RawType
    BY <1>1 DEF GenuineInv, Base, AmTypeOK, RawType
  <1> HIDE DEF p, cur
  <1>7. CASE Dropped
    <2>1. raw' = raw /\ rptCount' = rptCount /\ delivered' = delivered
      BY <1>7 DEF Dropped, rawVars
    <2>2. ASSUME dfeQ' # <<>>, raw.data # NoBlock, raw.upTo \in {pkt - 1, pkt} PROVE FALSE
      <3>1. Handled = 0 /\ j = 1
        <4>1. ~(Handled > 0)
          BY <1>4, <2>2
        <4> QED BY <1>5, <4>1
      <3>2. Follows
        <4>1. /\ isSNEqual(raw.upTo, Sn(raw.upTo))
              /\ isSNEqual(raw.upTo + 1, Sn(raw.upTo) + 1)
          BY <1>3, <2>2, SnOfNext
        <4>2. pkt = raw.upTo \/ pkt = raw.upTo + 1
          BY <1>1, <1>3, <2>2
        <4> QED BY <1>3, <2>2, <4>1, <4>2 DEF Follows
      <3>3. cur.status = "MID"
        BY <1>7, <2>2, <3>2 DEF Dropped, cur
      <3> QED BY <1>1, <1>2, <2>2, <3>3
    <2> QED BY <1>1, <2>1, <2>2 DEF ReportsInStep, ReportsMatchSegments
  <1>8. CASE Whole
    <2>1. PICK known \in MacKnown : Deliver(<<cur.frag>>, FirstReport(known))
      BY <1>8 DEF Whole, cur
    <2>2. raw'.data = NoBlock
      BY <1>8 DEF Whole, NoRaw
    <2>3. delivered'.frags = <<cur.frag>> /\ delivered'.reports = FirstReport(known)
      BY <2>1 DEF Deliver
    <2>4. ReportsMatchSegments'
      BY <2>3, FirstCounts DEF ReportsMatchSegments
    <2> QED BY <2>2, <2>4 DEF ReportsInStep
  <1>9. CASE Started
    <2>1. /\ cur.status = "START" /\ raw'.frags = <<cur.frag>> /\ delivered' = delivered
          /\ j = Len(p.li) + 1 /\ dfeQ' = <<>>
      BY <1>1, <1>2, <1>9 DEF Started, SaveSdu, cur
    <2>2. ASSUME Known PROVE rptCount' = Capped(Len(<<cur.frag>>))
      <3>1. CASE \E known \in MacKnown : rptCount' = FirstReport(known)
        BY <2>2, <3>1, FirstCounts
      <3>2. CASE raw.data # NoBlock /\ Follows /\ UNCHANGED rptCount
        <4>1. Handled = 0 /\ j = 1 /\ pkt \in {raw.upTo, raw.upTo + 1}
          <5>1. pkt \in {raw.upTo, raw.upTo + 1}
            BY <1>3, <3>2
          <5>2. ~(Handled > 0)
            BY <1>1, <1>3, <1>4, <3>2, <5>1
          <5> QED BY <1>5, <5>1, <5>2
        <4> DEFINE n == Len(raw.frags)
        <4>2. /\ n \in Nat \ {0} /\ Stop(raw.upTo).part = n /\ rptCount = Capped(n)
          BY <1>1, <1>3, <2>2, <3>2 DEF Genuine, ReportsInStep
        <4>3. CASE pkt = raw.upTo + 1
          <5>1. Script[raw.upTo + 1] = p /\ raw.upTo + 1 \in 1 .. Len(Script)
            BY <1>1, <4>3 DEF p
          <5>2. cur.frag.part = Stop(raw.upTo).part + 1
            <6>1. cur.frag = Script[raw.upTo + 1].frag[1]
              BY <1>2, <4>1, <5>1
            <6> QED BY <1>1, <1>3, <3>2, <5>1, <6>1, SentFacts
          <5> QED BY <1>2, <2>1, <4>2, <5>2
        <4>4. CASE pkt = raw.upTo
          <5>1. Stop(pkt) = p.frag[Len(p.li) + 1]
            BY <1>1, SentFacts DEF p
          <5>2. n = 1
            BY <1>2, <2>1, <4>2, <4>4, <5>1
          <5>3. Len(<<cur.frag>>) = 1
            OBVIOUS
          <5> QED BY <3>2, <4>2, <5>2, <5>3
        <4> QED BY <4>1, <4>3, <4>4
      <3> QED BY <1>9, <3>1, <3>2 DEF Started
    <2>3. ReportsInStep'
      BY <2>1, <2>2 DEF ReportsInStep
    <2> QED BY <1>1, <2>1, <2>3 DEF ReportsMatchSegments
  <1>10. \A block : Joined(block).frags = Append(raw.frags, cur.frag)
    BY <1>6 DEF Joined, RawType, cur
  <1>11. CASE Ended
    <2>1. raw.data # NoBlock /\ raw'.data = NoBlock
      BY <1>11 DEF Ended, JoinEnd, NoRaw
    <2>2. PICK block \in Blocks, known \in MacKnown : Deliver(Joined(block).frags, OneMoreReport(known))
      BY <1>11 DEF Ended, JoinEnd
    <2>3. delivered'.frags = Append(raw.frags, cur.frag) /\ delivered'.reports = OneMoreReport(known)
      BY <1>10, <2>2 DEF Deliver
    <2>4. ASSUME Known PROVE OneMoreReport(known) = Capped(Len(Append(raw.frags, cur.frag)))
      BY <1>1, <1>3, <2>1, <2>4, ReportCounts DEF ReportsInStep
    <2>5. ReportsMatchSegments'
      BY <2>3, <2>4 DEF ReportsMatchSegments
    <2> QED BY <2>1, <2>5 DEF ReportsInStep
  <1>12. CASE Continued
    <2>1. /\ raw.data # NoBlock /\ cur.status = "MID" /\ delivered' = delivered /\ dfeQ' = <<>>
      BY <1>1, <1>2, <1>12 DEF Continued, JoinMid, cur
    <2>2. PICK block \in Blocks : raw' = Joined(block)
      BY <1>12 DEF Continued, JoinMid
    <2>3. PICK known \in MacKnown : rptCount' = OneMoreReport(known)
      BY <1>12 DEF Continued, JoinMid
    <2>4. ASSUME Known PROVE rptCount' = Capped(Len(raw'.frags))
      BY <1>1, <1>3, <1>10, <2>1, <2>2, <2>3, <2>4, ReportCounts DEF ReportsInStep
    <2>5. ReportsInStep'
      BY <2>1, <2>4 DEF ReportsInStep
    <2> QED BY <1>1, <2>1, <2>5 DEF ReportsMatchSegments
  <1>13. Base
    BY <1>1 DEF GenuineInv
  <1> QED BY <1>7, <1>8, <1>9, <1>11, <1>12, <1>13, TurnOutcomes

\* Every step keeps the report list in step with the segments.
LEMMA ReportsNext ==
    ASSUME SentInOrder, RepetitionsAreSafe, ~JoinMayFail, ReportsInv, [AmNext]_amVars
    PROVE  ReportsInv'
  <1>1. Base /\ InStep /\ ReportsInStep /\ ReportsMatchSegments
    BY DEF ReportsInv, GenuineInv, Base
  <1>2. GenuineInv'
    BY GenuineNext DEF ReportsInv
  <1>3. ASSUME UNCHANGED rawVars, pc' # "reassemble" PROVE ReportsInStep' /\ ReportsMatchSegments'
    BY <1>1, <1>3 DEF rawVars, ReportsInStep, ReportsMatchSegments
  <1>4. CASE NoQueue \/ FirstMade \/ Split
    BY <1>2, <1>3, <1>4 DEF NoQueue, FirstMade, Split, ReportsInv
  <1>5. CASE Enqueue
    <2>1. /\ pc = "enqueue" /\ pc' = "reassemble" /\ pkt' = pkt /\ dfeQ' = Append(dfeQ, dfe)
          /\ Len(dfeQ) = Len(Script[pkt].li) /\ dfeQ \in Seq(HeldElement) /\ dfe \in HeldElement
          /\ UNCHANGED rawVars
      BY <1>1, <1>5 DEF Enqueue, InStep
    <2>2. Len(dfeQ') = Len(dfeQ) + 1 /\ Len(dfeQ) \in Nat
      <3>1. dfeQ \in Seq(HeldElement) /\ dfe \in HeldElement /\ dfeQ' = Append(dfeQ, dfe)
        BY <2>1
      <3> QED BY ONLY <3>1
    <2>3. Handled' = 0
      BY <2>1, <2>2 DEF Handled
    <2>4. ReportsInStep' /\ ReportsMatchSegments'
      <3>1. raw' = raw /\ rptCount' = rptCount /\ delivered' = delivered /\ ~(Handled' > 0)
        BY <2>1, <2>3 DEF rawVars
      <3> QED BY <1>1, <3>1 DEF ReportsInStep, ReportsMatchSegments
    <2> QED BY <1>2, <2>4 DEF ReportsInv
  <1>6. CASE RlcReassembleAmdDfeQ
    BY <1>2, <1>6, TurnReports DEF ReportsInv
  <1>7. CASE RlcDeleteRxAmEntity
    <2>1. raw'.data = NoBlock /\ delivered' = delivered
      BY <1>7 DEF RlcDeleteRxAmEntity, NoRaw
    <2>2. ReportsInStep' /\ ReportsMatchSegments'
      BY <1>1, <2>1 DEF ReportsInStep, ReportsMatchSegments
    <2> QED BY <1>2, <2>2 DEF ReportsInv
  <1>8. CASE UNCHANGED amVars
    <2>1. UNCHANGED <<pc, pkt, dfeQ, raw, rptCount, delivered>>
      BY <1>8 DEF amVars, decodeVars, rawVars
    <2>2. ReportsInStep' /\ ReportsMatchSegments'
      BY <1>1, <2>1 DEF ReportsInStep, ReportsMatchSegments, Handled
    <2> QED BY <1>2, <2>2 DEF ReportsInv
  <1> QED BY <1>1, <1>4, <1>5, <1>6, <1>7, <1>8, Shapes

\* The report list that RlcUeDataInd sends up with an SDU has an entry for each of its
\* segments, up to the list's capacity, and none of an SDU that was discarded.
THEOREM ReportsAreOfTheSdu ==
    ASSUME SentInOrder, RepetitionsAreSafe, ~JoinMayFail
    PROVE  AmSpec => []ReportsMatchSegments
  <1>1. AmInit => ReportsInv
    <2> SUFFICES ASSUME AmInit PROVE ReportsInv
      OBVIOUS
    <2>1. /\ pc = "idle" /\ raw.data = NoBlock /\ delivered.frags = <<>> /\ delivered.reports = 0
          /\ MAX_RLC_SEGMENTS_NUM \in Nat \ {0} /\ Len(<<>>) = 0
      BY RlcAmAssumption DEF AmInit, NoRaw, RlcAmAssumption
    <2>2. Capped(0) = 0
      BY <2>1 DEF Capped
    <2>3. ReportsInStep /\ ReportsMatchSegments
      BY <2>1, <2>2 DEF ReportsInStep, ReportsMatchSegments
    <2> QED BY <2>3, GenuineInit DEF ReportsInv
  <1>2. ReportsInv /\ [AmNext]_amVars => ReportsInv'
    BY ReportsNext
  <1>3. ReportsInv => ReportsMatchSegments
    BY DEF ReportsInv
  <1> QED BY <1>1, <1>2, <1>3, PTL DEF AmSpec

-----------------------------------------------------------------------------
\* a function that adds up the length indicators
IsSum(sum, li, n) == sum = [i \in 0 .. n |-> IF i = 0 THEN 0 ELSE sum[i - 1] + li[i]]

\* There is one for any number of length indicators: if there were a least number
\* without one, the sums of one indicator less would make one.
LEMMA SumExists ==
    ASSUME NEW li, NEW length \in Nat
    PROVE  \E sum : IsSum(sum, li, length)
  <1> DEFINE Sum(f, n) == f = [i \in 0 .. n |-> IF i = 0 THEN 0 ELSE f[i - 1] + li[i]]
             Missing == {n \in Nat : ~\E f : Sum(f, n)}
  <1>1. Missing = {}
    <2> SUFFICES ASSUME Missing # {} PROVE FALSE
      OBVIOUS
    <2>1. PICK n \in Missing : \A m \in Missing : n <= m
      <3> Missing \in SUBSET Nat
        OBVIOUS
      <3> QED BY MinOfNats
    <2>2. n # 0
      <3>1. Sum([i \in 0 .. 0 |-> 0], 0)
        OBVIOUS
      <3> QED BY <3>1, <2>1
    <2>3. n \in Nat /\ n - 1 \in Nat /\ n - 1 \notin Missing
      BY <2>1, <2>2
    <2>4. PICK f : Sum(f, n - 1)
      BY <2>3
    <2> DEFINE g == [i \in 0 .. n |-> IF i = n THEN f[n - 1] + li[n] ELSE f[i]]
    <2>5. \A i \in 0 .. n - 1 : g[i] = f[i]
      BY <2>3
    <2>6. \A i \in 0 .. n : g[i] = IF i = 0 THEN 0 ELSE g[i - 1] + li[i]
      <3> SUFFICES ASSUME NEW i \in 0 .. n
                   PROVE  g[i] = IF i = 0 THEN 0 ELSE g[i - 1] + li[i]
        OBVIOUS
      <3>1. CASE i = n
        BY <3>1, <2>2, <2>3, <2>5
      <3>2. CASE i # n
        <4>1. i \in 0 .. n - 1 /\ g[i] = f[i]
          BY <3>2, <2>3, <2>5
        <4>2. f[i] = IF i = 0 THEN 0 ELSE f[i - 1] + li[i]
          BY <2>4, <4>1
        <4>3. i # 0 => g[i - 1] = f[i - 1]
          BY <4>1, <2>3, <2>5
        <4> QED BY <4>1, <4>2, <4>3
      <3> QED BY <3>1, <3>2
    <2>7. Sum(g, n)
      BY <2>6
    <2> QED BY <2>1, <2>7
  <1>2. \E f : Sum(f, length)
    BY <1>1
  <1> QED BY <1>2 DEF IsSum

\* What the length indicators of a packet give away, one after the other.
LEMMA TakenSteps ==
    ASSUME NEW k \in 1 .. Len(Script)
    PROVE  /\ Taken(Script[k], 0) = 0
           /\ \A j \in 1 .. Len(Script[k].li) :
                Taken(Script[k], j) = Taken(Script[k], j - 1) + Script[k].li[j]
           /\ \A j \in 0 .. Len(Script[k].li) : Taken(Script[k], j) \in Nat
  <1> DEFINE p == Script[k]
             n == Len(p.li)
             sum == CHOOSE f : IsSum(f, p.li, n)
  <1>1. n \in Nat /\ \A j \in 1 .. n : p.li[j] \in Nat
    BY PacketFacts
  <1> HIDE DEF p
  <1>2. \A j : Taken(p, j) = sum[j]
    BY DEF Taken, IsSum
  <1> HIDE DEF n
  <1>3. IsSum(sum, p.li, n)
    <2>1. \E f : IsSum(f, p.li, n)
      BY <1>1, SumExists
    <2> QED BY <2>1
  <1> HIDE DEF sum
  <1>4. \A i \in 0 .. n : sum[i] = IF i = 0 THEN 0 ELSE sum[i - 1] + p.li[i]
    BY <1>3 DEF IsSum
  <1>5. sum[0] = 0
    BY <1>1, <1>4
  <1>6. \A j \in 1 .. n : sum[j] = sum[j - 1] + p.li[j]
    BY <1>1, <1>4
  <1> DEFINE Bad == {i \in 0 .. n : sum[i] \notin Nat}
  <1>7. Bad = {}
    <2> SUFFICES ASSUME Bad # {} PROVE FALSE
      OBVIOUS
    <2>1. PICK i \in Bad : \A j \in Bad : i <= j
      <3> Bad \in SUBSET Nat
        BY <1>1
      <3> QED BY MinOfNats
    <2>2. i # 0
      BY <1>5, <2>1
    <2>3. i \in 1 .. n /\ i - 1 \in 0 .. n /\ i - 1 \notin Bad
      BY <1>1, <2>1, <2>2
    <2>4. sum[i - 1] \in Nat /\ sum[i] \notin Nat
      BY <2>1, <2>3
    <2>5. sum[i] = sum[i - 1] + p.li[i] /\ p.li[i] \in Nat
      BY <1>1, <1>6, <2>3
    <2> QED BY <2>4, <2>5
  <1> QED BY <1>2, <1>5, <1>6, <1>7 DEF p, n

\* No element of an accepted packet is empty, and no whole SDU is only a header.
LEMMA TurnSize ==
    ASSUME NoTinySdus, Base, QueueInStep, SizesInStep, RlcReassembleAmdDfeQ
    PROVE  /\ Current.size \in Nat /\ Current.size > 0
           /\ Current.status = "FULL" => Current.size > PDCP_HEADER
  <1> DEFINE p == Script[pkt]
             j == Handled + 1
  <1>1. /\ pc = "reassemble" /\ pkt \in 1 .. Len(Script) /\ Len(dfeQ) \in Nat \ {0}
        /\ Current = dfeQ[1] /\ Current.size \in Nat /\ InStep
    BY TurnQueue
  <1>2. p.kind = "data" /\ HeaderIsValid(p) /\ Taken(p, Len(p.li)) <= p.size
    BY <1>1 DEF InStep, SizesInStep
  <1>3. IsElement(Current, p, j) /\ Current.size = SizeOf(p, j)
    <2>1. 1 \in 1 .. Len(dfeQ)
      BY <1>1
    <2> QED BY <1>1, <2>1 DEF QueueInStep, SizesInStep
  <1> HIDE DEF p, j
  <1>4. SizeOf(p, j) > IF StatusOf(p, j) = "FULL" THEN PDCP_HEADER ELSE 0
    <2>1. \A i \in Elements(p) : SizeOf(p, i) > IF StatusOf(p, i) = "FULL" THEN PDCP_HEADER ELSE 0
      BY <1>1, <1>2 DEF NoTinySdus, p
    <2> QED BY <1>3, <2>1 DEF IsElement
  <1> QED BY <1>1, <1>3, <1>4 DEF IsElement, PDCP_HEADER

\* The sizes are those the header gives, and the raw SDU is never empty.
LEMMA SizesNext ==
    ASSUME NoTinySdus, Base, QueueInStep, SizesInStep, [AmNext]_amVars
    PROVE  SizesInStep'
  <1> DEFINE p == Script[pkt]
             n == Len(p.li)
  <1>1. AmTypeOK /\ InStep /\ dfeQ \in Seq(HeldElement) /\ Len(dfeQ) \in Nat
    BY DEF Base, InStep
  <1>2. pc # "idle" => /\ pkt \in 1 .. Len(Script) /\ n \in Nat
                       /\ \A j \in 1 .. n : p.li[j] \in Nat
                       /\ p.size \in Nat
    <2>1. pc # "idle" => pkt \in 1 .. Len(Script)
      BY <1>1 DEF InStep, AmTypeOK
    <2> QED BY <2>1, PacketFacts
  <1>3. pc # "idle" => /\ Taken(p, 0) = 0
                       /\ \A j \in 1 .. n : Taken(p, j) = Taken(p, j - 1) + p.li[j]
                       /\ \A j \in 0 .. n : Taken(p, j) \in Nat
    BY <1>2, TakenSteps
  <1> HIDE DEF p, n
  <1>4. raw.data # NoBlock => raw.size > 0
    BY DEF SizesInStep
  <1>5. CASE NoQueue
    BY <1>4, <1>5 DEF NoQueue, rawVars, SizesInStep
  <1>6. CASE FirstMade
    <2>1. /\ pc = "first" /\ dfeQ' = <<>> /\ pkt' = pkt /\ raw' = raw
          /\ pc' \in {"split", "enqueue"} /\ HeaderIsValid(p) /\ dfe'.size = p.size
      BY <1>1, <1>6 DEF FirstMade, InStep, rawVars, p
    <2>2. Script[pkt]' = p /\ Len(dfeQ') = 0
      BY <2>1 DEF p
    <2>3. p.size - Taken(p, 0) = p.size
      BY <1>2, <1>3, <2>1
    <2> QED BY <1>4, <2>1, <2>2, <2>3 DEF SizesInStep
  <1>7. CASE Split
    <2> DEFINE i == Len(dfeQ) + 1
               x == [dfe EXCEPT !.size = p.li[i]]
    <2>1. /\ pc = "split" /\ pkt' = pkt /\ pc' \in {"split", "enqueue"} /\ i \in 1 .. n
          /\ raw' = raw /\ dfeQ' = Append(dfeQ, x) /\ dfe'.size = dfe.size - p.li[i]
      BY <1>7 DEF Split, rawVars, p, n
    <2>2. /\ HeaderIsValid(p) /\ dfe.size = p.size - Taken(p, Len(dfeQ))
          /\ \A j \in 1 .. Len(dfeQ) : dfeQ[j].size = SizeOf(p, j)
      BY <2>1 DEF SizesInStep, p
    <2>3. x.size = p.li[i]
      BY <1>1, <2>1 DEF InStep, HeldElement
    <2> HIDE DEF x
    <2>4. /\ Len(dfeQ') = i /\ dfeQ'[i] = x
          /\ \A j \in 1 .. Len(dfeQ) : dfeQ'[j] = dfeQ[j]
      BY <1>1, <2>1
    <2>5. dfe'.size = p.size - Taken(p, i)
      <3>1. Taken(p, i) = Taken(p, Len(dfeQ)) + p.li[i] /\ Taken(p, Len(dfeQ)) \in Nat
            /\ p.li[i] \in Nat /\ p.size \in Nat
        BY <1>1, <1>2, <1>3, <2>1
      <3> HIDE DEF i
      <3> QED BY <2>1, <2>2, <3>1
    <2>6. SizeOf(p, i) = p.li[i]
      BY <1>2, <2>1 DEF SizeOf, n
    <2>7. \A j \in 1 .. Len(dfeQ') : dfeQ'[j].size = SizeOf(p, j)
      <3>1. \A j \in 1 .. Len(dfeQ') : j = i \/ j \in 1 .. Len(dfeQ)
        BY <1>1, <2>4
      <3> HIDE DEF i
      <3> QED BY <2>2, <2>3, <2>4, <2>6, <3>1
    <2>8. Script[pkt]' = p
      BY <2>1 DEF p
    <2> QED BY <1>4, <2>1, <2>2, <2>4, <2>5, <2>7, <2>8 DEF SizesInStep
  <1>8. CASE Enqueue
    <2>1. /\ pc = "enqueue" /\ pc' = "reassemble" /\ pkt' = pkt /\ dfeQ' = Append(dfeQ, dfe)
          /\ Len(dfeQ) = n /\ raw' = raw /\ dfe \in HeldElement
      BY <1>1, <1>8 DEF Enqueue, InStep, rawVars, p, n
    <2>2. /\ HeaderIsValid(p) /\ dfe.size = p.size - Taken(p, n)
          /\ \A j \in 1 .. n : dfeQ[j].size = SizeOf(p, j)
      BY <2>1 DEF SizesInStep, p
    <2>3. /\ Len(dfeQ') = n + 1 /\ dfeQ'[n + 1] = dfe
          /\ \A j \in 1 .. n : dfeQ'[j] = dfeQ[j]
      BY <1>1, <2>1
    <2>4. Handled' = 0
      <3>1. Handled' = n + 1 - Len(dfeQ')
        BY <2>1 DEF Handled, p, n
      <3> QED BY <1>2, <2>1, <2>3, <3>1
    <2>5. SizeOf(p, n + 1) = p.size - Taken(p, n)
      <3>1. ~(n + 1 <= n)
        BY <1>2, <2>1
      <3> QED BY <3>1 DEF SizeOf, n
    <2>6. Taken(p, n) <= p.size
      <3>1. dfe.size \in Nat /\ Taken(p, n) \in Nat /\ p.size \in Nat
        <4>1. n \in 0 .. n
          BY <1>2, <2>1
        <4> QED BY <1>2, <1>3, <2>1, <4>1, HeldIsElement
      <3> QED BY <2>2, <3>1
    <2>7. \A j \in 1 .. Len(dfeQ') : dfeQ'[j].size = SizeOf(p, Handled' + j)
      <3>1. \A j \in 1 .. Len(dfeQ') : (j = n + 1 \/ j \in 1 .. n) /\ Handled' + j = j
        BY <1>2, <2>1, <2>3, <2>4
      <3> QED BY <2>2, <2>3, <2>5, <3>1
    <2>8. Script[pkt]' = p
      BY <2>1 DEF p
    <2> QED BY <1>4, <2>1, <2>2, <2>6, <2>7, <2>8 DEF SizesInStep, n
  <1>9. CASE RlcReassembleAmdDfeQ
    <2>1. /\ pc = "reassemble" /\ pc' = pc /\ pkt' = pkt /\ Len(dfeQ') = Len(dfeQ) - 1
          /\ \A i \in 1 .. Len(dfeQ') : dfeQ'[i] = dfeQ[i + 1]
      BY <1>9, TurnQueue
    <2>2. Handled' = Handled + 1 /\ Handled \in Int
      BY <1>1, <1>2, <2>1 DEF Handled, n, p
    <2>3. \A i \in 1 .. Len(dfeQ') : i + 1 \in 1 .. Len(dfeQ) /\ Handled' + i = Handled + (i + 1)
      BY <1>1, <2>1, <2>2
    <2>4. /\ HeaderIsValid(p) /\ Taken(p, n) <= p.size
          /\ \A i \in 1 .. Len(dfeQ) : dfeQ[i].size = SizeOf(p, Handled + i)
      BY <2>1 DEF SizesInStep, p, n
    <2>5. \A i \in 1 .. Len(dfeQ') : dfeQ'[i].size = SizeOf(p, Handled' + i)
      BY <2>1, <2>3, <2>4
    <2>6. raw'.data # NoBlock => raw'.size > 0
      <3>1. Current.size \in Nat /\ Current.size > 0 /\ raw \in RawType
        BY <1>1, <1>9, TurnSize DEF AmTypeOK, RawType
      <3>2. CASE Dropped
        BY <1>4, <3>2 DEF Dropped, rawVars
      <3>3. CASE Whole \/ Ended
        BY <3>3 DEF Whole, Ended, JoinEnd, NoRaw
      <3>4. CASE Started
        BY <3>1, <3>4 DEF Started, SaveSdu
      <3>5. CASE Continued
        <4>1. raw.data # NoBlock /\ \E block \in Blocks : raw' = Joined(block)
          BY <3>5 DEF Continued, JoinMid
        <4>2. \A block \in Blocks : Joined(block).size = raw.size + Current.size
          BY <3>1 DEF Joined, RawType
        <4>3. raw.size \in Nat /\ raw.size > 0
          BY <1>4, <3>1, <4>1 DEF RawType
        <4> QED BY <3>1, <4>1, <4>2, <4>3
      <3> QED BY <1>9, <3>2, <3>3, <3>4, <3>5, TurnOutcomes
    <2>7. Script[pkt]' = p
      BY <2>1 DEF p
    <2> QED BY <2>1, <2>4, <2>5, <2>6, <2>7 DEF SizesInStep, n
  <1>10. CASE RlcDeleteRxAmEntity
    BY <1>10 DEF RlcDeleteRxAmEntity, NoRaw, SizesInStep
  <1>11. CASE UNCHANGED amVars
    <2>1. UNCHANGED <<pc, pkt, dfe, dfeQ, raw>>
      BY <1>11 DEF amVars, decodeVars, rawVars
    <2> QED BY <2>1 DEF SizesInStep, Handled
  <1> QED BY <1>5, <1>6, <1>7, <1>8, <1>9, <1>10, <1>11, Shapes

-----------------------------------------------------------------------------
\* the blocks that the entity owns are those its pointers reach, each by one pointer
Owned == BlocksApart /\ live = Reachable

MemoryInv == Base /\ QueueInStep /\ SizesInStep /\ Owned

\* An element that joins a queue brings its two blocks.
LEMMA BlocksOfAppend ==
    ASSUME NEW q \in Seq(HeldElement), NEW x \in HeldElement
    PROVE  /\ BlocksIn(Append(q, x)) = BlocksIn(q) \cup BlocksOf(x)
           /\ ElementsApart(q) /\ x.node # x.data /\ BlocksOf(x) \cap BlocksIn(q) = {}
                => ElementsApart(Append(q, x))
  <1> DEFINE n == Len(q)
             r == Append(q, x)
  <1>1. /\ n \in Nat /\ Len(r) = n + 1 /\ r[n + 1] = x
        /\ \A i \in 1 .. n : r[i] = q[i]
    OBVIOUS
  <1> HIDE DEF n, r
  <1>2. \A i \in 1 .. Len(r) : i = n + 1 \/ i \in 1 .. n
    BY <1>1
  <1>3. n + 1 \in 1 .. Len(r) /\ \A i \in 1 .. n : i \in 1 .. Len(r)
    BY <1>1
  <1>4. BlocksIn(r) = BlocksIn(q) \cup BlocksOf(x)
    <2>1. BlocksIn(r) \subseteq BlocksIn(q) \cup BlocksOf(x)
      BY <1>1, <1>2 DEF BlocksIn, n
    <2>2. BlocksIn(q) \cup BlocksOf(x) \subseteq BlocksIn(r)
      BY <1>1, <1>3 DEF BlocksIn, n
    <2> QED BY <2>1, <2>2
  <1>5. ASSUME ElementsApart(q), x.node # x.data, BlocksOf(x) \cap BlocksIn(q) = {}
        PROVE  ElementsApart(r)
    <2>1. \A i \in 1 .. n : q[i].node # q[i].data
      BY <1>5 DEF ElementsApart, n
    <2>2. \A i, j \in 1 .. n : i # j => BlocksOf(q[i]) \cap BlocksOf(q[j]) = {}
      BY <1>5 DEF ElementsApart, n
    <2>3. \A i \in 1 .. n : BlocksOf(q[i]) \subseteq BlocksIn(q)
      BY DEF BlocksIn, n
    <2>4. \A i \in 1 .. n : BlocksOf(q[i]) \cap BlocksOf(x) = {}
      BY <1>5, <2>3
    <2>5. \A i \in 1 .. Len(r) : r[i].node # r[i].data
      BY <1>1, <1>2, <1>5, <2>1
    <2>6. \A i, j \in 1 .. Len(r) : i # j => BlocksOf(r[i]) \cap BlocksOf(r[j]) = {}
      <3> SUFFICES ASSUME NEW i \in 1 .. Len(r), NEW j \in 1 .. Len(r), i # j
                   PROVE  BlocksOf(r[i]) \cap BlocksOf(r[j]) = {}
        OBVIOUS
      <3>1. CASE i \in 1 .. n /\ j \in 1 .. n
        BY <1>1, <2>2, <3>1
      <3>2. CASE i = n + 1 /\ j \in 1 .. n
        <4>1. r[i] = x /\ r[j] = q[j]
          BY <1>1, <3>2
        <4> QED BY <2>4, <3>2, <4>1
      <3>3. CASE i \in 1 .. n /\ j = n + 1
        <4>1. r[j] = x /\ r[i] = q[i]
          BY <1>1, <3>3
        <4> QED BY <2>4, <3>3, <4>1
      <3> QED BY <1>2, <3>1, <3>2, <3>3
    <2> QED BY <2>5, <2>6 DEF ElementsApart
  <1> QED BY <1>4, <1>5 DEF r

\* The element at the head of a queue shares no block with those behind it.
LEMMA BlocksOfTail ==
    ASSUME NEW q \in Seq(HeldElement), q # <<>>
    PROVE  /\ BlocksIn(q) = BlocksIn(Tail(q)) \cup BlocksOf(q[1])
           /\ ElementsApart(q) => /\ ElementsApart(Tail(q)) /\ q[1].node # q[1].data
                                  /\ BlocksOf(q[1]) \cap BlocksIn(Tail(q)) = {}
  <1> DEFINE n == Len(q)
             r == Tail(q)
  <1>1. /\ n \in Nat \ {0} /\ Len(r) = n - 1
        /\ \A i \in 1 .. n - 1 : r[i] = q[i + 1]
    OBVIOUS
  <1> HIDE DEF n, r
  <1>2. /\ 1 \in 1 .. n /\ \A i \in 1 .. Len(r) : i + 1 \in 1 .. n /\ i + 1 # 1 /\ r[i] = q[i + 1]
        /\ \A i \in 1 .. n : i = 1 \/ (i - 1 \in 1 .. Len(r) /\ r[i - 1] = q[i])
    BY <1>1
  <1>3. BlocksIn(q) = BlocksIn(r) \cup BlocksOf(q[1])
    <2>1. ASSUME NEW x \in BlocksIn(q) PROVE x \in BlocksIn(r) \cup BlocksOf(q[1])
      <3>1. PICK i \in 1 .. n : x \in BlocksOf(q[i])
        BY <2>1 DEF BlocksIn, n
      <3>2. CASE i = 1
        BY <3>1, <3>2
      <3>3. CASE i # 1
        <4>1. i - 1 \in 1 .. Len(r) /\ r[i - 1] = q[i]
          BY <1>2, <3>3
        <4> QED BY <3>1, <4>1 DEF BlocksIn
      <3> QED BY <3>2, <3>3
    <2>2. BlocksOf(q[1]) \subseteq BlocksIn(q)
      BY <1>2 DEF BlocksIn, n
    <2>3. ASSUME NEW x \in BlocksIn(r) PROVE x \in BlocksIn(q)
      <3>1. PICK i \in 1 .. Len(r) : x \in BlocksOf(r[i])
        BY <2>3 DEF BlocksIn
      <3>2. i + 1 \in 1 .. n /\ r[i] = q[i + 1]
        BY <1>2
      <3> QED BY <3>1, <3>2 DEF BlocksIn, n
    <2> QED BY <2>1, <2>2, <2>3
  <1>4. ASSUME ElementsApart(q)
        PROVE  ElementsApart(r) /\ q[1].node # q[1].data /\ BlocksOf(q[1]) \cap BlocksIn(r) = {}
    <2>1. \A i \in 1 .. n : q[i].node # q[i].data
      BY <1>4 DEF ElementsApart, n
    <2>2. \A i, j \in 1 .. n : i # j => BlocksOf(q[i]) \cap BlocksOf(q[j]) = {}
      BY <1>4 DEF ElementsApart, n
    <2>3. \A i \in 1 .. Len(r) : BlocksOf(q[1]) \cap BlocksOf(r[i]) = {}
      BY <1>2, <2>2
    <2>4. BlocksOf(q[1]) \cap BlocksIn(r) = {}
      BY <2>3 DEF BlocksIn
    <2>5. \A i \in 1 .. Len(r) : r[i].node # r[i].data
      BY <1>2, <2>1
    <2>6. \A i, j \in 1 .. Len(r) : i # j => BlocksOf(r[i]) \cap BlocksOf(r[j]) = {}
      <3> SUFFICES ASSUME NEW i \in 1 .. Len(r), NEW j \in 1 .. Len(r), i # j
                   PROVE  BlocksOf(r[i]) \cap BlocksOf(r[j]) = {}
        OBVIOUS
      <3>1. i + 1 # j + 1
        BY <1>1
      <3> QED BY <1>2, <2>2, <3>1
    <2> QED BY <1>2, <2>1, <2>4, <2>5, <2>6 DEF ElementsApart
  <1> QED BY <1>3, <1>4 DEF r

\* What the entity and the packet hold, block by block.
LEMMA OwnedFacts ==
    ASSUME Base, Owned
    PROVE  /\ live = ({rlcdata, amdPdu, segment, dfe.node, dfe.data, raw.data}
                      \cup BlocksIn(dfeQ)) \ {NoBlock}
           /\ NoBlock \notin BlocksIn(dfeQ) /\ BlocksIn(dfeQ) \subseteq Blocks
           /\ live \subseteq Blocks /\ NoBlock \notin Blocks
  <1>1. AmTypeOK /\ dfeQ \in Seq(HeldElement)
    BY DEF Base, InStep
  <1>2. \A i \in 1 .. Len(dfeQ) : dfeQ[i].node \in Blocks /\ dfeQ[i].data \in Blocks
    <2>1. \A i \in 1 .. Len(dfeQ) : dfeQ[i] \in HeldElement
      BY <1>1
    <2> QED BY <2>1, HeldIsElement
  <1>3. BlocksIn(dfeQ) \subseteq Blocks
    BY <1>2 DEF BlocksIn, BlocksOf
  <1>4. QueueBlocks = BlocksIn(dfeQ)
    BY DEF QueueBlocks, BlocksIn, BlocksOf
  <1> QED BY <1>1, <1>3, <1>4, TypeFacts DEF Owned, Reachable

\* The same for the next state, from its parts.
LEMMA OwnedNext ==
    ASSUME BlocksApart',
           live' = ({rlcdata, amdPdu, segment, dfe.node, dfe.data, raw.data}'
                    \cup BlocksIn(dfeQ)') \ {NoBlock}
    PROVE  Owned'
  <1>1. QueueBlocks = BlocksIn(dfeQ)
    BY DEF QueueBlocks, BlocksIn, BlocksOf
  <1>2. QueueBlocks' = BlocksIn(dfeQ)'
    BY DEF QueueBlocks, BlocksIn, BlocksOf
  <1> QED BY <1>2 DEF Owned, Reachable

\* An empty queue has no blocks.
LEMMA NoBlocksIn == BlocksIn(<<>>) = {} /\ ElementsApart(<<>>)
  <1>1. \A i : i \notin 1 .. Len(<<>>)
    OBVIOUS
  <1> QED BY <1>1 DEF BlocksIn, ElementsApart

\* Where a packet ends, everything but the raw SDU is given back.
LEMMA PacketEndsOwned ==
    ASSUME Base, Owned, NEW freed, PacketEnds(freed), UNCHANGED rawVars,
           {rlcdata, amdPdu, segment, dfe.node, dfe.data} \ {NoBlock} \subseteq freed,
           BlocksIn(dfeQ) \subseteq freed, raw.data \notin freed \/ raw.data = NoBlock
    PROVE  Owned'
  <1>1. /\ live' = live \ freed
        /\ rlcdata' = NoBlock /\ amdPdu' = NoBlock /\ segment' = NoBlock
        /\ dfe' = NoDfe /\ dfeQ' = <<>> /\ raw' = raw
    BY DEF PacketEnds, rawVars
  <1>2. dfe'.node = NoBlock /\ dfe'.data = NoBlock /\ raw'.data = raw.data
    BY <1>1 DEF NoDfe
  <1>3. BlocksIn(dfeQ)' = {} /\ ElementsApart(dfeQ)'
    <2>1. BlocksIn(dfeQ') = {} /\ ElementsApart(dfeQ')
      BY <1>1, NoBlocksIn
    <2> QED BY <2>1 DEF BlocksIn, ElementsApart, BlocksOf
  <1>4. BlocksApart'
    BY <1>1, <1>2, <1>3 DEF BlocksApart
  <1>5. live' = {raw.data} \ {NoBlock}
    BY <1>1, OwnedFacts
  <1> QED BY <1>1, <1>2, <1>3, <1>4, <1>5, OwnedNext

\* The steps from the packet to the first element keep every block with its pointer.
LEMMA DecodeOwned ==
    ASSUME Base, Owned,
           (\E k \in 1 .. Len(Script) : Receive(k)) \/ RlcProcessAMRxPacket \/ RlcProcessAmdPduSegment
           \/ RlcDecodeAmdPdu \/ FirstDfe
    PROVE  Owned'
  <1>1. /\ InStep /\ BlocksApart /\ NoBlock \notin BlocksIn(dfeQ)
        /\ live = ({rlcdata, amdPdu, segment, dfe.node, dfe.data, raw.data}
                   \cup BlocksIn(dfeQ)) \ {NoBlock}
        /\ live \subseteq Blocks /\ NoBlock \notin Blocks
    BY OwnedFacts DEF Base, Owned
  <1>2. NoDfe.node = NoBlock /\ NoDfe.data = NoBlock
    BY DEF NoDfe
  <1>3. BlocksIn(<<>>) = {} /\ ElementsApart(<<>>)
    BY NoBlocksIn
  <1>4. UNCHANGED dfeQ => BlocksIn(dfeQ)' = BlocksIn(dfeQ) /\ ElementsApart(dfeQ)' = ElementsApart(dfeQ)
    BY DEF BlocksIn, ElementsApart
  <1>5. ASSUME NEW k \in 1 .. Len(Script), Receive(k) PROVE Owned'
    <2>1. PICK b \in Blocks : Obtains(b) /\ live' = live \cup {b} /\ rlcdata' = b
      BY <1>5 DEF Receive
    <2>2. /\ pc = "idle" /\ raw' = raw
          /\ amdPdu' = amdPdu /\ segment' = segment /\ dfe' = dfe /\ dfeQ' = dfeQ
      BY <1>5 DEF Receive, rawVars
    <2>3. b \notin live /\ b # NoBlock
      BY <1>1, <2>1 DEF Obtains
    <2>4. rlcdata = NoBlock /\ amdPdu = NoBlock /\ segment = NoBlock /\ dfe = NoDfe /\ dfeQ = <<>>
      BY <1>1, <2>2 DEF InStep
    <2>5. BlocksIn(dfeQ)' = {} /\ ElementsApart(dfeQ)'
      BY <1>3, <1>4, <2>2, <2>4
    <2>6. BlocksApart'
      BY <1>1, <1>2, <2>1, <2>2, <2>3, <2>4, <2>5 DEF BlocksApart
    <2> QED BY <1>1, <1>2, <2>1, <2>2, <2>3, <2>4, <2>5, <2>6, OwnedNext
  <1>6. ASSUME RlcProcessAMRxPacket PROVE Owned'
    <2>1. /\ pc = "header" /\ raw' = raw /\ rlcdata \in Blocks /\ amdPdu = NoBlock /\ segment = NoBlock
          /\ dfe = NoDfe /\ dfeQ = <<>> /\ UNCHANGED rawVars
      BY <1>1, <1>6 DEF RlcProcessAMRxPacket, rawVars, InStep
    <2>2. raw.data # rlcdata
      BY <1>1, <2>1 DEF BlocksApart
    <2>3. CASE PacketEnds({rlcdata})
      BY <1>2, <1>3, <2>1, <2>2, <2>3, PacketEndsOwned
    <2>4. ASSUME NEW b \in Blocks, Obtains(b), live' = live \cup {b}, amdPdu' = b,
                 UNCHANGED <<rlcdata, segment, dfe, dfeQ>>
          PROVE  Owned'
      <3>1. b \notin live /\ b # NoBlock
        BY <1>1, <2>4 DEF Obtains
      <3>2. BlocksIn(dfeQ)' = {} /\ ElementsApart(dfeQ)'
        BY <1>3, <1>4, <2>1, <2>4
      <3>3. BlocksApart'
        BY <1>1, <1>2, <2>1, <2>2, <2>4, <3>1, <3>2 DEF BlocksApart
      <3> QED BY <1>1, <1>2, <1>3, <2>1, <2>4, <3>1, <3>2, <3>3, OwnedNext
    <2> QED BY <1>6, <2>3, <2>4 DEF RlcProcessAMRxPacket
  <1>7. pc = "decode" => /\ rlcdata \in Blocks /\ amdPdu \in Blocks /\ segment = NoBlock
                         /\ dfe = NoDfe /\ dfeQ = <<>>
                         /\ raw.data \notin {rlcdata, amdPdu} /\ rlcdata # amdPdu
    <2>1. pc = "decode" => /\ rlcdata \in Blocks /\ amdPdu \in Blocks /\ segment = NoBlock
                           /\ dfe = NoDfe /\ dfeQ = <<>>
      BY <1>1 DEF InStep
    <2> QED BY <1>1, <2>1 DEF BlocksApart
  <1>8. ASSUME RlcProcessAmdPduSegment PROVE Owned'
    <2>1. pc = "decode" /\ PacketEnds({rlcdata, amdPdu}) /\ UNCHANGED rawVars
      BY <1>8 DEF RlcProcessAmdPduSegment
    <2> QED BY <1>2, <1>3, <1>7, <2>1, PacketEndsOwned
  <1>9. ASSUME RlcDecodeAmdPdu PROVE Owned'
    <2>1. pc = "decode" /\ UNCHANGED rawVars /\ raw' = raw
      BY <1>9 DEF RlcDecodeAmdPdu, rawVars
    <2>2. CASE PacketEnds({rlcdata, amdPdu})
      BY <1>2, <1>3, <1>7, <2>1, <2>2, PacketEndsOwned
    <2>3. ASSUME NEW b \in Blocks, Obtains(b), live' = live \cup {b}, segment' = b,
                 UNCHANGED <<rlcdata, amdPdu, dfe, dfeQ>>
          PROVE  Owned'
      <3>1. b \notin live /\ b # NoBlock
        BY <1>1, <2>3 DEF Obtains
      <3>2. BlocksIn(dfeQ)' = {} /\ ElementsApart(dfeQ)'
        BY <1>3, <1>4, <1>7, <2>1, <2>3
      <3>3. BlocksApart'
        BY <1>1, <1>2, <1>7, <2>1, <2>3, <3>1, <3>2 DEF BlocksApart
      <3> QED BY <1>1, <1>2, <1>3, <1>7, <2>1, <2>3, <3>1, <3>2, <3>3, OwnedNext
    <2> QED BY <1>9, <2>2, <2>3 DEF RlcDecodeAmdPdu
  <1>10. ASSUME FirstDfe PROVE Owned'
    <2>1. /\ pc = "first" /\ rlcdata \in Blocks /\ amdPdu \in Blocks /\ segment \in Blocks
          /\ dfe = NoDfe /\ dfeQ = <<>> /\ raw' = raw /\ UNCHANGED rawVars
      BY <1>1, <1>10 DEF FirstDfe, rawVars, InStep
    <2>2. /\ raw.data \notin {rlcdata, amdPdu, segment}
          /\ rlcdata \notin {amdPdu, segment} /\ amdPdu # segment
      BY <1>1, <2>1 DEF BlocksApart
    <2>3. CASE PacketEnds({rlcdata, amdPdu, segment})
      BY <1>2, <1>3, <2>1, <2>2, <2>3, PacketEndsOwned
    <2>4. CASE ~PacketEnds({rlcdata, amdPdu, segment})
      <3>1. PICK b \in Blocks :
                /\ Obtains(b)
                /\ live' = live \cup {b}
                /\ dfe'.node = b /\ dfe'.data = rlcdata
                /\ rlcdata' = NoBlock
                /\ UNCHANGED <<amdPdu, segment, dfeQ>>
        BY <1>10, <2>4 DEF FirstDfe
      <3>2. b \notin live /\ b # NoBlock
        BY <1>1, <3>1 DEF Obtains
      <3>3. BlocksIn(dfeQ)' = {} /\ ElementsApart(dfeQ)'
        BY <1>3, <1>4, <2>1, <3>1
      <3>4. BlocksApart'
        BY <1>1, <2>1, <2>2, <3>1, <3>2, <3>3 DEF BlocksApart
      <3> QED BY <1>1, <1>2, <1>3, <2>1, <3>1, <3>2, <3>3, <3>4, OwnedNext
    <2> QED BY <2>3, <2>4
  <1> QED BY <1>5, <1>6, <1>8, <1>9, <1>10

\* A cut element stays in the queue with its blocks, the rest gets two new ones.
LEMMA SplitOwned ==
    ASSUME Base, Owned, RlcDecodeAndEnqueueAMSegment \/ Enqueue
    PROVE  Owned'
  <1>1. /\ InStep /\ BlocksApart /\ NoBlock \notin BlocksIn(dfeQ)
        /\ live = ({rlcdata, amdPdu, segment, dfe.node, dfe.data, raw.data}
                   \cup BlocksIn(dfeQ)) \ {NoBlock}
        /\ live \subseteq Blocks /\ NoBlock \notin Blocks
    BY OwnedFacts DEF Base, Owned
  <1>2. /\ pc \in {"split", "enqueue"} /\ rlcdata = NoBlock /\ amdPdu \in Blocks /\ segment \in Blocks
        /\ dfe \in HeldElement /\ dfeQ \in Seq(HeldElement)
        /\ UNCHANGED rawVars /\ raw' = raw
    BY <1>1 DEF RlcDecodeAndEnqueueAMSegment, Enqueue, rawVars, InStep
  <1>3. dfe.node \in Blocks /\ dfe.data \in Blocks
    BY <1>2, HeldIsElement
  <1>4. /\ ElementsApart(dfeQ) /\ amdPdu \notin {segment, dfe.node, dfe.data, raw.data}
        /\ segment \notin {dfe.node, dfe.data, raw.data}
        /\ dfe.node # dfe.data /\ raw.data \notin {dfe.node, dfe.data}
        /\ {amdPdu, segment, dfe.node, dfe.data, raw.data} \cap BlocksIn(dfeQ) = {}
    BY <1>1, <1>2, <1>3 DEF BlocksApart
  <1>5. NoDfe.node = NoBlock /\ NoDfe.data = NoBlock
    BY DEF NoDfe
  <1>6. ASSUME NEW x \in HeldElement, x.node = dfe.node, x.data = dfe.data, dfeQ' = Append(dfeQ, x)
        PROVE  /\ BlocksIn(dfeQ)' = BlocksIn(dfeQ) \cup {dfe.node, dfe.data}
               /\ ElementsApart(dfeQ)'
    <2>1. BlocksOf(x) = {dfe.node, dfe.data}
      BY <1>6 DEF BlocksOf
    <2>2. BlocksOf(x) \cap BlocksIn(dfeQ) = {}
      BY <1>4, <2>1
    <2>3. BlocksIn(Append(dfeQ, x)) = BlocksIn(dfeQ) \cup {dfe.node, dfe.data}
      BY <1>2, <2>1, BlocksOfAppend
    <2>4. ElementsApart(Append(dfeQ, x))
      BY <1>2, <1>4, <1>6, <2>2, BlocksOfAppend
    <2> QED BY <1>6, <2>3, <2>4 DEF BlocksIn, ElementsApart
  <1>7. CASE RlcDecodeAndEnqueueAMSegment
    <2> DEFINE p == Script[pkt]
               i == Len(dfeQ) + 1
               gone == {dfe.node, dfe.data, amdPdu, segment} \cup QueueBlocks
    <2>1. CASE PacketEnds(gone)
      <3>1. QueueBlocks = BlocksIn(dfeQ)
        BY DEF QueueBlocks, BlocksIn, BlocksOf
      <3>2. gone = {dfe.node, dfe.data, amdPdu, segment} \cup BlocksIn(dfeQ)
        BY <3>1
      <3> HIDE DEF gone
      <3>3. /\ {rlcdata, amdPdu, segment, dfe.node, dfe.data} \ {NoBlock} \subseteq gone
            /\ BlocksIn(dfeQ) \subseteq gone /\ raw.data \notin gone
        BY <1>2, <1>4, <3>2
      <3> QED BY <1>2, <2>1, <3>3, PacketEndsOwned
    <2>2. ASSUME NEW b \in Blocks, NEW d \in Blocks,
                 Obtains(b), d \in Blocks \ (live \cup {b}),
                 live' = live \cup {b, d},
                 dfeQ' = Append(dfeQ, [dfe EXCEPT !.size = p.li[i]]),
                 dfe'.node = b, dfe'.data = d,
                 UNCHANGED <<rlcdata, amdPdu, segment>>,
                 p.li[i] \in Nat
          PROVE  Owned'
      <3> DEFINE x == [dfe EXCEPT !.size = p.li[i]]
      <3>1. x \in HeldElement /\ x.node = dfe.node /\ x.data = dfe.data
        <4> HIDE DEF p, i
        <4> QED BY <1>2, <2>2 DEF HeldElement
      <3>2. /\ BlocksIn(dfeQ)' = BlocksIn(dfeQ) \cup {dfe.node, dfe.data}
            /\ ElementsApart(dfeQ)'
        <4> HIDE DEF x
        <4>1. dfeQ' = Append(dfeQ, x)
          BY <2>2 DEF x
        <4> QED BY <1>6, <3>1, <4>1
      <3> HIDE DEF x, p, i
      <3>3. b \notin live /\ d \notin live /\ b # d /\ b # NoBlock /\ d # NoBlock
        BY <1>1, <2>2 DEF Obtains
      <3>4. BlocksApart'
        BY <1>1, <1>2, <1>3, <1>4, <2>2, <3>2, <3>3 DEF BlocksApart
      <3>5. live' = ({rlcdata', amdPdu', segment', dfe'.node, dfe'.data, raw'.data}
                      \cup BlocksIn(dfeQ)') \ {NoBlock}
        BY <1>1, <1>2, <1>3, <2>2, <3>2, <3>3
      <3> QED BY <3>4, <3>5, OwnedNext
    <2>3. CASE ~PacketEnds(gone)
      <3>1. p.li[i] \in Nat
        <4>1. pkt \in 1 .. Len(Script) /\ pc = "split" /\ Len(dfeQ) \in Nat /\ Len(dfeQ) < Len(p.li)
          BY <1>1, <1>2, <1>7 DEF Base, AmTypeOK, InStep, RlcDecodeAndEnqueueAMSegment
        <4>2. Len(p.li) \in Nat /\ \A j \in 1 .. Len(p.li) : p.li[j] \in Nat
          BY <4>1, PacketFacts
        <4> HIDE DEF p
        <4>3. i \in 1 .. Len(p.li)
          BY <4>1, <4>2
        <4> QED BY <4>2, <4>3
      <3>2. PICK b \in Blocks, d \in Blocks :
                /\ Obtains(b) /\ d \in Blocks \ (live \cup {b})
                /\ live' = live \cup {b, d}
                /\ dfeQ' = Append(dfeQ, [dfe EXCEPT !.size = p.li[i]])
                /\ dfe'.node = b /\ dfe'.data = d
                /\ UNCHANGED <<rlcdata, amdPdu, segment>>
        BY <1>7, <2>3 DEF RlcDecodeAndEnqueueAMSegment
      <3> QED BY <2>2, <3>1, <3>2
    <2> QED BY <2>1, <2>3
  <1>8. CASE Enqueue
    <2>1. /\ dfeQ' = Append(dfeQ, dfe) /\ dfe' = NoDfe
          /\ UNCHANGED <<live, rlcdata, amdPdu, segment>>
      BY <1>8 DEF Enqueue
    <2>2. BlocksIn(dfeQ)' = BlocksIn(dfeQ) \cup {dfe.node, dfe.data} /\ ElementsApart(dfeQ)'
      BY <1>2, <1>6, <2>1
    <2>3. BlocksApart'
      BY <1>1, <1>2, <1>3, <1>4, <1>5, <2>1, <2>2 DEF BlocksApart
    <2>4. live' = ({rlcdata', amdPdu', segment', dfe'.node, dfe'.data, raw'.data}
                    \cup BlocksIn(dfeQ)') \ {NoBlock}
      BY <1>1, <1>2, <1>3, <1>5, <2>1, <2>2
    <2> QED BY <2>3, <2>4, OwnedNext
  <1> QED BY <1>7, <1>8

\* A turn gives back the element, and its data unless the raw SDU takes it over.
LEMMA TurnOwned ==
    ASSUME ~JoinMayFail, NoTinySdus, MemoryInv, RlcReassembleAmdDfeQ
    PROVE  Owned'
  <1> DEFINE cur == Current
             rest == BlocksIn(Tail(dfeQ))
  <1>1. /\ Base /\ Owned /\ QueueInStep /\ SizesInStep /\ InStep /\ BlocksApart
        /\ NoBlock \notin BlocksIn(dfeQ)
        /\ live = ({rlcdata, amdPdu, segment, dfe.node, dfe.data, raw.data}
                   \cup BlocksIn(dfeQ)) \ {NoBlock}
        /\ live \subseteq Blocks /\ NoBlock \notin Blocks
    BY OwnedFacts DEF MemoryInv, Base, Owned
  <1>2. /\ pc = "reassemble" /\ dfeQ # <<>> /\ dfeQ \in Seq(HeldElement)
        /\ cur = dfeQ[1] /\ cur.node \in Blocks /\ cur.data \in Blocks
        /\ dfeQ' = Tail(dfeQ) /\ UNCHANGED <<rlcdata, amdPdu, segment, dfe>>
    <2>1. Len(dfeQ) \in Nat \ {0}
      BY <1>1, TurnQueue
    <2> QED BY <1>1, <2>1, TurnQueue DEF InStep
  <1>3. rlcdata = NoBlock /\ amdPdu \in Blocks /\ segment \in Blocks /\ dfe.node = NoBlock /\ dfe.data = NoBlock
    BY <1>1, <1>2 DEF InStep, NoDfe
  <1>4. cur.size \in Nat /\ cur.size > 0 /\ (cur.status = "FULL" => cur.size > PDCP_HEADER)
    BY <1>1, TurnSize
  <1>5. /\ BlocksIn(dfeQ) = rest \cup {cur.node, cur.data}
        /\ ElementsApart(Tail(dfeQ)) /\ cur.node # cur.data
        /\ cur.node \notin rest /\ cur.data \notin rest
    <2>1. ElementsApart(dfeQ)
      BY <1>1 DEF BlocksApart
    <2>2. BlocksOf(cur) = {cur.node, cur.data}
      BY DEF BlocksOf
    <2>3. /\ BlocksIn(dfeQ) = rest \cup BlocksOf(dfeQ[1])
          /\ ElementsApart(Tail(dfeQ)) /\ dfeQ[1].node # dfeQ[1].data
          /\ BlocksOf(dfeQ[1]) \cap rest = {}
      BY <1>2, <2>1, BlocksOfTail
    <2> HIDE DEF cur, rest
    <2> QED BY <1>2, <2>2, <2>3
  <1>6. BlocksIn(dfeQ)' = rest /\ ElementsApart(dfeQ)'
    <2>1. BlocksIn(dfeQ') = rest /\ ElementsApart(dfeQ')
      BY <1>2, <1>5
    <2> HIDE DEF rest
    <2> QED BY <2>1 DEF BlocksIn, ElementsApart, BlocksOf
  <1>7. raw \in RawType /\ raw.data \in Blocks \cup {NoBlock}
    BY <1>1 DEF Base, AmTypeOK, RawType
  <1> HIDE DEF cur, rest
  <1>8. /\ amdPdu \notin {segment, raw.data, cur.node, cur.data}
        /\ segment \notin {raw.data, cur.node, cur.data}
        /\ raw.data \notin {cur.node, cur.data}
        /\ {amdPdu, segment, raw.data} \cap rest = {} /\ NoBlock \notin rest
    BY <1>1, <1>3, <1>5 DEF BlocksApart
  <1>9. live = {amdPdu, segment, cur.node, cur.data} \cup ({raw.data} \ {NoBlock}) \cup rest
    BY <1>1, <1>2, <1>3, <1>5, <1>8
  <1>10. ASSUME raw'.data = NoBlock \/ raw'.data \notin {amdPdu, segment} \cup rest,
                live' = {amdPdu, segment} \cup ({raw'.data} \ {NoBlock}) \cup rest
         PROVE  Owned'
    <2>1. BlocksApart'
      BY <1>2, <1>3, <1>6, <1>8, <1>10 DEF BlocksApart
    <2>2. live' = ({rlcdata', amdPdu', segment', dfe'.node, dfe'.data, raw'.data}
                    \cup BlocksIn(dfeQ)') \ {NoBlock}
      BY <1>1, <1>2, <1>3, <1>6, <1>8, <1>10
    <2> QED BY <2>1, <2>2, OwnedNext
  <1>11. CASE Dropped
    <2>1. raw' = raw /\ live' = live \ {cur.data, cur.node}
      BY <1>11 DEF Dropped, rawVars, cur
    <2> QED BY <1>5, <1>8, <1>9, <1>10, <2>1
  <1>12. CASE Whole
    <2>1. raw'.data = NoBlock /\ FreedByPdcp(cur.data, cur.size) = {cur.data}
      <3>1. ~(cur.size <= PDCP_HEADER)
        BY <1>4, <1>12 DEF Whole, PDCP_HEADER, cur
      <3> QED BY <1>12, <3>1 DEF Whole, NoRaw, FreedByPdcp
    <2>2. live' = live \ {raw.data, cur.data, cur.node}
      BY <1>12, <2>1 DEF Whole, cur
    <2> QED BY <1>3, <1>5, <1>8, <1>9, <1>10, <2>1, <2>2
  <1>13. CASE Started
    <2>1. raw'.data = cur.data /\ live' = live \ {raw.data, cur.node}
      BY <1>13 DEF Started, SaveSdu, cur
    <2> QED BY <1>1, <1>2, <1>3, <1>5, <1>8, <1>9, <1>10, <2>1
  <1>14. ASSUME raw.data # NoBlock, NEW block \in Blocks, NEW freed, Joins(block, freed)
         PROVE  /\ block \notin freed
                /\ block \notin {amdPdu, segment, cur.node} \cup rest
                /\ (live \cup {block}) \ (freed \cup {cur.node}) = {amdPdu, segment, block} \cup rest
    <2>1. \/ block = raw.data /\ freed = {cur.data}
          \/ block = cur.data /\ freed = {raw.data}
          \/ block \notin live /\ freed = {raw.data, cur.data}
      BY <1>14 DEF Joins, Obtains, cur
    <2>2. block \notin freed /\ block \notin {amdPdu, segment, cur.node} \cup rest
      BY <1>5, <1>8, <1>9, <1>14, <2>1
    <2>3. (live \cup {block}) \ (freed \cup {cur.node}) = {amdPdu, segment, block} \cup rest
      BY <1>5, <1>8, <1>9, <1>14, <2>1
    <2> QED BY <2>2, <2>3
  <1>15. CASE Ended
    <2>1. PICK block \in Blocks, freed \in SUBSET Blocks :
            /\ Joins(block, freed)
            /\ live' = (live \cup {block}) \ (freed \cup FreedByPdcp(block, Joined(block).size)
                                                    \cup {cur.node})
      BY <1>15 DEF Ended, JoinEnd, cur
    <2>2. raw.data # NoBlock /\ raw'.data = NoBlock
      BY <1>15 DEF Ended, JoinEnd, NoRaw
    <2>3. FreedByPdcp(block, Joined(block).size) = {block}
      <3>1. Joined(block).size = raw.size + cur.size /\ raw.size \in Nat
        BY <1>7 DEF Joined, RawType, cur
      <3>2. raw.size > 0
        BY <1>1, <2>2 DEF SizesInStep
      <3>3. ~(Joined(block).size <= PDCP_HEADER)
        BY <1>4, <3>1, <3>2 DEF PDCP_HEADER
      <3> QED BY <3>3 DEF FreedByPdcp
    <2>4. (live \cup {block}) \ (freed \cup {cur.node}) = {amdPdu, segment, block} \cup rest
          /\ block \notin {amdPdu, segment} \cup rest
      BY <1>14, <2>1, <2>2
    <2>5. live' = ((live \cup {block}) \ (freed \cup {cur.node})) \ {block}
      BY <2>1, <2>3
    <2>6. live' = {amdPdu, segment} \cup rest
      BY <2>4, <2>5
    <2> QED BY <1>10, <2>2, <2>6
  <1>16. CASE Continued
    <2>1. PICK block \in Blocks, freed \in SUBSET Blocks :
            /\ Joins(block, freed)
            /\ live' = (live \cup {block}) \ (freed \cup {cur.node}) /\ raw' = Joined(block)
      BY <1>16 DEF Continued, JoinMid, cur
    <2>2. raw.data # NoBlock
      BY <1>16 DEF Continued
    <2>3. raw'.data = block
      BY <1>7, <2>1 DEF Joined, RawType
    <2>4. (live \cup {block}) \ (freed \cup {cur.node}) = {amdPdu, segment, block} \cup rest
          /\ block \notin {amdPdu, segment} \cup rest
      BY <1>14, <2>1, <2>2
    <2>5. block # NoBlock
      BY <1>1
    <2> QED BY <1>10, <2>1, <2>3, <2>4, <2>5
  <1> QED BY <1>1, <1>11, <1>12, <1>13, <1>15, <1>16, TurnOutcomes

\* Every step keeps every block in use reachable, and no other.
LEMMA MemoryNext ==
    ASSUME ~JoinMayFail, NoTinySdus, MemoryInv, [AmNext]_amVars
    PROVE  MemoryInv'
  <1>1. Base /\ QueueInStep /\ SizesInStep /\ Owned /\ InStep
    BY DEF MemoryInv, Base
  <1>2. Base' /\ QueueInStep' /\ SizesInStep'
    BY <1>1, BaseNext, QueueNext, SizesNext
  <1>3. /\ BlocksApart /\ NoBlock \notin BlocksIn(dfeQ)
        /\ live = ({rlcdata, amdPdu, segment, dfe.node, dfe.data, raw.data}
                   \cup BlocksIn(dfeQ)) \ {NoBlock}
    BY <1>1, OwnedFacts DEF Owned
  <1>4. NoDfe.node = NoBlock /\ NoDfe.data = NoBlock /\ NoRaw.data = NoBlock
    BY DEF NoDfe, NoRaw
  <1>5. UNCHANGED dfeQ => BlocksIn(dfeQ)' = BlocksIn(dfeQ) /\ ElementsApart(dfeQ)' = ElementsApart(dfeQ)
    BY DEF BlocksIn, ElementsApart
  <1>6. CASE RlcReassembleRlcSdu
    <2>1. /\ pc = "reassemble" /\ dfeQ = <<>> /\ rlcdata = NoBlock /\ dfe = NoDfe
          /\ amdPdu \in Blocks /\ segment \in Blocks
          /\ PacketEnds({amdPdu, segment}) /\ UNCHANGED rawVars
      BY <1>1, <1>6 DEF RlcReassembleRlcSdu, InStep
    <2>2. amdPdu # NoBlock /\ segment # NoBlock
      BY <1>1, <2>1, TypeFacts DEF Base
    <2>3. raw.data \notin {amdPdu, segment}
      BY <1>3, <2>2 DEF BlocksApart
    <2>4. Owned'
      BY <1>1, <1>4, <2>1, <2>3, NoBlocksIn, PacketEndsOwned
    <2> QED BY <1>2, <2>4 DEF MemoryInv
  <1>7. CASE RlcDeleteRxAmEntity
    <2>1. /\ live' = live \ {raw.data} /\ raw'.data = NoBlock
          /\ UNCHANGED <<rlcdata, amdPdu, segment, dfe, dfeQ>>
      BY <1>4, <1>7 DEF RlcDeleteRxAmEntity, decodeVars
    <2>2. BlocksApart'
      BY <1>3, <1>5, <2>1 DEF BlocksApart
    <2>3. raw.data # NoBlock => raw.data \notin {rlcdata, amdPdu, segment, dfe.node, dfe.data}
                                                \cup BlocksIn(dfeQ)
      BY <1>3 DEF BlocksApart
    <2>4. live' = ({rlcdata', amdPdu', segment', dfe'.node, dfe'.data, raw'.data}
                    \cup BlocksIn(dfeQ)') \ {NoBlock}
      BY <1>3, <1>5, <2>1, <2>3
    <2>5. Owned'
      BY <2>2, <2>4, OwnedNext
    <2> QED BY <1>2, <2>5 DEF MemoryInv
  <1>8. CASE UNCHANGED amVars
    <2>1. UNCHANGED <<live, rlcdata, amdPdu, segment, dfe, dfeQ, raw>>
      BY <1>8 DEF amVars, decodeVars, rawVars
    <2>2. BlocksApart'
      BY <1>3, <1>5, <2>1 DEF BlocksApart
    <2>3. live' = ({rlcdata', amdPdu', segment', dfe'.node, dfe'.data, raw'.data}
                    \cup BlocksIn(dfeQ)') \ {NoBlock}
      BY <1>3, <1>5, <2>1
    <2>4. Owned'
      BY <2>2, <2>3, OwnedNext
    <2> QED BY <1>2, <2>4 DEF MemoryInv
  <1>9. CASE \/ \E k \in 1 .. Len(Script) : Receive(k)
             \/ RlcProcessAMRxPacket \/ RlcProcessAmdPduSegment \/ RlcDecodeAmdPdu \/ FirstDfe
    <2>1. Owned'
      BY <1>1, <1>9, DecodeOwned
    <2> QED BY <1>2, <2>1 DEF MemoryInv
  <1>10. CASE RlcDecodeAndEnqueueAMSegment \/ Enqueue
    <2>1. Owned'
      BY <1>1, <1>10, SplitOwned
    <2> QED BY <1>2, <2>1 DEF MemoryInv
  <1>11. CASE RlcReassembleAmdDfeQ
    BY <1>2, <1>11, TurnOwned DEF MemoryInv
  <1> QED BY <1>6, <1>7, <1>8, <1>9, <1>10, <1>11 DEF AmNext

\* The receiver neither leaks nor uses a block twice: the blocks in use are those its
\* pointers reach, whichever allocation fails and whatever the radio link does, as long
\* as MemJoin finds a block to copy to and no SDU is as short as its header.
THEOREM NoBlockIsLost ==
    ASSUME ~JoinMayFail, NoTinySdus
    PROVE  AmSpec => []MemoryAccounted
  <1>1. AmInit => MemoryInv
    <2> SUFFICES ASSUME AmInit PROVE MemoryInv
      OBVIOUS
    <2>1. /\ pc = "idle" /\ dfeQ = <<>> /\ raw.data = NoBlock /\ live = {}
          /\ rlcdata = NoBlock /\ amdPdu = NoBlock /\ segment = NoBlock
          /\ dfe.node = NoBlock /\ dfe.data = NoBlock
      BY DEF AmInit, NoRaw, NoDfe
    <2>2. QueueInStep /\ SizesInStep
      BY <2>1 DEF QueueInStep, SizesInStep
    <2>3. QueueBlocks = {} /\ BlocksApart
      <3>1. QueueBlocks = BlocksIn(dfeQ)
        BY DEF QueueBlocks, BlocksIn, BlocksOf
      <3> QED BY <2>1, <3>1, NoBlocksIn DEF BlocksApart
    <2>4. Owned
      BY <2>1, <2>3 DEF Owned, Reachable
    <2> QED BY <2>2, <2>4, BaseInit DEF MemoryInv
  <1>2. MemoryInv /\ [AmNext]_amVars => MemoryInv'
    BY MemoryNext
  <1>3. MemoryInv => MemoryAccounted
    BY DEF MemoryInv, Base, Owned, MemoryAccounted
  <1> QED BY <1>1, <1>2, <1>3, PTL DEF AmSpec
=============================================================================
