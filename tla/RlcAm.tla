-------------------------------- MODULE RlcAm --------------------------------
(***************************************************************************)
(* The receiving side of one RLC acknowledged-mode entity (ulp/src/        *)
(* lteRlc.c): a packet from MAC is decoded into an AMD PDU, a segment and a *)
(* queue of data field elements (DFEs), and the elements are put together  *)
(* to SDUs, which go to PDCP.                                              *)
(*                                                                         *)
(* The program only listens: it can ask for nothing, so a packet may be    *)
(* missed, seen twice (HARQ and ARQ retransmissions) or out of order.      *)
(* Receive(k) therefore takes any packet of the UE's Script at any time.   *)
(*                                                                         *)
(* Every block the entity allocates has a name, so that a leak, a double   *)
(* use and a dangling pointer are visible.  Any allocation may fail, since *)
(* the other threads share the pools; each one is a step of its own.       *)
(***************************************************************************)
EXTENDS Integers, Sequences, FiniteSets

CONSTANTS Script,                \* the packets the UE sends, in order
          Redelivered,           \* which of them the radio link may repeat at any time
          SN_MODULUS,            \* the sequence numbers: 1024 in the code
          MAX_RLC_SEGMENTS_NUM,  \* capacity of ulRptInfoList
          NumBlocks,             \* blocks of the pools left to this entity
          MacKnown,              \* the answers MacGetUeContext may give
          JoinMayFail            \* MemJoin may find no block to copy to

ASSUME RlcAmAssumption ==
    /\ SN_MODULUS \in Nat \ {0}
    /\ MAX_RLC_SEGMENTS_NUM \in Nat \ {0}
    /\ NumBlocks \in Nat
    /\ MacKnown \subseteq BOOLEAN
    /\ JoinMayFail \in BOOLEAN
    /\ Script \in Seq([kind : STRING, fi : 0 .. 3, li : Seq(Nat), size : Nat,
                       frag : Seq([sdu : Nat, part : Nat, last : BOOLEAN])])
    \* n length indicators make n + 1 elements
    /\ \A k \in 1 .. Len(Script) :
        Script[k].kind = "data" => Len(Script[k].frag) = Len(Script[k].li) + 1
    /\ Redelivered \subseteq 1 .. Len(Script)

Blocks == 1 .. NumBlocks
NoBlock == 0

VARIABLES pc,         \* where RlcProcessAMRxPacket is
          pkt,        \* the packet in hand, an index of Script
          received,   \* the packets received so far
          live,       \* the blocks allocated
          rlcdata,    \* pRlcDataInfo->rlcdataBuffer
          amdPdu,     \* the AmdPdu block
          segment,    \* the AmdPduSegment block
          dfe,        \* the AmdDFE being split: block, data, size, status, frag
          dfeQ,       \* the segment's queue of elements
          raw,        \* rxRawSdu: data, sn, size, its fragments and the packet it reaches to
          rptCount,   \* ulRptInfoList.count
          delivered   \* the SDU that went to PDCP last: its fragments, its report list's count

decodeVars == <<rlcdata, amdPdu, segment, dfe, dfeQ>>
rawVars == <<raw, rptCount, delivered>>
amVars == <<pc, pkt, received, live, decodeVars, rawVars>>

NoDfe == [node |-> NoBlock, data |-> NoBlock, size |-> 0, status |-> "FULL",
          frag |-> [sdu |-> 0, part |-> 0, last |-> FALSE]]
\* rawSdu.pData is null; the code leaves sn as it was and reads it no more
NoRaw == [data |-> NoBlock, sn |-> 0, size |-> 0, frags |-> <<>>, upTo |-> 0]

Sn(k) == k % SN_MODULUS
isSNEqual(x, y) == x % SN_MODULUS = y % SN_MODULUS

AmInit ==
    /\ pc = "idle" /\ pkt = 0 /\ received = {}
    /\ live = {}
    /\ rlcdata = NoBlock /\ amdPdu = NoBlock /\ segment = NoBlock
    /\ dfe = NoDfe /\ dfeQ = <<>>
    /\ raw = NoRaw
    /\ rptCount = 0
    /\ delivered = [frags |-> <<>>, reports |-> 0]

\* MemAlloc, as this entity sees it: a free block or nothing
Obtains(b) == b \in Blocks \ live /\ \A c \in Blocks \ live : b <= c

-----------------------------------------------------------------------------
(***************************************************************************)
(* From the packet to the queue of elements.                               *)
(***************************************************************************)
\* A new packet, or one the link repeats; a gap or a repetition never spans the
\* whole space of sequence numbers.
InWindow(k) ==
    /\ k \notin received \/ k \in Redelivered
    /\ raw.data # NoBlock => k - raw.upTo \in (2 - SN_MODULUS) .. (SN_MODULUS - 1)

\* MAC hands over a buffer of its own for each packet
Receive(k) ==
    /\ pc = "idle"
    /\ InWindow(k)
    /\ \E b \in Blocks :
        /\ Obtains(b)
        /\ live' = live \cup {b}
        /\ rlcdata' = b
    /\ pkt' = k
    /\ received' = received \cup {k}
    /\ pc' = "header"
    /\ UNCHANGED <<amdPdu, segment, dfe, dfeQ, rawVars>>

\* the packet is over: nothing of it is referenced any more
PacketEnds(freed) ==
    /\ live' = live \ freed
    /\ pc' = "idle" /\ pkt' = 0
    /\ rlcdata' = NoBlock /\ amdPdu' = NoBlock /\ segment' = NoBlock
    /\ dfe' = NoDfe /\ dfeQ' = <<>>
    /\ UNCHANGED received

\* RlcDeleteAmdPduSegment: the elements in the queue with their data
QueueBlocks == UNION {{dfeQ[i].node, dfeQ[i].data} : i \in 1 .. Len(dfeQ)}

\* RlcProcessAMRxPacket up to the AmdPdu: too short, a status PDU, or no memory
\* for the UE context, the entity or the AmdPdu
RlcProcessAMRxPacket ==
    /\ pc = "header"
    /\ \/ PacketEnds({rlcdata})
       \/ \E b \in Blocks :
           /\ Script[pkt].kind \notin {"short", "status"}
           /\ Obtains(b)
           /\ live' = live \cup {b}
           /\ amdPdu' = b
           /\ pc' = "decode"
           /\ UNCHANGED <<pkt, received, rlcdata, segment, dfe, dfeQ>>
    /\ UNCHANGED rawVars

\* Mutant: the packet's buffer is not freed
RlcProcessAmdPduSegment_Leaks ==
    /\ pc = "decode"
    /\ Script[pkt].kind = "segment"
    /\ PacketEnds({amdPdu})
    /\ UNCHANGED rawVars

\* rf = 1: a re-segmented PDU is not supported and dropped
RlcProcessAmdPduSegment ==
    /\ pc = "decode"
    /\ Script[pkt].kind = "segment"
    /\ PacketEnds({rlcdata, amdPdu})
    /\ UNCHANGED rawVars

\* RlcDecodeAmdPdu: the AmdPduSegment
RlcDecodeAmdPdu ==
    /\ pc = "decode"
    /\ Script[pkt].kind = "data"
    /\ \/ PacketEnds({rlcdata, amdPdu})
       \/ \E b \in Blocks :
           /\ Obtains(b)
           /\ live' = live \cup {b}
           /\ segment' = b
           /\ pc' = "first"
           /\ UNCHANGED <<pkt, received, rlcdata, amdPdu, dfe, dfeQ>>
    /\ UNCHANGED rawVars

\* the status of the first element: RlcSetAmdPduAndDfeStatus without length
\* indicators, the upper bit of fi with them
FirstStatus(p) ==
    LET statusOfFi == <<"FULL", "START", "END", "MID">> IN
    IF p.li = <<>> THEN statusOfFi[p.fi + 1]
    ELSE IF p.fi \in {2, 3} THEN "END" ELSE "FULL"

LastStatus(p) == IF p.fi \in {1, 3} THEN "START" ELSE "FULL"

\* RlcGetConcatenationHeaderInfo refuses a length indicator of 0
HeaderIsValid(p) == \A i \in 1 .. Len(p.li) : p.li[i] # 0

\* the first AmdDFE takes over the packet's buffer
FirstDfe ==
    /\ pc = "first"
    /\ LET p == Script[pkt] IN
        \/ PacketEnds({rlcdata, amdPdu, segment})
        \/ \E b \in Blocks :
            /\ HeaderIsValid(p)
            /\ Obtains(b)
            /\ live' = live \cup {b}
            /\ dfe' = [node |-> b, data |-> rlcdata, size |-> p.size,
                       status |-> FirstStatus(p), frag |-> p.frag[1]]
            /\ rlcdata' = NoBlock
            /\ pc' = IF p.li = <<>> THEN "enqueue" ELSE "split"
            /\ UNCHANGED <<pkt, received, amdPdu, segment, dfeQ>>
    /\ UNCHANGED rawVars

\* RlcDecodeAndEnqueueAMSegment, one turn of its loop: the element is cut at the
\* length indicator and the rest copied to a new element
RlcDecodeAndEnqueueAMSegment ==
    /\ pc = "split"
    /\ LET p == Script[pkt]
           i == Len(dfeQ) + 1
       IN
        \/ PacketEnds({dfe.node, dfe.data, amdPdu, segment} \cup QueueBlocks)
        \/ \E b, d \in Blocks :
            /\ p.li[i] <= dfe.size
            /\ Obtains(b)
            /\ d \in Blocks \ (live \cup {b})
            /\ \A c \in Blocks \ (live \cup {b}) : d <= c
            /\ live' = live \cup {b, d}
            /\ dfeQ' = Append(dfeQ, [dfe EXCEPT !.size = p.li[i]])
            /\ dfe' = [node |-> b, data |-> d, size |-> dfe.size - p.li[i],
                       status |-> IF i = Len(p.li) THEN LastStatus(p) ELSE "FULL",
                       frag |-> p.frag[i + 1]]
            /\ pc' = IF i = Len(p.li) THEN "enqueue" ELSE "split"
            /\ UNCHANGED <<pkt, received, rlcdata, amdPdu, segment>>
    /\ UNCHANGED rawVars

\* the last element joins the queue, the PDU is complete and its ring slot ready
Enqueue ==
    /\ pc = "enqueue"
    /\ dfeQ' = Append(dfeQ, dfe)
    /\ dfe' = NoDfe
    /\ pc' = "reassemble"
    /\ UNCHANGED <<pkt, received, live, rlcdata, amdPdu, segment, rawVars>>

-----------------------------------------------------------------------------
(***************************************************************************)
(* From the elements to SDUs.  Each operator below says what becomes of    *)
(* the element at the head of the queue: the entity's rawSdu, the blocks   *)
(* given back, the report list and what PDCP gets.                         *)
(***************************************************************************)
Current == Head(dfeQ)

\* the PDCP header of a signalling radio bearer
PDCP_HEADER == 1

\* RlcUeDataInd returns at once when the SDU is empty, and PdcpUeSrbDataInd when
\* nothing is left behind the PDCP header; otherwise RRC frees the buffer
FreedByPdcp(data, size) == IF size <= PDCP_HEADER THEN {} ELSE {data}

\* the blocks left after the element itself is freed
Frees(blocks) == live' = live \ (blocks \cup {Current.node})

Deliver(frags, reports) ==
    /\ delivered' = [frags |-> frags, reports |-> reports]
    /\ rptCount' = 0

\* Mutant: the list takes one entry more than it has room for
OneMoreReport_OffByOne(known) ==
    IF known /\ rptCount <= MAX_RLC_SEGMENTS_NUM THEN rptCount + 1 ELSE rptCount

\* ulRptInfoList gets an entry more if MAC knows the UE and there is room
OneMoreReport(known) ==
    IF known /\ rptCount < MAX_RLC_SEGMENTS_NUM THEN rptCount + 1 ELSE rptCount

\* Mutant: the list of the SDU that was discarded goes on
FirstReport_GoesOn(known) == OneMoreReport(known)

\* ulRptInfoList starts anew if MAC knows the UE
FirstReport(known) == IF known THEN 1 ELSE rptCount

SaveSdu(cur) == raw' = [data |-> cur.data, sn |-> Sn(pkt), size |-> cur.size,
                        frags |-> <<cur.frag>>, upTo |-> pkt]

\* Mutant: a dropped element's data is not freed
DropElement_Leaks ==
    /\ Frees({})
    /\ UNCHANGED rawVars

DropElement ==
    /\ Frees({Current.data})
    /\ UNCHANGED rawVars

\* RlcReassembleFirstSduSegment, after the blocks in discard were freed
FirstSduSegment(discard) ==
    LET cur == Current IN
    \/ /\ cur.status = "FULL"
       /\ raw' = NoRaw
       /\ \E known \in MacKnown : Deliver(<<cur.frag>>, FirstReport(known))
       /\ Frees(discard \cup FreedByPdcp(cur.data, cur.size))
    \/ /\ cur.status = "START"
       /\ SaveSdu(cur)
       /\ \E known \in MacKnown : rptCount' = FirstReport(known)
       /\ Frees(discard)
       /\ UNCHANGED delivered
    \/ /\ cur.status \in {"END", "MID"}
       /\ Frees(discard \cup {cur.data})
       /\ UNCHANGED rawVars

\* MemJoin(raw.data, cur.data): the block that holds both, and the blocks it freed
Joins(block, freed) ==
    \/ block = raw.data /\ freed = {Current.data}
    \/ block = Current.data /\ freed = {raw.data}
    \/ Obtains(block) /\ freed = {raw.data, Current.data}

Joined(block) == [raw EXCEPT !.data = block, !.sn = Sn(pkt), !.size = @ + Current.size,
                             !.frags = Append(@, Current.frag), !.upTo = pkt]

\* MemJoin gave up both buffers, and rawSdu still points to the first
JoinFails ==
    /\ JoinMayFail
    /\ Frees({raw.data, Current.data})
    /\ UNCHANGED rawVars

JoinEnd ==
    \E block \in Blocks, freed \in SUBSET Blocks :
        /\ Joins(block, freed)
        /\ LET sdu == Joined(block) IN
            /\ live' = (live \cup {block})
                       \ (freed \cup FreedByPdcp(block, sdu.size) \cup {Current.node})
            /\ \E known \in MacKnown : Deliver(sdu.frags, OneMoreReport(known))
        /\ raw' = NoRaw

JoinMid ==
    \E block \in Blocks, freed \in SUBSET Blocks :
        /\ Joins(block, freed)
        /\ live' = (live \cup {block}) \ (freed \cup {Current.node})
        /\ raw' = Joined(block)
        /\ \E known \in MacKnown : rptCount' = OneMoreReport(known)
        /\ UNCHANGED delivered

\* RlcReassembleInCmpAMSdu, sn follows or repeats the one of the raw SDU
InSequence ==
    LET cur == Current IN
    \/ cur.status = "END" /\ (JoinEnd \/ JoinFails)
    \/ cur.status = "MID" /\ ~isSNEqual(pkt, raw.sn) /\ (JoinMid \/ JoinFails)
    \/ cur.status = "MID" /\ isSNEqual(pkt, raw.sn) /\ DropElement
    \/ cur.status = "FULL" /\ FirstSduSegment({raw.data})
    \/ /\ cur.status = "START"
       /\ SaveSdu(cur)
       /\ Frees({raw.data})
       /\ UNCHANGED <<rptCount, delivered>>

\* the sequence number neither follows nor repeats it
OutOfSequence ==
    \/ Current.status \in {"FULL", "START"} /\ FirstSduSegment({raw.data})
    \/ Current.status \in {"END", "MID"} /\ DropElement

\* Mutant: the sequence number is not looked at
RlcReassembleInCmpAMSdu_AnySn ==
    /\ raw.data # NoBlock
    /\ InSequence

RlcReassembleInCmpAMSdu ==
    /\ raw.data # NoBlock
    /\ IF isSNEqual(pkt, raw.sn + 1) \/ isSNEqual(pkt, raw.sn) THEN InSequence ELSE OutOfSequence

RlcReassembleFirstSduSegment ==
    /\ raw.data = NoBlock
    /\ FirstSduSegment({})

\* RlcReassembleAmdDfeQ, one turn of its loop
RlcReassembleAmdDfeQ ==
    /\ pc = "reassemble"
    /\ dfeQ # <<>>
    /\ RlcReassembleInCmpAMSdu \/ RlcReassembleFirstSduSegment
    /\ dfeQ' = Tail(dfeQ)
    /\ UNCHANGED <<pc, pkt, received, rlcdata, amdPdu, segment, dfe>>

\* RlcReassembleRlcSdu: the segment and the PDU go, the ring slot is free again
RlcReassembleRlcSdu ==
    /\ pc = "reassemble"
    /\ dfeQ = <<>>
    /\ PacketEnds({amdPdu, segment})
    /\ UNCHANGED rawVars

\* RlcDeleteRxAmEntity, by the resource cleaner between two packets, and the
\* new, empty entity of the same UE
RlcDeleteRxAmEntity ==
    /\ pc = "idle"
    /\ raw.data # NoBlock
    /\ live' = live \ {raw.data}
    /\ raw' = NoRaw
    /\ rptCount' = 0
    /\ UNCHANGED <<pc, pkt, received, decodeVars, delivered>>

AmNext ==
    \/ \E k \in 1 .. Len(Script) : Receive(k)
    \/ RlcProcessAMRxPacket
    \/ RlcProcessAmdPduSegment
    \/ RlcDecodeAmdPdu
    \/ FirstDfe
    \/ RlcDecodeAndEnqueueAMSegment
    \/ Enqueue
    \/ RlcReassembleAmdDfeQ
    \/ RlcReassembleRlcSdu
    \/ RlcDeleteRxAmEntity

AmSpec == AmInit /\ [][AmNext]_amVars
-----------------------------------------------------------------------------
(***************************************************************************)
(* What the UE sends.                                                      *)
(***************************************************************************)
Elements(p) == 1 .. Len(p.li) + 1

\* the status and the size that the j-th element of p has by its header
StatusOf(p, j) ==
    IF j = 1 THEN FirstStatus(p) ELSE IF j = Len(p.li) + 1 THEN LastStatus(p) ELSE "FULL"

\* the bytes of the elements up to the j-th, as the length indicators give them
Taken(p, j) ==
    LET sum[i \in 0 .. Len(p.li)] == IF i = 0 THEN 0 ELSE sum[i - 1] + p.li[i] IN sum[j]

SizeOf(p, j) == IF j <= Len(p.li) THEN p.li[j] ELSE p.size - Taken(p, Len(p.li))

\* SentInOrder: the UE cuts its SDUs and packs the parts by the standard: the
\* framing info and the length indicators tell where an SDU begins and ends, and
\* a packet goes on where the one before it stopped.
SentInOrder ==
    \A k \in 1 .. Len(Script) : Script[k].kind = "data" =>
        /\ \A j \in Elements(Script[k]) :
            /\ Script[k].frag[j].part = 1 <=> StatusOf(Script[k], j) \in {"FULL", "START"}
            /\ Script[k].frag[j].last <=> StatusOf(Script[k], j) \in {"FULL", "END"}
        /\ LET stop == Script[k].frag[Len(Script[k].frag)] IN
            k < Len(Script) /\ Script[k + 1].kind = "data" /\ ~stop.last =>
                /\ Script[k + 1].frag[1].sdu = stop.sdu
                /\ Script[k + 1].frag[1].part = stop.part + 1

\* NoTinySdus: in a packet that the decoder accepts no element is empty, and no
\* whole SDU is only a PDCP header.
NoTinySdus ==
    \A k \in 1 .. Len(Script) :
        LET p == Script[k] IN
        p.kind = "data" /\ HeaderIsValid(p) /\ Taken(p, Len(p.li)) <= p.size =>
            \A j \in Elements(p) :
                SizeOf(p, j) > IF StatusOf(p, j) = "FULL" THEN PDCP_HEADER ELSE 0

\* a packet that ends one SDU and starts another is joined to itself when repeated
SafeToRepeat(p) ==
    p.kind = "data" /\ p.li # <<>> => ~(FirstStatus(p) = "END" /\ LastStatus(p) = "START")

Fragment == [sdu : Nat, part : Nat, last : BOOLEAN]
Element == [node : Blocks \cup {NoBlock}, data : Blocks \cup {NoBlock}, size : Nat,
            status : {"FULL", "START", "END", "MID"}, frag : Fragment]

\* Every variable has its type.
AmTypeOK ==
    /\ pc \in {"idle", "header", "decode", "first", "split", "enqueue", "reassemble"}
    /\ pkt \in 0 .. Len(Script)
    /\ received \subseteq 1 .. Len(Script)
    /\ live \subseteq Blocks
    /\ {rlcdata, amdPdu, segment} \subseteq Blocks \cup {NoBlock}
    /\ dfe \in Element
    /\ dfeQ \in Seq(Element)
    /\ raw \in [data : Blocks \cup {NoBlock}, sn : 0 .. SN_MODULUS - 1, size : Nat,
                frags : Seq(Fragment), upTo : Nat]
    /\ rptCount \in 0 .. MAX_RLC_SEGMENTS_NUM
    /\ delivered \in [frags : Seq(Fragment), reports : 0 .. MAX_RLC_SEGMENTS_NUM]

\* the blocks some pointer of the entity or of the packet in hand leads to
Reachable ==
    ({rlcdata, amdPdu, segment, dfe.node, dfe.data, raw.data} \cup QueueBlocks) \ {NoBlock}

\* MemoryAccounted: the blocks in use are exactly those the code can still reach,
\* whichever allocation fails, whatever the header says and however segments are
\* lost or repeated: nothing leaks and no pointer outlives its block.  The unit
\* tests of RLC count gLteKpi.mem after every packet to the same end.
MemoryAccounted == AmTypeOK /\ live = Reachable

\* the fragments of one SDU, from the first on and without a gap
Genuine(frags) == \A i \in 1 .. Len(frags) : frags[i].sdu = frags[1].sdu /\ frags[i].part = i

\* GenuineSdus: what PDCP gets is a whole SDU as the UE sent it, all its
\* fragments in order and nothing else, although RLC sees segments that are
\* missing, late, repeated or out of order ("might be retransmit segment, drop
\* it").
GenuineSdus ==
    LET frags == delivered.frags IN
    frags # <<>> => Genuine(frags) /\ frags[Len(frags)].last

Capped(n) == IF n < MAX_RLC_SEGMENTS_NUM THEN n ELSE MAX_RLC_SEGMENTS_NUM

\* ReportsMatchSegments: the report list that goes up with an SDU has one entry
\* (power, timing advance) for each segment of that SDU, up to its capacity, as
\* long as MAC knows the UE: no entry survives from an SDU that was discarded.
ReportsMatchSegments == MacKnown = {TRUE} => delivered.reports = Capped(Len(delivered.frags))
=============================================================================
