------------------------------ MODULE MacDemux ------------------------------
(***************************************************************************)
(* How the MAC layer takes an uplink PDU apart (ulp/src/lteMac.c):         *)
(* MacProcessUlSchPdu reads the subheaders and works out the length of     *)
(* each part of the payload, MacDeMultiplexAndSend then walks the parts    *)
(* and copies the SDUs for RRC (CCCH) and RLC (logical channels 1 to 10).  *)
(*                                                                         *)
(* A PDU is its length in bytes and the subheaders the decoder finds when  *)
(* it reads the PDU from the start: every subheader but the last has the   *)
(* extension bit, and an SDU with it has a length field of one or two      *)
(* bytes.  An SDU that was copied is the logical channel, the offset in    *)
(* the PDU and the length.                                                 *)
(***************************************************************************)
EXTENDS Integers, Sequences, SequencesExt

CONSTANTS Pdus,              \* the PDUs that may arrive
          MAX_NUM_CHANNELS,  \* entries of demuxData
          MaxCcchLength,     \* the longest CCCH SDU: 100 in the code
          AllocMayFail       \* MemAlloc may find no block

Sdu == 0 .. 10
CeLength == [l \in 26 .. 30 |-> IF l = 27 THEN 2 ELSE IF l = 30 THEN 3 ELSE 1]
MAC_PADDING_LCH == 31

Subheader == [lcId : 0 .. 31, ext : BOOLEAN, long : BOOLEAN, len : Nat]

ASSUME MacDemuxAssumption ==
    /\ MAX_NUM_CHANNELS \in Nat
    /\ MaxCcchLength \in Nat
    /\ AllocMayFail \in BOOLEAN
    /\ \A p \in Pdus :
        /\ p \in [length : Nat \ {0}, subs : Seq(Subheader) \ {<<>>}]
        /\ \A j \in 1 .. Len(p.subs) : p.subs[j].ext <=> j < Len(p.subs)

VARIABLES phase,       \* where MacProcessUlSchPdu is
          pdu,         \* the PDU in hand
          idx,         \* the subheader, later the entry of demuxData, in hand
          dataPtrPos,  \* the header bytes counted so far
          remaining,   \* remainingPayloadLength
          demux,       \* demuxData: logical channel and length of each part
          dataPtr,     \* pData, then dataPtr_p, as an offset in the PDU
          rlcData,     \* pMacUeDataInd->rlcData: null, or the SDUs for RLC
          toRrc,       \* the SDUs of this PDU that RRC got
          toRlc,       \* the SDUs of this PDU that RLC got
          held         \* the blocks of the demultiplexer that are allocated

vars == <<phase, pdu, idx, dataPtrPos, remaining, demux, dataPtr, rlcData, toRrc, toRlc, held>>
decodeVars == <<dataPtrPos, remaining, demux>>
sendVars == <<rlcData, toRrc, toRlc, held>>

NoPdu == [length |-> 0, subs |-> <<>>]

Init ==
    /\ phase = "idle" /\ pdu = NoPdu /\ idx = 1
    /\ dataPtrPos = 0 /\ remaining = 0 /\ demux = <<>> /\ dataPtr = 0
    /\ rlcData = <<>> /\ toRrc = <<>> /\ toRlc = <<>> /\ held = {}

\* MacProcessUlSchPdu is called for a PDU that is not empty
MacProcessUlSchPdu(p) ==
    /\ phase = "idle"
    /\ phase' = "header"
    /\ pdu' = p
    /\ remaining' = p.length
    /\ UNCHANGED <<idx, dataPtrPos, demux, dataPtr, sendVars>>

\* it returns, and its locals are gone
Return ==
    /\ phase = "done"
    /\ phase' = "idle" /\ pdu' = NoPdu /\ idx' = 1
    /\ dataPtrPos' = 0 /\ remaining' = 0 /\ demux' = <<>> /\ dataPtr' = 0
    /\ rlcData' = <<>> /\ toRrc' = <<>> /\ toRlc' = <<>>
    /\ UNCHANGED held

-----------------------------------------------------------------------------
(***************************************************************************)
(* The subheaders: one turn of the loop each.                              *)
(***************************************************************************)
Current == pdu.subs[idx]

\* successDecodeFlag is FALSE: the PDU is dropped
DecodeFails ==
    /\ phase' = "done"
    /\ UNCHANGED <<pdu, idx, decodeVars, dataPtr, sendVars>>

\* MacCalculateSubHeaderLength
HeaderBytes(s) == IF s.lcId \in Sdu /\ s.ext THEN IF s.long THEN 3 ELSE 2 ELSE 1

\* the end of a turn: on to the next subheader, or to the payload
NextSubheader(counted, left, parts) ==
    /\ dataPtrPos' = counted
    /\ remaining' = left
    /\ demux' = parts
    /\ dataPtr' = dataPtr + HeaderBytes(Current)
    /\ IF Current.ext THEN phase' = phase /\ idx' = idx + 1 ELSE phase' = "send" /\ idx' = 1
    /\ UNCHANGED <<pdu, sendVars>>

\* a part more than demuxData can hold is forgotten
WithPart(length) ==
    IF Len(demux) < MAX_NUM_CHANNELS
    THEN Append(demux, [lchId |-> Current.lcId, length |-> length]) ELSE demux

\* Mutant: the last subheader itself is not counted as header
LocalLength_OffByOne(counted) ==
    IF Current.ext THEN Current.len
    ELSE IF remaining <= counted THEN 0 ELSE remaining - counted + 1

\* MacProcessUlCcchLch and MacProcessMacLcId: the last subheader has no length
\* field, its SDU is all that is left
LocalLength(counted) ==
    IF Current.ext THEN Current.len
    ELSE IF remaining <= counted THEN 0 ELSE remaining - counted

\* Mutant: a stated length is not compared with what is left
ProcessSdu_Trusting ==
    /\ Current.lcId \in Sdu
    /\ LET counted == dataPtrPos + HeaderBytes(Current)
           length == LocalLength(counted)
       IN IF length = 0 \/ (Current.lcId = 0 /\ length > MaxCcchLength)
          THEN DecodeFails
          ELSE NextSubheader(counted, remaining - length, WithPart(length))

ProcessSdu ==
    /\ Current.lcId \in Sdu
    /\ LET counted == dataPtrPos + HeaderBytes(Current)
           length == LocalLength(counted)
       IN IF \/ length = 0
             \/ remaining < length
             \/ Current.lcId = 0 /\ length > MaxCcchLength
          THEN DecodeFails
          ELSE NextSubheader(counted, remaining - length, WithPart(length))

\* Mutant: the subheader is not counted
ProcessControlElement_NotCounted ==
    /\ Current.lcId \in DOMAIN CeLength
    /\ LET length == CeLength[Current.lcId] IN
        IF remaining < length THEN DecodeFails
        ELSE NextSubheader(dataPtrPos, remaining - length, WithPart(length))

\* MacProcessPowerHeadLch, MacProcessCrntiLch, MacProcessShortOrTruncatedBsr,
\* MacProcessLongBsrLch
ProcessControlElement ==
    /\ Current.lcId \in DOMAIN CeLength
    /\ LET length == CeLength[Current.lcId] IN
        IF remaining < length THEN DecodeFails
        ELSE NextSubheader(dataPtrPos + 1, remaining - length, WithPart(length))

\* padding at the start is a subheader only; at the end it is what is left
MacProcessPaddingLch ==
    /\ Current.lcId = MAC_PADDING_LCH
    /\ LET counted == dataPtrPos + 1
           rest == IF remaining > counted THEN remaining - counted ELSE counted - remaining
       IN IF Current.ext THEN NextSubheader(counted, remaining, demux)
          ELSE IF remaining < rest THEN DecodeFails
          ELSE NextSubheader(counted, remaining - rest, demux)

\* an unknown channel is skipped, and its subheader is not counted
InvalidLcId ==
    /\ Current.lcId \notin Sdu \cup DOMAIN CeLength \cup {MAC_PADDING_LCH}
    /\ NextSubheader(dataPtrPos, remaining, demux)

DecodeSubheader ==
    /\ phase = "header"
    /\ ProcessSdu \/ ProcessControlElement \/ MacProcessPaddingLch \/ InvalidLcId

-----------------------------------------------------------------------------
(***************************************************************************)
(* MacDeMultiplexAndSend.                                                  *)
(***************************************************************************)
MacDeMultiplexAndSend ==
    /\ phase = "send"
    /\ \/ phase' = "walk" /\ held' = held \cup {"ind"}
       \/ AllocMayFail /\ phase' = "done" /\ UNCHANGED held
    /\ UNCHANGED <<pdu, idx, decodeVars, dataPtr, rlcData, toRrc, toRlc>>

Part == demux[idx]
Copied == [lcId |-> Part.lchId, from |-> dataPtr, len |-> Part.length]

\* Mutant: the data pointer stays where it is
NextPart_StaysPut ==
    /\ idx' = idx + 1
    /\ UNCHANGED <<phase, pdu, decodeVars, dataPtr>>

\* lcIdSduLen bytes further
NextPart ==
    /\ idx' = idx + 1
    /\ dataPtr' = dataPtr + Part.length
    /\ UNCHANGED <<phase, pdu, decodeVars>>

\* MacUeCcchDataInd gets a copy at once
SendCcch ==
    /\ Part.lchId = 0
    /\ \/ toRrc' = Append(toRrc, Copied)
       \/ AllocMayFail /\ UNCHANGED toRrc
    /\ UNCHANGED <<rlcData, toRlc, held>>

\* MacDemuxOneToTenLchMsg; when there is no memory for the copy the entry of
\* rlcDataArray stays as the allocator left it, with a null buffer
MacDemuxOneToTenLchMsg ==
    /\ Part.lchId \in Sdu \ {0}
    /\ \/ /\ rlcData' = Append(rlcData, Copied)
          /\ held' = held \cup {"rlcData"}
       \/ /\ AllocMayFail
          /\ rlcData' = Append(rlcData, [Copied EXCEPT !.len = 0])
          /\ held' = held \cup {"rlcData"}
       \/ /\ AllocMayFail
          /\ rlcData = <<>>
          /\ UNCHANGED <<rlcData, held>>
    /\ UNCHANGED <<toRrc, toRlc>>

SkipControlElement ==
    /\ Part.lchId \in DOMAIN CeLength
    /\ UNCHANGED sendVars

\* Mutant: the data pointer moves only when the copy was made
SendPart_MovesOnSuccess ==
    /\ phase = "walk"
    /\ idx <= Len(demux)
    /\ SendCcch \/ MacDemuxOneToTenLchMsg \/ SkipControlElement
    /\ idx' = idx + 1
    /\ dataPtr' = IF Part.lchId \in Sdu /\ Copied \notin ToSet(toRrc') \cup ToSet(rlcData')
                  THEN dataPtr ELSE dataPtr + Part.length
    /\ UNCHANGED <<phase, pdu, decodeVars>>

SendPart ==
    /\ phase = "walk"
    /\ idx <= Len(demux)
    /\ SendCcch \/ MacDemuxOneToTenLchMsg \/ SkipControlElement
    /\ NextPart

\* Mutant: the list of SDUs is not freed
MacUeDataInd_Leaks ==
    /\ phase = "walk"
    /\ idx > Len(demux)
    /\ toRlc' = rlcData
    /\ held' = held \ {"ind"}
    /\ rlcData' = <<>>
    /\ phase' = "done"
    /\ UNCHANGED <<pdu, idx, decodeVars, dataPtr, toRrc>>

\* MacUeDataInd hands the SDUs to RLC and frees the two blocks
MacUeDataInd ==
    /\ phase = "walk"
    /\ idx > Len(demux)
    /\ toRlc' = rlcData
    /\ held' = held \ {"ind", "rlcData"}
    /\ rlcData' = <<>>
    /\ phase' = "done"
    /\ UNCHANGED <<pdu, idx, decodeVars, dataPtr, toRrc>>

Next ==
    \/ \E p \in Pdus : MacProcessUlSchPdu(p)
    \/ DecodeSubheader
    \/ MacDeMultiplexAndSend
    \/ SendPart
    \/ MacUeDataInd
    \/ Return

Spec == Init /\ [][Next]_vars
-----------------------------------------------------------------------------
(***************************************************************************)
(* What a UE that builds a PDU by 3GPP TS 36.321 (section 6.1.2) means.    *)
(***************************************************************************)
\* Sums(s)[j] is the sum of the first j numbers of s
Sums(s) ==
    LET sum[j \in 0 .. Len(s)] == IF j = 0 THEN 0 ELSE sum[j - 1] + s[j] IN sum

Total(s) == Sums(s)[Len(s)]

HeaderSizes(p) == [j \in 1 .. Len(p.subs) |-> HeaderBytes(p.subs[j])]
HeaderLength(p) == Total(HeaderSizes(p))

\* the payload bytes of the subheaders, except for a last SDU or padding
Stated(p) ==
    [j \in 1 .. Len(p.subs) |->
        LET s == p.subs[j] IN
        IF s.lcId \in Sdu /\ s.ext THEN s.len
        ELSE IF s.lcId \in DOMAIN CeLength THEN CeLength[s.lcId] ELSE 0]

\* what a last SDU or last padding gets
Left(p) == p.length - HeaderLength(p) - Total(Stated(p))

Payload(p) ==
    [j \in 1 .. Len(p.subs) |->
        IF j = Len(p.subs) /\ p.subs[j].lcId \in Sdu THEN Left(p) ELSE Stated(p)[j]]

\* the part of subheader j: the channel, where it starts and how long it is
Layout(p, j) ==
    [lcId |-> p.subs[j].lcId, from |-> HeaderLength(p) + Sums(Payload(p))[j - 1], len |-> Payload(p)[j]]

Defined(p) ==
    \A j \in 1 .. Len(p.subs) :
        p.subs[j].lcId \in Sdu \cup DOMAIN CeLength \cup {MAC_PADDING_LCH}

\* only channels that exist, no empty SDU, and the lengths add up
WellFormed(p) ==
    LET last == p.subs[Len(p.subs)].lcId IN
    /\ Defined(p)
    /\ \A j \in 1 .. Len(p.subs) : p.subs[j].lcId \in Sdu => Payload(p)[j] > 0
    /\ IF last \in Sdu THEN Left(p) > 0
       ELSE IF last = MAC_PADDING_LCH THEN Left(p) >= 0 ELSE Left(p) = 0

Refusable(p) ==
    \E j \in 1 .. Len(p.subs) : p.subs[j].lcId = 0 /\ Payload(p)[j] > MaxCcchLength

\* the parts that are not padding are counted
IsPart(p) == [j \in 1 .. Len(p.subs) |-> IF p.subs[j].lcId = MAC_PADDING_LCH THEN 0 ELSE 1]
Rank(p) == Sums(IsPart(p))

\* of the first n parts, the SDUs of these channels
FirstSdus(p, channels, n) ==
    {Layout(p, j) : j \in {k \in 1 .. Len(p.subs) : p.subs[k].lcId \in channels /\ Rank(p)[k] <= n}}

\* what demuxData has room for
Expected(p, channels) == FirstSdus(p, channels, MAX_NUM_CHANNELS)

\* the entries that have a buffer
Present(got) == {s \in ToSet(got) : s.len > 0}

\* one after the other in the PDU
InOrder(got) ==
    \A j, k \in 1 .. Len(got) : j < k => got[j].from + got[j].len <= got[k].from

\* all that was sent, or when memory may be short some of it, in the same order
AsSent(got, sent) ==
    /\ Present(got) \subseteq sent
    /\ InOrder(got)
    /\ AllocMayFail \/ Present(got) = sent

Received == [lcId : Sdu, from : Nat, len : Nat]

\* Every variable has its type.
TypeOK ==
    /\ phase \in {"idle", "header", "send", "walk", "done"}
    /\ pdu \in [length : Nat, subs : Seq(Subheader)]
    /\ idx \in 1 .. Len(pdu.subs) + 1
    /\ dataPtrPos \in Nat
    /\ remaining \in Nat
    /\ demux \in Seq([lchId : 0 .. 30, length : Nat \ {0}])
    /\ Len(demux) <= MAX_NUM_CHANNELS
    /\ dataPtr \in Nat
    /\ rlcData \in Seq(Received) /\ toRrc \in Seq(Received) /\ toRlc \in Seq(Received)
    /\ held \subseteq {"ind", "rlcData"}

\* what was copied out of the PDU so far
Copies == Present(toRrc) \cup Present(rlcData) \cup Present(toRlc)

\* SdusAsSent: RRC and RLC get from a PDU that a UE built by the rules exactly
\* the SDUs the UE put into it, each with its own bytes and in its order, unless a
\* CCCH SDU is too long or memory is short; the length of the last one, which no
\* subheader states, is worked out from two counters kept over the whole header.
SdusAsSent ==
    phase = "done" /\ WellFormed(pdu) =>
        IF Refusable(pdu) THEN toRrc = <<>> /\ toRlc = <<>>
        ELSE AsSent(toRrc, Expected(pdu, {0})) /\ AsSent(toRlc, Expected(pdu, Sdu \ {0}))

\* CopiesStayInside: whatever lengths the subheaders state, the bytes copied out of
\* a PDU whose last subheader is an SDU lie inside the PDU, although the stated
\* lengths are compared with a remainder that still contains the header.
CopiesStayInside ==
    /\ TypeOK
    /\ \A s \in Copies :
        pdu.subs[Len(pdu.subs)].lcId \in Sdu /\ Defined(pdu) => s.from + s.len <= pdu.length

\* CopiesAreDisjoint: no byte of a PDU goes to two SDUs, and none of the header
\* goes to an SDU, for any sequence of subheaders, and each layer gets its SDUs in
\* the order of the PDU.
CopiesAreDisjoint ==
    /\ InOrder(toRrc) /\ InOrder(rlcData) /\ InOrder(toRlc)
    /\ \A s \in Present(toRrc), t \in Present(rlcData) \cup Present(toRlc) :
        s.from + s.len <= t.from \/ t.from + t.len <= s.from
    /\ \A s \in Copies : s.from >= HeaderLength(pdu)

\* BlocksComeBack: the two blocks of the demultiplexer are free again when it has
\* finished with a PDU, whichever allocation failed on the way.
BlocksComeBack == phase # "walk" => held = {}
=============================================================================
