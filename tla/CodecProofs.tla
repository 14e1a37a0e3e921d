---------------------------- MODULE CodecProofs ----------------------------
(***************************************************************************)
(* Proofs about what is read bit by bit or byte by byte.  Three codecs are *)
(* pure functions: the resource indication values of ulp/src/dci0.c and    *)
(* the RRC and NAS decoders of ulp/src/asn1Lib.c.  The fourth decoder, the *)
(* MAC demultiplexer of ulp/src/lteMac.c, goes through a PDU step by step. *)
(***************************************************************************)
EXTENDS Dci0, RrcCodec, NasCodec, MacDemux, CollectionLemmas

-----------------------------------------------------------------------------
(***************************************************************************)
(* What the RIV functions of ulp/src/dci0.c compute, for every range of    *)
(* every bandwidth.                                                        *)
(***************************************************************************)
\* Euclid's division of a number that is given by quotient and remainder.
LEMMA DivMod ==
    ASSUME NEW b \in Nat \ {0}, NEW q \in Nat, NEW r \in 0 .. b - 1
    PROVE  (q * b + r) \div b = q /\ (q * b + r) % b = r
BY SMTT(30)

\* A value below 256 survives the cast to unsigned char.
LEMMA FitsUInt8 ==
    ASSUME NEW v \in 0 .. 255
    PROVE  UInt8(v) = v
BY DEF UInt8

\* Reading a RIV that is given by quotient and remainder.
LEMMA ReadParts ==
    ASSUME NEW bw \in 1 .. MaxBandwidth, NEW q \in 0 .. 254, NEW r \in 0 .. bw - 1
    PROVE  Read(bw, q * bw + r) = [rbStart |-> r, numOfRb |-> q + 1]
<1>1. (q * bw + r) \div bw = q /\ (q * bw + r) % bw = r
    BY DivMod DEF MaxBandwidth
<1>2. UInt8(r) = r /\ UInt8(q + 1) = q + 1
    BY FitsUInt8 DEF MaxBandwidth
<1>. QED
    BY <1>1, <1>2 DEF Read

\* The same for a number of resource blocks and an expression of the RIV.
LEMMA ReadRange ==
    ASSUME NEW bw \in 1 .. MaxBandwidth, NEW num \in 1 .. 255, NEW r \in 0 .. bw - 1,
           NEW riv, riv = (num - 1) * bw + r
    PROVE  Read(bw, riv) = [rbStart |-> r, numOfRb |-> num]
<1>. DEFINE q == num - 1
<1>1. q \in 0 .. 254 /\ q + 1 = num
    OBVIOUS
<1>2. riv = q * bw + r
    OBVIOUS
<1>. HIDE DEF q
<1>3. Read(bw, q * bw + r) = [rbStart |-> r, numOfRb |-> q + 1]
    BY <1>1, ReadParts
<1>. QED
    BY <1>1, <1>2, <1>3

\* The first reading of a long range is not a range, and the distance to tmp is the
\* short form of the range.
LEMMA LongForm ==
    ASSUME NEW bw \in 1 .. MaxBandwidth, NEW start \in 0 .. bw - 1, NEW num \in 1 .. bw - start
    PROVE  bw * bw + bw - 1 - ((bw - num + 1) * bw + (bw - 1 - start)) = (num - 1) * bw + start
BY SMTT(30) DEF MaxBandwidth

\* ReadsWhatWasCoded: calcRbByRiv is the inverse of calcRivByRb for every range that
\* ends before the last resource block of the carrier or takes more than half of it.
ReadsWhatWasCoded ==
    \A bw \in 1 .. MaxBandwidth, start, num \in Nat :
        IsRange(bw, start, num) /\ (start + num < bw \/ num - 1 > bw \div 2)
            => calcRbByRiv(bw, calcRivByRb(bw, start, num))
                   = [rbStart |-> start, numOfRb |-> num]

THEOREM RivIsRead == ReadsWhatWasCoded
<1>. SUFFICES ASSUME NEW bw \in 1 .. MaxBandwidth, NEW start \in Nat, NEW num \in Nat,
                     IsRange(bw, start, num), start + num < bw \/ num - 1 > bw \div 2
              PROVE  calcRbByRiv(bw, calcRivByRb(bw, start, num))
                         = [rbStart |-> start, numOfRb |-> num]
    BY DEF ReadsWhatWasCoded
<1>1. bw \in Nat \ {0} /\ start \in 0 .. bw - 1 /\ num \in 1 .. bw - start /\ num \in 1 .. 255
    BY DEF MaxBandwidth, IsRange
<1>2. Read(bw, (num - 1) * bw + start) = [rbStart |-> start, numOfRb |-> num]
    BY <1>1, ReadRange
<1>3. CASE num - 1 <= bw \div 2
    <2>1. start + num < bw
        BY <1>1, <1>3
    <2>. QED
        BY <1>1, <1>2, <1>3, <2>1 DEF calcRbByRiv, calcRivByRb
<1>4. CASE ~(num - 1 <= bw \div 2)
    <2>1. calcRivByRb(bw, start, num) = (bw - num + 1) * bw + (bw - 1 - start)
        BY <1>4 DEF calcRivByRb
    <2>2. Read(bw, (bw - num + 1) * bw + (bw - 1 - start))
              = [rbStart |-> bw - 1 - start, numOfRb |-> bw - num + 2]
        <3>. DEFINE other == bw - num + 2
                    r == bw - 1 - start
                    riv == (bw - num + 1) * bw + r
        <3>1. other \in 1 .. 255 /\ r \in 0 .. bw - 1
            BY <1>1 DEF MaxBandwidth
        <3>2. riv = (other - 1) * bw + r
            BY <1>1
        <3>. HIDE DEF other, r, riv
        <3>3. Read(bw, riv) = [rbStart |-> r, numOfRb |-> other]
            BY <3>1, <3>2, ReadRange
        <3>. QED
            BY <3>3 DEF other, r, riv
    <2>3. (bw - 1 - start) + (bw - num + 2) >= bw
        BY <1>1
    <2>4. bw * bw + bw - 1 - ((bw - num + 1) * bw + (bw - 1 - start)) = (num - 1) * bw + start
        BY <1>1, LongForm
    <2>. QED
        BY <1>2, <2>1, <2>2, <2>3, <2>4 DEF calcRbByRiv
<1>. QED
    BY <1>3, <1>4

\* LastBlockIsMisread: a range of up to half the carrier that ends with the last
\* resource block is read as another one, which does not fit into the carrier: the
\* comparison at dci0.c:28 admits equality.  The test Decode_RIV stops one short of it
\* (test/ulp/src/TestDci0.cpp:26).
LastBlockIsMisread ==
    \A bw \in 1 .. MaxBandwidth, start, num \in Nat :
        IsRange(bw, start, num) /\ start + num = bw /\ num - 1 <= bw \div 2
            => LET range == calcRbByRiv(bw, calcRivByRb(bw, start, num))
               IN  /\ range = [rbStart |-> num - 1, numOfRb |-> bw - num + 2]
                   /\ range.rbStart + range.numOfRb = bw + 1

THEOREM RivAtTheEdge == LastBlockIsMisread
<1>. SUFFICES ASSUME NEW bw \in 1 .. MaxBandwidth, NEW start \in Nat, NEW num \in Nat,
                     IsRange(bw, start, num), start + num = bw, num - 1 <= bw \div 2
              PROVE  calcRbByRiv(bw, calcRivByRb(bw, start, num))
                         = [rbStart |-> num - 1, numOfRb |-> bw - num + 2]
    BY DEF LastBlockIsMisread
<1>1. bw \in Nat \ {0} /\ start \in 0 .. bw - 1 /\ num \in 1 .. bw - start /\ num \in 1 .. 255
    BY DEF MaxBandwidth, IsRange
<1>2. calcRivByRb(bw, start, num) = (num - 1) * bw + start
    BY DEF calcRivByRb
<1>3. Read(bw, (num - 1) * bw + start) = [rbStart |-> start, numOfRb |-> num]
    <2>. DEFINE riv == (num - 1) * bw + start
    <2>1. start \in 0 .. bw - 1 /\ num \in 1 .. 255 /\ riv = (num - 1) * bw + start
        BY <1>1
    <2>. HIDE DEF riv
    <2>2. Read(bw, riv) = [rbStart |-> start, numOfRb |-> num]
        BY ONLY bw \in 1 .. MaxBandwidth, <2>1, ReadRange
    <2>. QED
        BY <2>2 DEF riv
<1>4. bw * bw + bw - 1 - ((num - 1) * bw + start) = (bw - num + 1) * bw + (num - 1)
    <2>1. (num - 1) * bw = num * bw - bw /\ (bw - num + 1) * bw = bw * bw - num * bw + bw
        BY <1>1
    <2>. QED
        BY <2>1, <1>1
<1>5. Read(bw, (bw - num + 1) * bw + (num - 1))
          = [rbStart |-> num - 1, numOfRb |-> bw - num + 2]
    <2>. DEFINE other == bw - num + 2
                r == num - 1
                riv == (bw - num + 1) * bw + r
    <2>1. other \in 1 .. 255 /\ r \in 0 .. bw - 1
        BY <1>1 DEF MaxBandwidth
    <2>2. riv = (other - 1) * bw + r
        BY <1>1
    <2>. HIDE DEF other, r, riv
    <2>3. Read(bw, riv) = [rbStart |-> r, numOfRb |-> other]
        BY ONLY <2>1, <2>2, ReadRange, bw \in 1 .. MaxBandwidth
    <2>. QED
        BY <2>3 DEF other, r, riv
<1>. QED
    BY <1>1, <1>2, <1>3, <1>4, <1>5 DEF calcRbByRiv

\* RivFitsItsField: without frequency hopping the mask of a bandwidth cuts no RIV, and
\* no RIV of a grant exceeds tmp in calcRbByRiv, so that tmp - riv does not wrap.
RivFitsItsField ==
    \A bw \in Bandwidths, start, num \in Nat :
        IsRange(bw, start, num) =>
            /\ calcRivByRb(bw, start, num) \in 0 .. RivLimit(bw, FALSE) - 1
            /\ RivLimit(bw, TRUE) <= RivLimit(bw, FALSE)
            /\ RivLimit(bw, FALSE) <= bw * bw + bw - 1

THEOREM RivFits == RivFitsItsField
<1>. SUFFICES ASSUME NEW bw \in Bandwidths, NEW start \in Nat, NEW num \in Nat,
                     IsRange(bw, start, num)
              PROVE  /\ calcRivByRb(bw, start, num) \in 0 .. RivLimit(bw, FALSE) - 1
                     /\ RivLimit(bw, TRUE) <= RivLimit(bw, FALSE)
                     /\ RivLimit(bw, FALSE) <= bw * bw + bw - 1
    BY DEF RivFitsItsField
<1>. USE DEF IsRange, calcRivByRb, RivLimit
<1>1. CASE bw = 6
    BY <1>1
<1>2. CASE bw = 15
    BY <1>2
<1>3. CASE bw = 25
    BY <1>3
<1>4. CASE bw = 50
    BY <1>4
<1>5. CASE bw = 75
    BY <1>5
<1>6. CASE bw = 100
    BY <1>6
<1>. QED
    BY <1>1, <1>2, <1>3, <1>4, <1>5, <1>6 DEF Bandwidths

\* a message of encodeDci0 without frequency hopping
Unhopped(hoppingBits, start, num, others) ==
    [freqEnabledFlag |-> FALSE, freqHoppingBits |-> hoppingBits,
     rbStart |-> start, numOfRb |-> num, others |-> others]

\* GrantsAreRead: what decodeDci0 makes of a grant without frequency hopping is the
\* message encodeDci0 was given, with the hopping bits left as they were before, unless
\* its range is one of those that LastBlockIsMisread is about.
GrantsAreRead ==
    \A bw \in Bandwidths, start, num, hoppingBits, others, before \in Nat :
        IsRange(bw, start, num) /\ (start + num < bw \/ num - 1 > bw \div 2)
            => decodeDci0(bw, encodeDci0(bw, Unhopped(hoppingBits, start, num, others)), before)
                   = Unhopped(before, start, num, others)

THEOREM GrantRoundTrip == GrantsAreRead
<1>. SUFFICES ASSUME NEW bw \in Bandwidths, NEW start \in Nat, NEW num \in Nat,
                     NEW hoppingBits \in Nat, NEW others \in Nat, NEW before \in Nat,
                     IsRange(bw, start, num), start + num < bw \/ num - 1 > bw \div 2
              PROVE  decodeDci0(bw, encodeDci0(bw, Unhopped(hoppingBits, start, num, others)), before)
                         = Unhopped(before, start, num, others)
    BY DEF GrantsAreRead
<1>. DEFINE riv == calcRivByRb(bw, start, num)
            limit == RivLimit(bw, FALSE)
            dci == encodeDci0(bw, Unhopped(hoppingBits, start, num, others))
<1>1. calcRbByRiv(bw, riv) = [rbStart |-> start, numOfRb |-> num]
    <2>1. bw \in 1 .. MaxBandwidth
        BY DEF Bandwidths, MaxBandwidth
    <2>. QED
        BY <2>1, RivIsRead, Zenon DEF ReadsWhatWasCoded
<1>2. riv \in 0 .. limit - 1
    BY RivFits DEF RivFitsItsField
<1>3. limit \in Nat \ {0}
    BY DEF RivLimit, Bandwidths
<1>4. dci = [freqEnabledFlag |-> FALSE, freqHoppingBits |-> 0,
             riv |-> riv % limit, others |-> others]
    BY DEF encodeDci0, Unhopped
<1>. HIDE DEF riv, limit, dci
<1>5. riv % limit = riv
    BY <1>2, <1>3, DivMod
<1>6. decodeDci0(bw, dci, before) = Unhopped(before, start, num, others)
    <2>1. dci.riv = riv /\ dci.freqEnabledFlag = FALSE /\ dci.others = others
        BY <1>4, <1>5
    <2>. DEFINE range == calcRbByRiv(bw, dci.riv)
    <2>2. range.rbStart = start /\ range.numOfRb = num
        BY <1>1, <2>1
    <2>. HIDE DEF range
    <2>3. decodeDci0(bw, dci, before)
              = [freqEnabledFlag |-> FALSE, freqHoppingBits |-> before,
                 rbStart |-> range.rbStart, numOfRb |-> range.numOfRb, others |-> others]
        BY <2>1, Zenon DEF decodeDci0, range
    <2>. QED
        BY <2>2, <2>3 DEF Unhopped
<1>. QED
    BY <1>6 DEF dci

-----------------------------------------------------------------------------
(***************************************************************************)
(* Which messages the RRC decoders of asn1Lib.c accept, and that they find *)
(* the NAS message where its sender put it.                                *)
(***************************************************************************)
\* The bits of a message as the UE encodes it, from the message type on: each field has
\* the width of its type.
PlmnBits(plmn) == 1 + (IF plmn.mccPresent THEN 3 * 4 ELSE 0) + 1 + plmn.mncSize * 4
MmeBits(mme) == 1 + (IF mme.plmnPresent THEN PlmnBits(mme.plmn) ELSE 0) + 16 + 8
HeaderBits(message) ==
    IF message.kind = "RRC_CON_SETUP_COMPLETE"
    THEN 10 + (IF message.mme.present THEN MmeBits(message.mme) ELSE 0)
    ELSE 6
LengthBits(nas) == IF nas.bits = 7 THEN 8 ELSE nas.bits + 2
EncodedBits(message) == 5 + HeaderBits(message) + LengthBits(message.nas) + 8 * message.nas.nBytes

\* what the UE sends: the encoding is filled up to bytes
SentBytes(message) == (EncodedBits(message) + 7) \div 8

\* messages with a NAS message inside that is not fragmented
NasMessages == {m \in Messages : m.kind # "other_transfer" /\ m.nas.bits # 0 /\ m.nas.nBytes > 0}

-----------------------------------------------------------------------------
LEMMA PlmnIsCounted ==
    ASSUME NEW plmn \in Plmns, NEW r \in Nat, NEW l \in Int
    PROVE  liblte_rrc_unpack_plmn_identity_ie([read |-> r, left |-> l], plmn)
               = [read |-> r + PlmnBits(plmn), left |-> l - PlmnBits(plmn)]
BY DEF liblte_rrc_unpack_plmn_identity_ie, PlmnBits, Plmns, Take

LEMMA MmeBitsIsNat ==
    ASSUME NEW mme \in Mmes
    PROVE  PlmnBits(mme.plmn) \in Nat /\ MmeBits(mme) \in Nat
BY DEF Mmes, MmeBits, PlmnBits, Plmns

LEMMA MmeIsCounted ==
    ASSUME NEW mme \in Mmes, NEW r \in Nat, NEW l \in Int
    PROVE  RegisteredMme([read |-> r, left |-> l], mme)
               = [read |-> r + MmeBits(mme), left |-> l - MmeBits(mme)]
<1>1. mme.plmn \in Plmns /\ mme.plmnPresent \in BOOLEAN
    BY DEF Mmes
<1>2. PlmnBits(mme.plmn) \in Nat
    BY MmeBitsIsNat
<1>3. liblte_rrc_unpack_plmn_identity_ie([read |-> r + 1, left |-> l - 1], mme.plmn)
          = [read |-> (r + 1) + PlmnBits(mme.plmn), left |-> (l - 1) - PlmnBits(mme.plmn)]
    BY <1>1, PlmnIsCounted
<1>. QED
    BY <1>1, <1>2, <1>3 DEF RegisteredMme, MmeBits, Take

\* the cursor before the NAS message
Header(message, bits) ==
    IF message.kind = "RRC_CON_SETUP_COMPLETE"
    THEN SetupCompleteHeader(message.mme, bits) ELSE TransferHeader(bits)

\* CounterIsExact: where the NAS message begins, the pointer stands behind the fields the
\* UE encoded, whichever of them are present, and the counter that was reduced by hand
\* after each of them is the number of bits of the message that are left.
CounterIsExact ==
    \A message \in Messages, bits \in Int :
        Header(message, bits) = [read |-> HeaderBits(message), left |-> bits - HeaderBits(message)]

THEOREM HeadersAreCounted == CounterIsExact
<1>. SUFFICES ASSUME NEW message \in Messages, NEW bits \in Int
              PROVE  Header(message, bits)
                         = [read |-> HeaderBits(message), left |-> bits - HeaderBits(message)]
    BY DEF CounterIsExact
<1>1. message.mme \in Mmes
    BY DEF Messages
<1>2. /\ MmeBits(message.mme) \in Nat
      /\ RegisteredMme([read |-> 10, left |-> bits - 10], message.mme)
             = [read |-> 10 + MmeBits(message.mme), left |-> (bits - 10) - MmeBits(message.mme)]
    BY <1>1, MmeIsCounted, MmeBitsIsNat
<1>. QED
    BY <1>1, <1>2 DEF Header, HeaderBits, SetupCompleteHeader, TransferHeader, Start, Take, Mmes

-----------------------------------------------------------------------------
LEMMA NasTypes ==
    ASSUME NEW nas \in Lengths
    PROVE  nas.bits \in {0, 7, 14} /\ nas.nBytes \in Nat /\ LengthBits(nas) \in Nat
<1>1. nas \in [bits : {0, 7, 14}, nBytes : Nat]
    BY DEF Lengths
<1>2. nas.bits \in {0, 7, 14}
    BY <1>1
<1>3. nas.nBytes \in Nat
    BY <1>1
<1>4. LengthBits(nas) \in Nat
    <2>1. LengthBits(nas) = 8 \/ LengthBits(nas) = 2 \/ LengthBits(nas) = 16
        BY <1>2 DEF LengthBits
    <2>. QED
        BY <2>1
<1>. QED
    BY <1>2, <1>3, <1>4

\* What liblte_rrc_unpack_dedicated_info_nas_ie makes of a cursor.
LEMMA NasIsFound ==
    ASSUME NEW nas \in Lengths, nas.bits # 0, nas.nBytes > 0, NEW r \in Nat, NEW l \in Int
    PROVE  LET unpacked == liblte_rrc_unpack_dedicated_info_nas_ie([read |-> r, left |-> l], nas)
           IN  IF /\ l >= LengthBits(nas)
                  /\ nas.nBytes <= MaxBytes
                  /\ 8 * nas.nBytes <= l - LengthBits(nas) + 7
               THEN /\ unpacked.nBytes = nas.nBytes
                    /\ unpacked.cursor.left >= 0
                    /\ unpacked.cursor.read = r + LengthBits(nas) + 8 * nas.nBytes
               ELSE unpacked.nBytes = 0 /\ ~(unpacked.cursor.left >= 0)
<1>1. nas.bits \in {7, 14} /\ nas.nBytes \in Nat \ {0}
    BY NasTypes
<1>2. NasLength([read |-> r, left |-> l], nas)
          = [read |-> r + LengthBits(nas), left |-> l - LengthBits(nas)]
    BY <1>1 DEF NasLength, LengthBits, Take
<1>3. LengthBits(nas) \in {8, 16}
    BY <1>1 DEF LengthBits
<1>. QED
    BY <1>1, <1>2, <1>3 DEF liblte_rrc_unpack_dedicated_info_nas_ie, Take, MaxBytes

LEMMA PartsAreNumbers ==
    ASSUME NEW message \in NasMessages
    PROVE  /\ message.nas.nBytes \in Nat /\ LengthBits(message.nas) \in Nat
           /\ HeaderBits(message) \in Nat
<1>1. message.mme \in Mmes /\ message.nas \in Lengths
    BY DEF NasMessages, Messages
<1>2. MmeBits(message.mme) \in Nat
    BY <1>1, MmeBitsIsNat
<1>. QED
    BY <1>1, <1>2, NasTypes DEF HeaderBits

\* The outcome for a message with a NAS message inside, by the bytes it comes in
LEMMA Outcome ==
    ASSUME NEW message \in NasMessages, NEW length \in Nat
    PROVE  IF /\ 8 * length <= MaxBits
              /\ 8 * length >= 5 + HeaderBits(message) + LengthBits(message.nas)
              /\ message.nas.nBytes <= MaxBytes
              /\ EncodedBits(message) <= 8 * length + 7
           THEN Asn1Parse(message, length) = [accepted |-> TRUE, nBytes |-> message.nas.nBytes]
           ELSE Asn1Parse(message, length) = [accepted |-> FALSE, nBytes |-> 0]
<1>. DEFINE nas == message.nas
            bits == 8 * length - 5
            r == HeaderBits(message)
            unpacked == liblte_rrc_unpack_dedicated_info_nas_ie([read |-> r, left |-> bits - r], nas)
<1>1. /\ message \in Messages /\ message.kind # "other_transfer"
      /\ nas \in Lengths /\ nas.bits # 0 /\ nas.nBytes > 0
    BY DEF NasMessages, Messages
<1>2. bits \in Int
    OBVIOUS
<1>3. r \in Nat
    BY PartsAreNumbers
<1>4. nas.nBytes \in Nat /\ LengthBits(nas) \in Nat
    BY PartsAreNumbers
<1>5. Header(message, bits) = [read |-> r, left |-> bits - r]
    BY <1>1, <1>2, HeadersAreCounted DEF CounterIsExact
<1>6. Unpacked(message, bits) = unpacked
    BY <1>1, <1>5 DEF Unpacked, Header, Messages, liblte_rrc_unpack_rrc_connection_setup_complete_msg,
                      liblte_rrc_unpack_ul_information_transfer_msg
<1>7. IF /\ bits - r >= LengthBits(nas)
         /\ nas.nBytes <= MaxBytes
         /\ 8 * nas.nBytes <= (bits - r) - LengthBits(nas) + 7
      THEN unpacked.nBytes = nas.nBytes /\ unpacked.cursor.left >= 0
      ELSE unpacked.nBytes = 0 /\ ~(unpacked.cursor.left >= 0)
    BY <1>1, <1>2, <1>3, NasIsFound
<1>8. EncodedBits(message) = 5 + r + LengthBits(nas) + 8 * nas.nBytes
    BY DEF EncodedBits
<1>9. Asn1Parse(message, length)
          = LET accepted == 8 * length <= MaxBits /\ unpacked.cursor.left >= 0
            IN  [accepted |-> accepted, nBytes |-> IF accepted THEN unpacked.nBytes ELSE 0]
    BY <1>6 DEF Asn1Parse
<1>10. EncodedBits(message) <= 8 * length + 7 <=> 8 * nas.nBytes <= (bits - r) - LengthBits(nas) + 7
    BY <1>3, <1>4, <1>8
<1>11. 8 * length >= 5 + r + LengthBits(nas) <=> bits - r >= LengthBits(nas)
    BY <1>3, <1>4
<1>. HIDE DEF unpacked
<1>. QED
    BY <1>7, <1>9, <1>10, <1>11, Zenon

\* WholeMessagesAreRead: a setup complete or an information transfer as the UE sends it,
\* with whatever follows it (PDCP leaves the four bytes of the MAC-I behind it), is
\* accepted, and the NAS message is found in its full length.
WholeMessagesAreRead ==
    \A message \in NasMessages, length \in Nat :
        SentBytes(message) <= length /\ 8 * length <= MaxBits
            => Asn1Parse(message, length) = [accepted |-> TRUE, nBytes |-> message.nas.nBytes]

THEOREM SentIsRead == WholeMessagesAreRead
<1>. SUFFICES ASSUME NEW message \in NasMessages, NEW length \in Nat,
                     SentBytes(message) <= length, 8 * length <= MaxBits
              PROVE  Asn1Parse(message, length) = [accepted |-> TRUE, nBytes |-> message.nas.nBytes]
    BY DEF WholeMessagesAreRead
<1>. DEFINE nas == message.nas
<1>1. nas.nBytes \in Nat /\ LengthBits(nas) \in Nat /\ HeaderBits(message) \in Nat
    BY PartsAreNumbers
<1>2. EncodedBits(message) = 5 + HeaderBits(message) + LengthBits(nas) + 8 * nas.nBytes
    BY DEF EncodedBits
<1>3. EncodedBits(message) <= 8 * length
    BY <1>1, <1>2 DEF SentBytes
<1>4. nas.nBytes <= MaxBytes
    BY <1>1, <1>2, <1>3 DEF MaxBits, MaxBytes
<1>. QED
    BY <1>1, <1>2, <1>3, <1>4, Outcome

\* CutMessagesAreRefused: a message of which more than seven bits are missing is refused.
CutMessagesAreRefused ==
    \A message \in NasMessages, length \in Nat :
        EncodedBits(message) > 8 * length + 7 => ~Asn1Parse(message, length).accepted

THEOREM CutIsRefused == CutMessagesAreRefused
<1>. SUFFICES ASSUME NEW message \in NasMessages, NEW length \in Nat,
                     EncodedBits(message) > 8 * length + 7
              PROVE  ~Asn1Parse(message, length).accepted
    BY DEF CutMessagesAreRefused
<1>1. EncodedBits(message) \in Nat
    BY PartsAreNumbers DEF EncodedBits
<1>2. ~(EncodedBits(message) <= 8 * length + 7)
    BY <1>1
<1>3. Asn1Parse(message, length) = [accepted |-> FALSE, nBytes |-> 0]
    BY <1>2, Outcome
<1>. QED
    BY <1>3

\* SevenBitsMayMiss: but the comparison of asn1Lib.c:181 grants seven bits: when the last
\* byte holds no more of the message than that, it may miss, and the NAS message is read
\* with zeros at its end.  This is so for each information transfer, the one with an
\* identity response included, and for each setup complete without a registered MME.
SevenBitsMayMiss ==
    \A message \in NasMessages :
        /\ message.kind = "UL_INFO_TRANSFER" \/ ~message.mme.present
        /\ message.nas.nBytes <= MaxBytes - 16
        => Asn1Parse(message, SentBytes(message) - 1)
               = [accepted |-> TRUE, nBytes |-> message.nas.nBytes]
THEOREM LastBitsMayMiss == SevenBitsMayMiss
<1>. SUFFICES ASSUME NEW message \in NasMessages,
                     message.kind = "UL_INFO_TRANSFER" \/ ~message.mme.present,
                     message.nas.nBytes <= MaxBytes - 16
              PROVE  Asn1Parse(message, SentBytes(message) - 1)
                         = [accepted |-> TRUE, nBytes |-> message.nas.nBytes]
    BY DEF SevenBitsMayMiss
<1>. DEFINE n == message.nas.nBytes
            length == SentBytes(message) - 1
<1>1. n \in Nat \ {0} /\ message.nas \in Lengths /\ message.nas.bits \in {7, 14}
    <2>1. message.nas \in Lengths /\ message.nas.bits # 0 /\ n > 0
        BY DEF NasMessages, Messages
    <2>. QED
        BY <2>1, NasTypes
<1>2. LengthBits(message.nas) \in {8, 16} /\ HeaderBits(message) \in {6, 10}
    BY <1>1 DEF LengthBits, HeaderBits, NasMessages
<1>3. EncodedBits(message) = 5 + HeaderBits(message) + LengthBits(message.nas) + 8 * n
    BY <1>2 DEF EncodedBits
<1>4. 8 * length = 8 + LengthBits(message.nas) + 8 * n
    BY <1>1, <1>2, <1>3 DEF SentBytes
<1>5. length \in Nat
    BY <1>1, <1>2, <1>3 DEF SentBytes
<1>6. n <= MaxBytes - 16
    OBVIOUS
<1>. HIDE DEF n, length
<1>7. /\ 8 * length <= MaxBits
      /\ 8 * length >= 5 + HeaderBits(message) + LengthBits(message.nas)
      /\ n <= MaxBytes
      /\ EncodedBits(message) <= 8 * length + 7
    BY <1>1, <1>2, <1>3, <1>4, <1>5, <1>6 DEF MaxBits, MaxBytes
<1>. QED
    BY <1>5, <1>7, Outcome DEF n, length

-----------------------------------------------------------------------------
(***************************************************************************)
(* That the NAS decoders of asn1Lib.c keep in step with the messages UEs   *)
(* send, although they look at few of the lengths in them.                 *)
(***************************************************************************)
\* How a UE lays out a message: a header, the message type, in a request one more byte,
\* then the identity behind an octet with its length, and in an attach request the
\* capability behind an octet with its length.
TypeAt(secHdrType) == IF secHdrType = PlainNas THEN 1 ELSE 1 + 4 + 1 + 1
IdLength(typeOfId) == IF typeOfId = IMEISV THEN 9 ELSE 8
EpsIdLength(typeOfId) == IF typeOfId = EPS_GUTI THEN 11 ELSE IF typeOfId = EPS_TMSI THEN 5 ELSE 8

\* MobilityTypesAreFound: the message type that chooses the decoder is the byte in front of
\* where this decoder goes on, for every message of mobility management.
MobilityTypesAreFound ==
    \A secHdrType \in SecHdrTypes \ {ServiceRequest}, pd, innerPd \in Discriminators :
        pd # SessionManagement /\ (secHdrType # PlainNas => innerPd # SessionManagement)
            => /\ liblte_mme_parse_msg_header(secHdrType, pd, innerPd) = TypeAt(secHdrType)
               /\ BehindMessageType(secHdrType) = TypeAt(secHdrType) + 1

THEOREM TypesAreFound == MobilityTypesAreFound
BY DEF MobilityTypesAreFound, liblte_mme_parse_msg_header, TypeAt, BehindMessageType,
       PlainNas, ServiceRequest, SessionManagement, SecHdrTypes, Discriminators

LEMMA BehindType == \A secHdrType \in SecHdrTypes :
    /\ BehindMessageType(secHdrType) = TypeAt(secHdrType) + 1
    /\ TypeAt(secHdrType) \in Nat
BY DEF BehindMessageType, TypeAt

\* IdentitiesAreFound: an identity of each type is read from its octets and no others, in
\* a response and in the requests, plain or not, although its length is not looked at.
IdentitiesAreFound ==
    \A secHdrType \in SecHdrTypes, typeOfId \in 0 .. 7 :
        LET behindType == TypeAt(secHdrType) + 1
        IN  /\ typeOfId \in {IMSI, IMEI, IMEISV} =>
                 liblte_mme_unpack_identity_response_msg(secHdrType, typeOfId)
                     = [accepted |-> TRUE, idAt |-> behindType,
                        behindId |-> behindType + 1 + IdLength(typeOfId)]
            /\ UnpackRequest(secHdrType, typeOfId)
                   = [accepted |-> TRUE, idAt |-> behindType + 1,
                      behindId |-> behindType + 2 + EpsIdLength(typeOfId)]

THEOREM IdsAreFound == IdentitiesAreFound
<1> SUFFICES ASSUME NEW secHdrType \in SecHdrTypes, NEW typeOfId \in 0 .. 7
             PROVE  /\ typeOfId \in {IMSI, IMEI, IMEISV} =>
                         liblte_mme_unpack_identity_response_msg(secHdrType, typeOfId)
                             = [accepted |-> TRUE, idAt |-> TypeAt(secHdrType) + 1,
                                behindId |-> TypeAt(secHdrType) + 1 + 1 + IdLength(typeOfId)]
                    /\ UnpackRequest(secHdrType, typeOfId)
                           = [accepted |-> TRUE, idAt |-> TypeAt(secHdrType) + 1 + 1,
                              behindId |-> TypeAt(secHdrType) + 1 + 2 + EpsIdLength(typeOfId)]
  BY Zenon DEF IdentitiesAreFound
<1> DEFINE at == TypeAt(secHdrType) + 1
<1>1. BehindMessageType(secHdrType) = at /\ at \in Nat
  BY BehindType
<1>2. ASSUME typeOfId \in {IMSI, IMEI, IMEISV}
      PROVE  liblte_mme_unpack_mobile_id_ie(at, typeOfId) = at + 1 + IdLength(typeOfId)
  BY <1>1, <1>2 DEF liblte_mme_unpack_mobile_id_ie, IdLength, IMSI, IMEI, IMEISV
<1>3. liblte_mme_unpack_eps_mobile_id_ie(at + 1, typeOfId) = at + 2 + EpsIdLength(typeOfId)
  BY <1>1 DEF liblte_mme_unpack_eps_mobile_id_ie, EpsIdLength, EPS_GUTI, EPS_TMSI
<1> HIDE DEF at
<1>4. ASSUME typeOfId \in {IMSI, IMEI, IMEISV}
      PROVE  liblte_mme_unpack_identity_response_msg(secHdrType, typeOfId)
                 = [accepted |-> TRUE, idAt |-> at, behindId |-> at + 1 + IdLength(typeOfId)]
  BY <1>1, <1>2, <1>4 DEF liblte_mme_unpack_identity_response_msg
<1>5. UnpackRequest(secHdrType, typeOfId)
          = [accepted |-> TRUE, idAt |-> at + 1, behindId |-> at + 2 + EpsIdLength(typeOfId)]
  BY <1>1, <1>3 DEF UnpackRequest
<1>6. QED
  BY <1>4, <1>5 DEF at

\* AttachRequestsAreAccepted: the length by which an attach request may be refused is the
\* one behind its capability, whatever the length of that, and an attach request whose
\* session management message fits is read like the other requests.
AttachRequestsAreAccepted ==
    \A secHdrType \in SecHdrTypes, typeOfId \in 0 .. 7, capability \in 2 .. 255,
       esmLength \in [Nat -> Nat] :
        esmLength[TypeAt(secHdrType) + 3 + EpsIdLength(typeOfId) + 1 + capability] <= LIBLTE_MAX_MSG_SIZE_BYTES
            => liblte_mme_unpack_attach_request_msg(secHdrType, typeOfId, capability, esmLength)
                   = UnpackRequest(secHdrType, typeOfId)

THEOREM AttachIsInStep == AttachRequestsAreAccepted
<1> SUFFICES ASSUME NEW secHdrType \in SecHdrTypes, NEW typeOfId \in 0 .. 7,
                    NEW capability \in 2 .. 255, NEW esmLength \in [Nat -> Nat],
                    esmLength[TypeAt(secHdrType) + 3 + EpsIdLength(typeOfId) + 1 + capability]
                        <= LIBLTE_MAX_MSG_SIZE_BYTES
             PROVE  liblte_mme_unpack_attach_request_msg(secHdrType, typeOfId, capability, esmLength)
                        = UnpackRequest(secHdrType, typeOfId)
  BY DEF AttachRequestsAreAccepted
<1> DEFINE behind == TypeAt(secHdrType) + 1 + 2 + EpsIdLength(typeOfId)
           request == UnpackRequest(secHdrType, typeOfId)
<1>1. TypeAt(secHdrType) \in Nat /\ EpsIdLength(typeOfId) \in Nat
  BY BehindType DEF EpsIdLength
<1>2. request = [accepted |-> TRUE, idAt |-> TypeAt(secHdrType) + 1 + 1, behindId |-> behind]
  BY IdsAreFound DEF IdentitiesAreFound
<1>3. liblte_mme_unpack_ue_network_capability_ie(behind, capability) = behind + 1 + capability
  BY <1>1 DEF liblte_mme_unpack_ue_network_capability_ie
<1>4. behind + 1 + capability
          = TypeAt(secHdrType) + 3 + EpsIdLength(typeOfId) + 1 + capability
  BY <1>1
<1>5. request.behindId = behind
  BY <1>2
<1>6. ~(esmLength[behind + 1 + capability] > LIBLTE_MAX_MSG_SIZE_BYTES)
  <2>1. esmLength[behind + 1 + capability] <= LIBLTE_MAX_MSG_SIZE_BYTES
    BY <1>4
  <2>2. behind + 1 + capability \in Nat
    BY <1>1
  <2>3. esmLength[behind + 1 + capability] \in Nat
    BY <2>2
  <2>4. QED
    BY <2>1, <2>3 DEF LIBLTE_MAX_MSG_SIZE_BYTES
<1> HIDE DEF behind, request
<1>7. QED
  BY <1>3, <1>5, <1>6 DEF liblte_mme_unpack_attach_request_msg, request

-----------------------------------------------------------------------------
(***************************************************************************)
(* The sums over the subheaders of a PDU.                                  *)
(***************************************************************************)
\* a function that adds up the first numbers of s
AddsUp(sum, s, n) == sum = [j \in 0 .. n |-> IF j = 0 THEN 0 ELSE sum[j - 1] + s[j]]

\* There is one for any number of them: if there were a least number without one,
\* the sums of one number less would make one.
LEMMA AddsUpExists ==
    ASSUME NEW s, NEW length \in Nat
    PROVE  \E sum : AddsUp(sum, s, length)
  <1> DEFINE Sum(f, n) == f = [j \in 0 .. n |-> IF j = 0 THEN 0 ELSE f[j - 1] + s[j]]
             Missing == {n \in Nat : ~\E f : Sum(f, n)}
  <1>1. Missing = {}
    <2> SUFFICES ASSUME Missing # {} PROVE FALSE
      OBVIOUS
    <2>1. PICK n \in Missing : \A m \in Missing : n <= m
      <3> Missing \in SUBSET Nat
        OBVIOUS
      <3> QED BY MinOfNats
    <2>2. n # 0
      <3>1. Sum([j \in 0 .. 0 |-> 0], 0)
        OBVIOUS
      <3> QED BY <3>1, <2>1
    <2>3. n \in Nat /\ n - 1 \in Nat /\ n - 1 \notin Missing
      BY <2>1, <2>2
    <2>4. PICK f : Sum(f, n - 1)
      BY <2>3
    <2> DEFINE g == [j \in 0 .. n |-> IF j = n THEN f[n - 1] + s[n] ELSE f[j]]
    <2>5. \A j \in 0 .. n - 1 : g[j] = f[j]
      BY <2>3
    <2>6. \A j \in 0 .. n : g[j] = IF j = 0 THEN 0 ELSE g[j - 1] + s[j]
      <3> SUFFICES ASSUME NEW j \in 0 .. n
                   PROVE  g[j] = IF j = 0 THEN 0 ELSE g[j - 1] + s[j]
        OBVIOUS
      <3>1. CASE j = n
        BY <3>1, <2>2, <2>3, <2>5
      <3>2. CASE j # n
        <4>1. j \in 0 .. n - 1 /\ g[j] = f[j]
          BY <3>2, <2>3, <2>5
        <4>2. f[j] = IF j = 0 THEN 0 ELSE f[j - 1] + s[j]
          BY <2>4, <4>1
        <4>3. j # 0 => g[j - 1] = f[j - 1]
          BY <4>1, <2>3, <2>5
        <4> QED BY <4>1, <4>2, <4>3
      <3> QED BY <3>1, <3>2
    <2>7. Sum(g, n)
      BY <2>6
    <2> QED BY <2>1, <2>7
  <1>2. \E f : Sum(f, length)
    BY <1>1
  <1> QED BY <1>2 DEF AddsUp

\* A sum grows by one number at a time.
LEMMA SumsSteps ==
    ASSUME NEW s \in Seq(Int)
    PROVE  /\ Sums(s)[0] = 0
           /\ \A j \in 1 .. Len(s) : Sums(s)[j] = Sums(s)[j - 1] + s[j]
           /\ \A j \in 0 .. Len(s) : Sums(s)[j] \in Int
  <1> DEFINE n == Len(s)
             sum == CHOOSE f : AddsUp(f, s, n)
  <1>1. n \in Nat /\ \A j \in 1 .. n : s[j] \in Int
    BY LenProperties, ElementOfSeq
  <1>2. Sums(s) = sum
    BY DEF Sums, AddsUp
  <1> HIDE DEF n
  <1>3. AddsUp(sum, s, n)
    <2>1. \E f : AddsUp(f, s, n)
      BY <1>1, AddsUpExists
    <2> QED BY <2>1
  <1> HIDE DEF sum
  <1>4. \A j \in 0 .. n : sum[j] = IF j = 0 THEN 0 ELSE sum[j - 1] + s[j]
    BY <1>3 DEF AddsUp
  <1>5. sum[0] = 0
    BY <1>1, <1>4
  <1>6. \A j \in 1 .. n : sum[j] = sum[j - 1] + s[j]
    BY <1>1, <1>4
  <1> DEFINE Bad == {j \in 0 .. n : sum[j] \notin Int}
  <1>7. Bad = {}
    <2> SUFFICES ASSUME Bad # {} PROVE FALSE
      OBVIOUS
    <2>1. PICK j \in Bad : \A k \in Bad : j <= k
      <3> Bad \in SUBSET Nat
        BY <1>1
      <3> QED BY MinOfNats
    <2>2. j \in 1 .. n /\ j - 1 \in 0 .. n /\ ~(j <= j - 1)
      BY <1>1, <1>5, <2>1
    <2>3. sum[j - 1] \in Int
      BY <2>1, <2>2
    <2>4. sum[j] = sum[j - 1] + s[j] /\ s[j] \in Int
      BY <1>1, <1>6, <2>2
    <2>5. sum[j] \notin Int
      BY <2>1
    <2> HIDE DEF Bad
    <2> QED BY <2>3, <2>4, <2>5
  <1> QED BY <1>2, <1>5, <1>6, <1>7 DEF n

\* Two sequences that begin alike have the same first sums.
LEMMA SumsAgree ==
    ASSUME NEW s \in Seq(Int), NEW t \in Seq(Int), NEW n \in Nat, n <= Len(s), n <= Len(t),
           \A j \in 1 .. n : s[j] = t[j]
    PROVE  \A j \in 0 .. n : Sums(s)[j] = Sums(t)[j]
  <1> DEFINE Bad == {j \in 0 .. n : Sums(s)[j] # Sums(t)[j]}
  <1>1. Bad = {}
    <2> SUFFICES ASSUME Bad # {} PROVE FALSE
      OBVIOUS
    <2>1. PICK j \in Bad : \A k \in Bad : j <= k
      <3> Bad \in SUBSET Nat
        OBVIOUS
      <3> QED BY MinOfNats
    <2>2. Sums(s)[0] = Sums(t)[0]
      BY SumsSteps
    <2>3. j \in 1 .. n /\ j - 1 \in 0 .. n /\ ~(j <= j - 1)
      BY <2>1, <2>2
    <2>4. Sums(s)[j - 1] = Sums(t)[j - 1]
      BY <2>1, <2>3
    <2>5. Len(s) \in Nat /\ Len(t) \in Nat
      BY LenProperties
    <2>6. j \in 1 .. Len(s) /\ j \in 1 .. Len(t)
      BY <2>3, <2>5
    <2>7. Sums(s)[j] = Sums(s)[j - 1] + s[j] /\ Sums(t)[j] = Sums(t)[j - 1] + t[j]
      BY <2>6, SumsSteps
    <2>8. s[j] = t[j] /\ j \in Bad
      BY <2>1, <2>3
    <2> QED BY <2>4, <2>7, <2>8
  <1> QED BY <1>1

\* The sums of natural numbers grow.
LEMMA SumsGrow ==
    ASSUME NEW s \in Seq(Nat)
    PROVE  /\ \A j \in 0 .. Len(s) : Sums(s)[j] \in Nat
           /\ \A j, k \in 0 .. Len(s) : j <= k => Sums(s)[j] <= Sums(s)[k]
  <1> DEFINE n == Len(s)
  <1>1. s \in Seq(Int) /\ n \in Nat /\ \A j \in 1 .. n : s[j] \in Nat
    BY LenProperties, ElementOfSeq
  <1>2. /\ Sums(s)[0] = 0
        /\ \A j \in 1 .. n : Sums(s)[j] = Sums(s)[j - 1] + s[j]
        /\ \A j \in 0 .. n : Sums(s)[j] \in Int
    BY <1>1, SumsSteps
  <1> HIDE DEF n
  <1>3. ASSUME NEW j \in 0 .. n
        PROVE  \A k \in 0 .. n : j <= k => Sums(s)[j] <= Sums(s)[k]
    <2> DEFINE Bad == {k \in 0 .. n : j <= k /\ ~(Sums(s)[j] <= Sums(s)[k])}
    <2>1. Bad = {}
      <3> SUFFICES ASSUME Bad # {} PROVE FALSE
        OBVIOUS
      <3>1. PICK k \in Bad : \A m \in Bad : k <= m
        <4> Bad \in SUBSET Nat
          BY <1>1
        <4> QED BY MinOfNats
      <3>2. k \in 0 .. n /\ j <= k /\ ~(Sums(s)[j] <= Sums(s)[k])
        BY <3>1
      <3>3. j # k
        BY <3>2, <1>2
      <3>4. k \in 1 .. n /\ k - 1 \in 0 .. n /\ j <= k - 1 /\ ~(k <= k - 1)
        BY <3>2, <3>3, <1>1
      <3>5. Sums(s)[j] <= Sums(s)[k - 1]
        BY <3>1, <3>4
      <3>6. Sums(s)[k] = Sums(s)[k - 1] + s[k] /\ s[k] \in Nat
        BY <1>1, <1>2, <3>4
      <3>7. Sums(s)[j] \in Int /\ Sums(s)[k - 1] \in Int
        BY <1>2, <3>4
      <3> HIDE DEF Bad
      <3> QED BY <3>2, <3>5, <3>6, <3>7
    <2> QED BY <2>1
  <1>4. \A k \in 0 .. n : Sums(s)[k] \in Nat
    <2> SUFFICES ASSUME NEW k \in 0 .. n PROVE Sums(s)[k] \in Nat
      OBVIOUS
    <2>1. 0 \in 0 .. n /\ 0 <= k
      BY <1>1
    <2>2. Sums(s)[0] <= Sums(s)[k]
      BY <2>1, <1>3
    <2> QED BY <2>2, <1>2
  <1> QED BY <1>3, <1>4 DEF n

\* One number more adds to the last sum only.
LEMMA SumsOfAppend ==
    ASSUME NEW s \in Seq(Int), NEW x \in Int
    PROVE  /\ \A j \in 0 .. Len(s) : Sums(Append(s, x))[j] = Sums(s)[j]
           /\ Total(Append(s, x)) = Total(s) + x
  <1> DEFINE t == Append(s, x)
             n == Len(s)
  <1>1. t \in Seq(Int) /\ Len(t) = n + 1 /\ n \in Nat /\ t[n + 1] = x
    BY AppendProperties, LenProperties
  <1>2. \A j \in 1 .. n : t[j] = s[j]
    BY AppendProperties
  <1> HIDE DEF t, n
  <1>3. n <= Len(s) /\ n <= Len(t)
    BY <1>1 DEF n
  <1>4. \A j \in 0 .. n : Sums(t)[j] = Sums(s)[j]
    <2>1. \A j \in 1 .. n : s[j] = t[j]
      BY <1>2
    <2>2. \A j \in 0 .. n : Sums(s)[j] = Sums(t)[j]
      BY <1>1, <1>3, <2>1, SumsAgree
    <2> QED BY <2>2
  <1>5. Sums(t)[n + 1] = Sums(t)[(n + 1) - 1] + t[n + 1]
    <2>1. n + 1 \in 1 .. Len(t)
      BY <1>1
    <2> QED BY <1>1, <2>1, SumsSteps
  <1>6. (n + 1) - 1 = n /\ n \in 0 .. n
    BY <1>1
  <1>7. Total(t) = Total(s) + x
    BY <1>1, <1>4, <1>5, <1>6 DEF Total, n
  <1> QED BY <1>4, <1>7 DEF t, n

-----------------------------------------------------------------------------
(***************************************************************************)
(* What the sizes of a PDU's subheaders and parts are.                     *)
(***************************************************************************)
LEMMA SubheaderFacts ==
    ASSUME NEW p \in Pdus
    PROVE  /\ p \in [length : Nat, subs : Seq(Subheader)]
           /\ p.length \in Nat
           /\ Len(p.subs) \in Nat \ {0}
           /\ \A j \in 1 .. Len(p.subs) :
                /\ p.subs[j] \in Subheader
                /\ p.subs[j].ext <=> j < Len(p.subs)
                /\ HeaderBytes(p.subs[j]) \in Nat \ {0}
  <1>1. /\ p \in [length : Nat \ {0}, subs : Seq(Subheader) \ {<<>>}]
        /\ \A j \in 1 .. Len(p.subs) : p.subs[j].ext <=> j < Len(p.subs)
    BY MacDemuxAssumption
  <1>2. p.subs \in Seq(Subheader) /\ p.subs # <<>>
    BY <1>1
  <1>3. Len(p.subs) \in Nat \ {0} /\ \A j \in 1 .. Len(p.subs) : p.subs[j] \in Subheader
    BY <1>2, LenProperties, ElementOfSeq, EmptySeq
  <1>4. \A j \in 1 .. Len(p.subs) : HeaderBytes(p.subs[j]) \in Nat \ {0}
    BY DEF HeaderBytes
  <1>5. p \in [length : Nat, subs : Seq(Subheader)] /\ p.length \in Nat
    BY <1>1
  <1> QED BY <1>1, <1>3, <1>4, <1>5

\* a payload of a control element
LEMMA CeLengthFacts ==
    /\ DOMAIN CeLength = 26 .. 30
    /\ \A l \in 26 .. 30 : CeLength[l] \in Nat \ {0}
  BY DEF CeLength

\* The size of each subheader and the sums of the sizes.
LEMMA SizesFacts ==
    ASSUME NEW p \in Pdus
    PROVE  /\ HeaderSizes(p) \in Seq(Nat) /\ Len(HeaderSizes(p)) = Len(p.subs)
           /\ Stated(p) \in Seq(Nat) /\ Len(Stated(p)) = Len(p.subs)
           /\ Payload(p) \in Seq(Int) /\ Len(Payload(p)) = Len(p.subs)
           /\ IsPart(p) \in Seq(Nat) /\ Len(IsPart(p)) = Len(p.subs)
           /\ HeaderLength(p) \in Nat
           /\ Left(p) \in Int
  <1> DEFINE n == Len(p.subs)
  <1>1. /\ n \in Nat /\ p.length \in Nat
        /\ \A j \in 1 .. n : p.subs[j] \in Subheader /\ HeaderBytes(p.subs[j]) \in Nat
    BY SubheaderFacts
  <1>2. HeaderSizes(p) \in [1 .. n -> Nat]
    BY <1>1 DEF HeaderSizes
  <1>3. Stated(p) \in [1 .. n -> Nat]
    <2> SUFFICES ASSUME NEW j \in 1 .. n
                 PROVE  (IF p.subs[j].lcId \in Sdu /\ p.subs[j].ext THEN p.subs[j].len
                         ELSE IF p.subs[j].lcId \in DOMAIN CeLength THEN CeLength[p.subs[j].lcId] ELSE 0) \in Nat
      BY Zenon DEF Stated
    <2>1. p.subs[j].len \in Nat
      BY <1>1 DEF Subheader
    <2> QED BY <2>1, CeLengthFacts
  <1>4. IsPart(p) \in [1 .. n -> Nat]
    BY DEF IsPart
  <1>5. /\ HeaderSizes(p) \in Seq(Nat) /\ Len(HeaderSizes(p)) = n
        /\ Stated(p) \in Seq(Nat) /\ Len(Stated(p)) = n
        /\ IsPart(p) \in Seq(Nat) /\ Len(IsPart(p)) = n
    BY <1>1, <1>2, <1>3, <1>4, FunctionIsSeq
  <1>6. HeaderLength(p) \in Nat /\ Total(Stated(p)) \in Nat
    <2>1. n \in 0 .. n
      BY <1>1
    <2> QED BY <1>1, <1>5, <2>1, SumsGrow DEF HeaderLength, Total
  <1>7. Left(p) \in Int
    BY <1>1, <1>6 DEF Left
  <1>8. Payload(p) \in [1 .. n -> Int]
    <2>1. \A j \in 1 .. n : Stated(p)[j] \in Int
      BY <1>3
    <2> QED BY <1>7, <2>1 DEF Payload
  <1>9. Payload(p) \in Seq(Int) /\ Len(Payload(p)) = n
    BY <1>1, <1>8, FunctionIsSeq
  <1> QED BY <1>5, <1>6, <1>7, <1>9

\* The header is read one subheader at a time.
LEMMA HeaderSteps ==
    ASSUME NEW p \in Pdus
    PROVE  /\ Sums(HeaderSizes(p))[0] = 0
           /\ \A j \in 1 .. Len(p.subs) :
                Sums(HeaderSizes(p))[j] = Sums(HeaderSizes(p))[j - 1] + HeaderBytes(p.subs[j])
           /\ \A j \in 0 .. Len(p.subs) : Sums(HeaderSizes(p))[j] \in Nat
           /\ Sums(HeaderSizes(p))[Len(p.subs)] = HeaderLength(p)
  <1>1. /\ HeaderSizes(p) \in Seq(Nat) /\ HeaderSizes(p) \in Seq(Int)
        /\ Len(HeaderSizes(p)) = Len(p.subs)
    BY SizesFacts
  <1>2. \A j \in 1 .. Len(p.subs) : HeaderSizes(p)[j] = HeaderBytes(p.subs[j])
    BY DEF HeaderSizes
  <1>3. Sums(HeaderSizes(p))[Len(p.subs)] = HeaderLength(p)
    BY <1>1 DEF HeaderLength, Total
  <1>4. \A j \in 0 .. Len(p.subs) : Sums(HeaderSizes(p))[j] \in Nat
    BY <1>1, SumsGrow
  <1>5. /\ Sums(HeaderSizes(p))[0] = 0
        /\ \A j \in 1 .. Len(p.subs) :
             Sums(HeaderSizes(p))[j] = Sums(HeaderSizes(p))[j - 1] + HeaderSizes(p)[j]
    BY <1>1, SumsSteps
  <1> QED BY <1>2, <1>3, <1>4, <1>5

-----------------------------------------------------------------------------

(***************************************************************************)
(* MacDemux: the cursor that reads the header stands behind the bytes of   *)
(* the subheaders read, and the parts found so far together with the       *)
(* remainder are not longer than the PDU; the cursor that walks the        *)
(* payload then stands behind the header and the parts walked.             *)
(***************************************************************************)
PartLengths(parts) == [k \in 1 .. Len(parts) |-> parts[k].length]
EndsWithSdu(p) == p.subs[Len(p.subs)].lcId \in Sdu

PduInHand == IF phase = "idle" THEN pdu = NoPdu ELSE pdu \in Pdus

Fresh == phase = "idle" => idx = 1 /\ dataPtrPos = 0 /\ demux = <<>> /\ dataPtr = 0

NotYetSent ==
    /\ phase \in {"idle", "header", "send"} => toRrc = <<>> /\ rlcData = <<>>
    /\ phase # "done" => toRlc = <<>>
    /\ phase = "done" => rlcData = <<>>

HeaderCursor ==
    phase = "header" =>
        /\ idx \in 1 .. Len(pdu.subs)
        /\ Len(demux) < idx
        /\ dataPtr = Sums(HeaderSizes(pdu))[idx - 1]
        /\ remaining + Total(PartLengths(demux)) <= pdu.length
        /\ Defined(pdu) => dataPtrPos = dataPtr

PayloadCursor ==
    phase \in {"send", "walk"} =>
        /\ Len(demux) <= Len(pdu.subs)
        /\ idx \in 1 .. Len(demux) + 1
        /\ phase = "send" => idx = 1
        /\ dataPtr = HeaderLength(pdu) + Sums(PartLengths(demux))[idx - 1]
        /\ EndsWithSdu(pdu) /\ Defined(pdu) => HeaderLength(pdu) + Total(PartLengths(demux)) <= pdu.length

Behind ==
    phase = "walk" => \A s \in ToSet(toRrc) \cup ToSet(rlcData) : s.from + s.len <= dataPtr

CursorInv ==
    /\ TypeOK /\ BlocksComeBack
    /\ PduInHand /\ Fresh /\ NotYetSent
    /\ HeaderCursor /\ PayloadCursor /\ Behind
    /\ CopiesAreDisjoint /\ CopiesStayInside

Parts == [lchId : 0 .. 30, length : Nat \ {0}]

\* The lengths of the parts.
LEMMA LengthsFacts ==
    ASSUME NEW parts \in Seq(Parts)
    PROVE  /\ PartLengths(parts) \in Seq(Nat) /\ Len(PartLengths(parts)) = Len(parts)
           /\ Len(parts) \in Nat
           /\ \A k \in 1 .. Len(parts) :
                /\ parts[k] \in Parts
                /\ Sums(PartLengths(parts))[k] = Sums(PartLengths(parts))[k - 1] + parts[k].length
           /\ \A k \in 0 .. Len(parts) : Sums(PartLengths(parts))[k] \in Nat
           /\ \A j, k \in 0 .. Len(parts) :
                j <= k => Sums(PartLengths(parts))[j] <= Sums(PartLengths(parts))[k]
           /\ Sums(PartLengths(parts))[0] = 0
           /\ Sums(PartLengths(parts))[Len(parts)] = Total(PartLengths(parts))
  <1> DEFINE n == Len(parts)
             s == PartLengths(parts)
  <1>1. n \in Nat /\ \A k \in 1 .. n : parts[k] \in Parts
    BY LenProperties, ElementOfSeq
  <1>2. \A k \in 1 .. n : parts[k].length \in Nat
    BY <1>1 DEF Parts
  <1>3. s \in [1 .. n -> Nat] /\ \A k \in 1 .. n : s[k] = parts[k].length
    BY <1>2 DEF PartLengths
  <1>4. s \in Seq(Nat) /\ s \in Seq(Int) /\ Len(s) = n
    <2>1. s \in [1 .. n -> Int]
      BY <1>3
    <2> QED BY <1>1, <1>3, <2>1, FunctionIsSeq
  <1> HIDE DEF s
  <1>5. /\ Sums(s)[0] = 0
        /\ \A k \in 1 .. n : Sums(s)[k] = Sums(s)[k - 1] + s[k]
    BY <1>4, SumsSteps
  <1>6. /\ \A k \in 0 .. n : Sums(s)[k] \in Nat
        /\ \A j, k \in 0 .. n : j <= k => Sums(s)[j] <= Sums(s)[k]
    BY <1>4, SumsGrow
  <1>7. Sums(s)[n] = Total(s)
    BY <1>4 DEF Total
  <1>8. \A k \in 1 .. n : Sums(s)[k] = Sums(s)[k - 1] + parts[k].length
    BY <1>3, <1>5
  <1> QED BY <1>1, <1>4, <1>5, <1>6, <1>7, <1>8 DEF s

\* A new part adds its length.
LEMMA LengthsOfAppend ==
    ASSUME NEW parts \in Seq(Parts), NEW part \in Parts
    PROVE  /\ Append(parts, part) \in Seq(Parts)
           /\ Len(Append(parts, part)) = Len(parts) + 1
           /\ Total(PartLengths(Append(parts, part))) = Total(PartLengths(parts)) + part.length
  <1> DEFINE t == Append(parts, part)
             n == Len(parts)
  <1>1. t \in Seq(Parts) /\ Len(t) = n + 1 /\ t[n + 1] = part /\ \A k \in 1 .. n : t[k] = parts[k]
    BY AppendProperties
  <1>2. n \in Nat /\ PartLengths(parts) \in Seq(Nat) /\ Len(PartLengths(parts)) = n
    BY LengthsFacts
  <1>3. PartLengths(t) \in Seq(Nat) /\ Len(PartLengths(t)) = n + 1
    BY <1>1, LengthsFacts
  <1>4. \A k \in 1 .. n : PartLengths(parts)[k] = parts[k].length
    BY DEF PartLengths
  <1>5. \A k \in 1 .. n + 1 : PartLengths(t)[k] = t[k].length
    BY <1>1 DEF PartLengths
  <1> HIDE DEF t, n
  <1>6. \A k \in 1 .. n : PartLengths(parts)[k] = PartLengths(t)[k]
    BY <1>1, <1>2, <1>4, <1>5
  <1>7. Sums(PartLengths(parts))[n] = Sums(PartLengths(t))[n]
    <2>1. n <= Len(PartLengths(parts)) /\ n <= Len(PartLengths(t)) /\ n \in 0 .. n
      BY <1>2, <1>3
    <2>2. PartLengths(parts) \in Seq(Int) /\ PartLengths(t) \in Seq(Int)
      BY <1>2, <1>3
    <2> QED BY <1>2, <1>6, <2>1, <2>2, SumsAgree
  <1>8. Sums(PartLengths(t))[n + 1] = Sums(PartLengths(t))[(n + 1) - 1] + t[n + 1].length
    <2>1. n + 1 \in 1 .. Len(t)
      BY <1>1, <1>2
    <2> QED BY <1>1, <2>1, LengthsFacts
  <1>9. (n + 1) - 1 = n
    BY <1>2
  <1>10. Total(PartLengths(t)) = Sums(PartLengths(t))[n + 1] /\ Total(PartLengths(parts)) = Sums(PartLengths(parts))[n]
    BY <1>2, <1>3 DEF Total
  <1> QED BY <1>1, <1>7, <1>8, <1>9, <1>10 DEF t, n

-----------------------------------------------------------------------------
\* what a turn of the header's loop may make of the counters and of demuxData
Turn(counted, left, parts) ==
    /\ counted \in Nat /\ left \in Nat
    /\ parts \in Seq(Parts)
    /\ Len(parts) \in {Len(demux), Len(demux) + 1} /\ Len(parts) <= MAX_NUM_CHANNELS
    /\ left + Total(PartLengths(parts)) <= remaining + Total(PartLengths(demux))
    /\ Defined(pdu) => counted = dataPtrPos + HeaderBytes(Current)
    /\ Defined(pdu) /\ EndsWithSdu(pdu) /\ ~Current.ext => left = counted

\* The subheader in hand is one of the PDU.
LEMMA CurrentFacts ==
    ASSUME CursorInv, phase = "header"
    PROVE  /\ pdu \in Pdus /\ idx \in 1 .. Len(pdu.subs) /\ Len(pdu.subs) \in Nat \ {0}
           /\ Current \in Subheader
           /\ Current.ext <=> idx < Len(pdu.subs)
           /\ ~Current.ext => idx = Len(pdu.subs)
           /\ HeaderBytes(Current) \in Nat \ {0}
           /\ demux \in Seq(Parts) /\ Len(demux) \in Nat /\ Len(demux) <= MAX_NUM_CHANNELS
           /\ Total(PartLengths(demux)) \in Nat
           /\ remaining \in Nat /\ dataPtrPos \in Nat /\ dataPtr \in Nat
  <1>1. pdu \in Pdus
    BY DEF CursorInv, PduInHand
  <1>2. idx \in 1 .. Len(pdu.subs)
    BY DEF CursorInv, HeaderCursor
  <1>3. Current \in Subheader /\ (Current.ext <=> idx < Len(pdu.subs))
        /\ HeaderBytes(Current) \in Nat \ {0} /\ Len(pdu.subs) \in Nat \ {0}
    BY <1>1, <1>2, SubheaderFacts DEF Current
  <1>4. /\ demux \in Seq(Parts) /\ Len(demux) <= MAX_NUM_CHANNELS
        /\ remaining \in Nat /\ dataPtrPos \in Nat /\ dataPtr \in Nat
    BY DEF CursorInv, TypeOK, Parts
  <1>5. Len(demux) \in Nat /\ Total(PartLengths(demux)) \in Nat
    <2>1. Len(demux) \in Nat
      BY <1>4, LenProperties
    <2>2. Len(demux) \in 0 .. Len(demux)
      BY <2>1
    <2> QED BY <1>4, <2>1, <2>2, LengthsFacts
  <1>6. ~Current.ext => idx = Len(pdu.subs)
    BY <1>2, <1>3
  <1> QED BY <1>1, <1>2, <1>3, <1>4, <1>5, <1>6

\* A part that is found is stored or forgotten.
LEMMA WithPartFacts ==
    ASSUME CursorInv, phase = "header", NEW length \in Nat \ {0}, Current.lcId \in 0 .. 30
    PROVE  /\ WithPart(length) \in Seq(Parts)
           /\ Len(WithPart(length)) \in {Len(demux), Len(demux) + 1}
           /\ Len(WithPart(length)) <= MAX_NUM_CHANNELS
           /\ Total(PartLengths(WithPart(length))) \in Nat
           /\ Total(PartLengths(WithPart(length))) <= Total(PartLengths(demux)) + length
  <1> DEFINE part == [lchId |-> Current.lcId, length |-> length]
  <1>1. /\ demux \in Seq(Parts) /\ Len(demux) \in Nat /\ Len(demux) <= MAX_NUM_CHANNELS
        /\ Total(PartLengths(demux)) \in Nat
    BY CurrentFacts
  <1>2. part \in Parts
    BY DEF Parts
  <1>3. MAX_NUM_CHANNELS \in Nat
    BY MacDemuxAssumption
  <1>4. CASE Len(demux) < MAX_NUM_CHANNELS
    <2>1. WithPart(length) = Append(demux, part)
      BY <1>4 DEF WithPart
    <2>2. part.length = length
      OBVIOUS
    <2> HIDE DEF part
    <2>3. /\ Append(demux, part) \in Seq(Parts)
          /\ Len(Append(demux, part)) = Len(demux) + 1
          /\ Total(PartLengths(Append(demux, part))) = Total(PartLengths(demux)) + length
      BY <1>1, <1>2, <2>2, LengthsOfAppend
    <2> QED BY <1>1, <1>3, <1>4, <2>1, <2>3
  <1>5. CASE ~(Len(demux) < MAX_NUM_CHANNELS)
    <2>1. WithPart(length) = demux
      BY <1>5 DEF WithPart
    <2> QED BY <1>1, <2>1
  <1> QED BY <1>4, <1>5

\* A turn of the header's loop fails or counts what it has read.
LEMMA DecodeTurn ==
    ASSUME CursorInv, DecodeSubheader
    PROVE  DecodeFails \/ \E counted, left, parts :
                             NextSubheader(counted, left, parts) /\ Turn(counted, left, parts)
  <1> phase = "header"
    BY DEF DecodeSubheader
  <1>1. /\ pdu \in Pdus /\ idx \in 1 .. Len(pdu.subs) /\ Len(pdu.subs) \in Nat \ {0}
        /\ Current \in Subheader
        /\ ~Current.ext => idx = Len(pdu.subs)
        /\ HeaderBytes(Current) \in Nat \ {0}
        /\ demux \in Seq(Parts) /\ Len(demux) \in Nat /\ Len(demux) <= MAX_NUM_CHANNELS
        /\ Total(PartLengths(demux)) \in Nat
        /\ remaining \in Nat /\ dataPtrPos \in Nat
    BY CurrentFacts
  <1>2. EndsWithSdu(pdu) /\ ~Current.ext => Current.lcId \in Sdu
    BY <1>1 DEF EndsWithSdu, Current
  <1>3. ASSUME ProcessSdu, ~DecodeFails
        PROVE  \E counted, left, parts : NextSubheader(counted, left, parts) /\ Turn(counted, left, parts)
    <2> DEFINE counted == dataPtrPos + HeaderBytes(Current)
               length == LocalLength(counted)
    <2>1. /\ Current.lcId \in 0 .. 10
          /\ length # 0 /\ ~(remaining < length)
          /\ NextSubheader(counted, remaining - length, WithPart(length))
      BY <1>3 DEF ProcessSdu, Sdu
    <2>2. counted \in Nat
      BY <1>1
    <2> HIDE DEF counted
    <2>3. length \in Nat /\ (~Current.ext => length = 0 \/ length = remaining - counted)
      BY <1>1, <2>2 DEF LocalLength, Subheader
    <2> HIDE DEF length
    <2>4. length \in Nat \ {0} /\ Current.lcId \in 0 .. 30
      BY <2>1, <2>3
    <2>5. /\ WithPart(length) \in Seq(Parts)
          /\ Len(WithPart(length)) \in {Len(demux), Len(demux) + 1}
          /\ Len(WithPart(length)) <= MAX_NUM_CHANNELS
          /\ Total(PartLengths(WithPart(length))) \in Nat
          /\ Total(PartLengths(WithPart(length))) <= Total(PartLengths(demux)) + length
      BY <2>4, WithPartFacts
    <2>6. /\ remaining - length \in Nat
          /\ (remaining - length) + Total(PartLengths(WithPart(length))) <= remaining + Total(PartLengths(demux))
          /\ ~Current.ext => remaining - length = counted
      BY <1>1, <2>1, <2>2, <2>3, <2>4, <2>5
    <2>7. Turn(counted, remaining - length, WithPart(length))
      BY <2>2, <2>5, <2>6 DEF Turn, counted
    <2> QED BY <2>1, <2>7
  <1>4. ASSUME ProcessControlElement, ~DecodeFails
        PROVE  \E counted, left, parts : NextSubheader(counted, left, parts) /\ Turn(counted, left, parts)
    <2> DEFINE length == CeLength[Current.lcId]
               counted == dataPtrPos + 1
    <2>1. /\ Current.lcId \in 26 .. 30
          /\ ~(remaining < length)
          /\ NextSubheader(counted, remaining - length, WithPart(length))
      BY <1>4, CeLengthFacts DEF ProcessControlElement
    <2>2. length \in Nat \ {0} /\ Current.lcId \in 0 .. 30 /\ Current.lcId \notin Sdu
      BY <2>1, CeLengthFacts DEF Sdu
    <2>3. counted \in Nat /\ counted = dataPtrPos + HeaderBytes(Current)
      BY <1>1, <2>2 DEF HeaderBytes
    <2> HIDE DEF length, counted
    <2>5. /\ WithPart(length) \in Seq(Parts)
          /\ Len(WithPart(length)) \in {Len(demux), Len(demux) + 1}
          /\ Len(WithPart(length)) <= MAX_NUM_CHANNELS
          /\ Total(PartLengths(WithPart(length))) \in Nat
          /\ Total(PartLengths(WithPart(length))) <= Total(PartLengths(demux)) + length
      BY <2>2, WithPartFacts
    <2>6. /\ remaining - length \in Nat
          /\ (remaining - length) + Total(PartLengths(WithPart(length))) <= remaining + Total(PartLengths(demux))
      BY <1>1, <2>1, <2>2, <2>5
    <2>7. Turn(counted, remaining - length, WithPart(length))
      BY <1>2, <2>2, <2>3, <2>5, <2>6 DEF Turn
    <2> QED BY <2>1, <2>7
  <1>5. ASSUME MacProcessPaddingLch, ~DecodeFails
        PROVE  \E counted, left, parts : NextSubheader(counted, left, parts) /\ Turn(counted, left, parts)
    <2> DEFINE counted == dataPtrPos + 1
               rest == IF remaining > counted THEN remaining - counted ELSE counted - remaining
    <2>1. Current.lcId \notin Sdu
      BY <1>5 DEF MacProcessPaddingLch, Sdu, MAC_PADDING_LCH
    <2>2. counted \in Nat /\ counted = dataPtrPos + HeaderBytes(Current)
      BY <1>1, <2>1 DEF HeaderBytes
    <2>3. PICK left \in {remaining, remaining - rest} :
            /\ NextSubheader(counted, left, demux)
            /\ left = remaining \/ ~(remaining < rest)
      BY <1>5 DEF MacProcessPaddingLch
    <2>4. left \in Nat /\ left <= remaining
      BY <1>1, <2>2, <2>3
    <2> HIDE DEF counted, rest
    <2>5. left + Total(PartLengths(demux)) <= remaining + Total(PartLengths(demux))
      BY <1>1, <2>4
    <2>6. Turn(counted, left, demux)
      BY <1>1, <1>2, <2>1, <2>2, <2>4, <2>5 DEF Turn
    <2> QED BY <2>3, <2>6
  <1>6. ASSUME InvalidLcId
        PROVE  \E counted, left, parts : NextSubheader(counted, left, parts) /\ Turn(counted, left, parts)
    <2>1. ~Defined(pdu)
      BY <1>1, <1>6 DEF InvalidLcId, Defined, Current
    <2>2. Turn(dataPtrPos, remaining, demux)
      BY <1>1, <2>1 DEF Turn
    <2> QED BY <1>6, <2>2 DEF InvalidLcId
  <1> QED BY <1>3, <1>4, <1>5, <1>6 DEF DecodeSubheader

-----------------------------------------------------------------------------
\* Nothing copied, nothing to hold against it.
LEMMA EmptyIsFine ==
    ASSUME toRrc' = <<>>, rlcData' = <<>>, toRlc' = <<>>
    PROVE  /\ CopiesAreDisjoint'
           /\ TypeOK' => CopiesStayInside'
           /\ Copies' = {}
  <1>1. Present(<<>>) = {}
    BY DEF Present, ToSet
  <1>2. Present(toRrc)' = {} /\ Present(rlcData)' = {} /\ Present(toRlc)' = {}
    BY <1>1 DEF Present, ToSet
  <1>3. InOrder(toRrc)' /\ InOrder(rlcData)' /\ InOrder(toRlc)'
    <2>1. \A j \in 1 .. Len(<<>>) : FALSE
      OBVIOUS
    <2> QED BY <2>1 DEF InOrder
  <1>4. Copies' = {}
    BY <1>2 DEF Copies
  <1> QED BY <1>2, <1>3, <1>4 DEF CopiesAreDisjoint, CopiesStayInside

\* Before the first PDU no cursor stands anywhere.
LEMMA CursorInit == Init => CursorInv
  <1> SUFFICES ASSUME Init PROVE CursorInv
    OBVIOUS
  <1>1. TypeOK
    <2>1. NoPdu \in [length : Nat, subs : Seq(Subheader)] /\ Len(NoPdu.subs) = 0
      BY DEF NoPdu
    <2>2. demux \in Seq([lchId : 0 .. 30, length : Nat \ {0}]) /\ Len(demux) = 0
      BY DEF Init
    <2>3. rlcData \in Seq(Received) /\ toRrc \in Seq(Received) /\ toRlc \in Seq(Received)
      BY DEF Init
    <2> QED BY <2>1, <2>2, <2>3, MacDemuxAssumption DEF Init, TypeOK
  <1>2. Present(<<>>) = {} /\ InOrder(<<>>)
    BY DEF Present, ToSet, InOrder
  <1>3. Copies = {} /\ CopiesAreDisjoint
    BY <1>2 DEF Init, Copies, CopiesAreDisjoint
  <1>4. CopiesStayInside
    BY <1>1, <1>3 DEF CopiesStayInside
  <1> QED BY <1>1, <1>3, <1>4 DEF Init, CursorInv, BlocksComeBack, PduInHand, Fresh,
            NotYetSent, HeaderCursor, PayloadCursor, Behind

\* A new PDU: the cursor stands before its first subheader.
LEMMA CursorStart ==
    ASSUME CursorInv, NEW p \in Pdus, MacProcessUlSchPdu(p)
    PROVE  CursorInv'
  <1> USE DEF MacProcessUlSchPdu, sendVars
  <1>1. /\ phase = "idle" /\ phase' = "header" /\ pdu' = p /\ remaining' = p.length
        /\ idx' = 1 /\ dataPtrPos' = 0 /\ demux' = <<>> /\ dataPtr' = 0
        /\ toRrc' = <<>> /\ rlcData' = <<>> /\ toRlc' = <<>> /\ held' = {}
    BY DEF CursorInv, Fresh, NotYetSent, BlocksComeBack
  <1>2. p \in [length : Nat, subs : Seq(Subheader)] /\ p.length \in Nat /\ Len(p.subs) \in Nat \ {0}
    BY SubheaderFacts
  <1>3. TypeOK'
    <2>1. idx' \in 1 .. Len(pdu'.subs) + 1
      BY <1>1, <1>2
    <2> QED BY <1>1, <1>2, <2>1 DEF CursorInv, TypeOK
  <1>4. CopiesAreDisjoint' /\ CopiesStayInside'
    BY <1>1, <1>3, EmptyIsFine
  <1>5. HeaderCursor'
    <2>1. <<>> \in Seq(Parts) /\ Len(<<>>) = 0
      OBVIOUS
    <2>2. Total(PartLengths(<<>>)) = 0
      BY <2>1, LengthsFacts
    <2>3. Total(PartLengths(demux))' = 0
      BY <1>1, <2>2 DEF Total, Sums, PartLengths
    <2>4. Sums(HeaderSizes(pdu))[idx - 1]' = 0
      <3>1. idx' - 1 = 0
        BY <1>1
      <3>2. Sums(HeaderSizes(p))[0] = 0
        BY HeaderSteps
      <3>3. Sums(HeaderSizes(pdu))' = Sums(HeaderSizes(p))
        BY <1>1 DEF Sums, HeaderSizes
      <3> QED BY <3>1, <3>2, <3>3
    <2>5. idx' \in 1 .. Len(pdu.subs)' /\ Len(demux)' < idx'
      BY <1>1, <1>2
    <2>6. p.length + 0 <= p.length
      BY <1>2
    <2> QED BY <1>1, <1>2, <2>3, <2>4, <2>5, <2>6 DEF HeaderCursor
  <1> QED BY <1>1, <1>3, <1>4, <1>5 DEF CursorInv, BlocksComeBack, PduInHand, Fresh,
            NotYetSent, PayloadCursor, Behind

\* The loop gives up.
LEMMA CursorFails ==
    ASSUME CursorInv, phase = "header", DecodeFails
    PROVE  CursorInv'
  <1>1. /\ phase' = "done" /\ pdu' = pdu /\ idx' = idx
        /\ toRrc' = <<>> /\ rlcData' = <<>> /\ toRlc' = <<>> /\ held' = {}
    BY DEF DecodeFails, sendVars, CursorInv, NotYetSent, BlocksComeBack
  <1>2. TypeOK'
    BY <1>1 DEF DecodeFails, decodeVars, sendVars, CursorInv, TypeOK
  <1>3. CopiesAreDisjoint' /\ CopiesStayInside'
    BY <1>1, <1>2, EmptyIsFine
  <1> QED BY <1>1, <1>2, <1>3 DEF CursorInv, BlocksComeBack, PduInHand, Fresh,
            NotYetSent, HeaderCursor, PayloadCursor, Behind

\* The loop goes on, or comes to the payload.
LEMMA CursorTurns ==
    ASSUME CursorInv, phase = "header",
           NEW counted, NEW left, NEW parts, NextSubheader(counted, left, parts), Turn(counted, left, parts)
    PROVE  CursorInv'
  <1>1. /\ pdu \in Pdus /\ idx \in 1 .. Len(pdu.subs) /\ Len(pdu.subs) \in Nat \ {0}
        /\ Current.ext <=> idx < Len(pdu.subs)
        /\ ~Current.ext => idx = Len(pdu.subs)
        /\ HeaderBytes(Current) \in Nat \ {0}
        /\ Len(demux) \in Nat /\ Total(PartLengths(demux)) \in Nat
        /\ remaining \in Nat /\ dataPtrPos \in Nat /\ dataPtr \in Nat
    BY CurrentFacts
  <1>2. /\ dataPtrPos' = counted /\ remaining' = left /\ demux' = parts
        /\ dataPtr' = dataPtr + HeaderBytes(Current)
        /\ pdu' = pdu /\ toRrc' = <<>> /\ rlcData' = <<>> /\ toRlc' = <<>> /\ held' = {}
        /\ Current.ext => phase' = "header" /\ idx' = idx + 1
        /\ ~Current.ext => phase' = "send" /\ idx' = 1
    BY DEF NextSubheader, sendVars, CursorInv, NotYetSent, BlocksComeBack
  <1>3. /\ counted \in Nat /\ left \in Nat /\ parts \in Seq(Parts)
        /\ Len(parts) \in {Len(demux), Len(demux) + 1} /\ Len(parts) <= MAX_NUM_CHANNELS
        /\ left + Total(PartLengths(parts)) <= remaining + Total(PartLengths(demux))
        /\ Defined(pdu) => counted = dataPtrPos + HeaderBytes(Current)
        /\ Defined(pdu) /\ EndsWithSdu(pdu) /\ ~Current.ext => left = counted
    BY DEF Turn
  <1>4. idx' \in 1 .. Len(pdu.subs)
    BY <1>1, <1>2
  <1>5. TypeOK'
    <2>1. idx' \in 1 .. Len(pdu'.subs) + 1
      BY <1>1, <1>2, <1>4
    <2>2. demux' \in Seq([lchId : 0 .. 30, length : Nat \ {0}])
      BY <1>2, <1>3 DEF Parts
    <2>3. dataPtr' \in Nat
      BY <1>1, <1>2
    <2>4. phase' \in {"header", "send"} /\ pdu' \in [length : Nat, subs : Seq(Subheader)]
      BY <1>1, <1>2 DEF CursorInv, TypeOK
    <2> QED BY <1>2, <1>3, <2>1, <2>2, <2>3, <2>4 DEF TypeOK
  <1>6. CopiesAreDisjoint' /\ CopiesStayInside'
    BY <1>2, <1>5, EmptyIsFine
  <1>7. /\ Len(demux) < idx
        /\ dataPtr = Sums(HeaderSizes(pdu))[idx - 1]
        /\ remaining + Total(PartLengths(demux)) <= pdu.length
        /\ Defined(pdu) => dataPtrPos = dataPtr
    BY DEF CursorInv, HeaderCursor
  <1>8. dataPtr' = Sums(HeaderSizes(pdu))[idx]
    <2>1. Sums(HeaderSizes(pdu))[idx] = Sums(HeaderSizes(pdu))[idx - 1] + HeaderBytes(pdu.subs[idx])
      BY <1>1, HeaderSteps
    <2> QED BY <1>2, <1>7, <2>1 DEF Current
  <1>9. left + Total(PartLengths(parts)) <= pdu.length
    <2>1. Total(PartLengths(parts)) \in Nat
      <3>1. Len(parts) \in 0 .. Len(parts)
        BY <1>3, LenProperties
      <3> QED BY <1>3, <3>1, LengthsFacts
    <2>2. pdu.length \in Nat
      BY <1>1, SubheaderFacts
    <2> QED BY <1>1, <1>3, <1>7, <2>1, <2>2
  <1>10. Defined(pdu) => counted = dataPtr'
    BY <1>2, <1>3, <1>7
  <1>11. ASSUME Current.ext PROVE HeaderCursor' /\ PayloadCursor'
    <2>1. idx' - 1 = idx /\ idx' \in 1 .. Len(pdu.subs) /\ phase' = "header"
      BY <1>1, <1>2, <1>4, <1>11
    <2>2. Len(parts) < idx'
      <3>1. Len(demux) \in Nat /\ Len(demux) < idx /\ idx \in Nat /\ idx' = idx + 1
        BY <1>1, <1>2, <1>7, <1>11
      <3>2. Len(parts) \in {Len(demux), Len(demux) + 1}
        BY <1>3
      <3> QED BY ONLY <3>1, <3>2
    <2>3. Total(PartLengths(demux))' = Total(PartLengths(parts))
      BY <1>2 DEF Total, Sums, PartLengths
    <2>4. Sums(HeaderSizes(pdu))[idx - 1]' = dataPtr'
      <3>1. Sums(HeaderSizes(pdu))' = Sums(HeaderSizes(pdu))
        BY <1>2 DEF Sums, HeaderSizes
      <3> QED BY <1>8, <2>1, <3>1
    <2>5. Defined(pdu)' <=> Defined(pdu)
      BY <1>2 DEF Defined
    <2>6. HeaderCursor'
      BY <1>2, <1>9, <1>10, <2>1, <2>2, <2>3, <2>4, <2>5 DEF HeaderCursor
    <2> QED BY <2>1, <2>6 DEF PayloadCursor
  <1>12. ASSUME ~Current.ext PROVE HeaderCursor' /\ PayloadCursor'
    <2>1. phase' = "send" /\ idx' = 1 /\ idx = Len(pdu.subs)
      BY <1>1, <1>2, <1>12
    <2>2. Len(parts) \in Nat /\ Len(parts) <= Len(pdu.subs)
      BY <1>1, <1>3, <1>7, <2>1
    <2>3. dataPtr' = HeaderLength(pdu)
      BY <1>1, <1>8, <2>1, HeaderSteps
    <2>4. HeaderLength(pdu)' = HeaderLength(pdu)
      BY <1>2 DEF HeaderLength, HeaderSizes, Total, Sums
    <2>5. Sums(PartLengths(demux))[idx - 1]' = 0
      <3>1. idx' - 1 = 0
        BY <2>1
      <3>2. Sums(PartLengths(parts))[0] = 0
        BY <1>3, LengthsFacts
      <3>3. Sums(PartLengths(demux))' = Sums(PartLengths(parts))
        BY <1>2 DEF Sums, PartLengths
      <3> QED BY <3>1, <3>2, <3>3
    <2>6. Total(PartLengths(demux))' = Total(PartLengths(parts))
      BY <1>2 DEF Total, Sums, PartLengths
    <2>7. EndsWithSdu(pdu)' /\ Defined(pdu)' => HeaderLength(pdu) + Total(PartLengths(parts)) <= pdu.length
      <3>1. Defined(pdu)' <=> Defined(pdu)
        BY <1>2 DEF Defined
      <3>2. EndsWithSdu(pdu)' <=> EndsWithSdu(pdu)
        BY <1>2 DEF EndsWithSdu
      <3>3. Defined(pdu) /\ EndsWithSdu(pdu) => left = HeaderLength(pdu)
        BY <1>3, <1>10, <1>12, <2>3
      <3> QED BY <1>9, <3>1, <3>2, <3>3
    <2>8. HeaderLength(pdu) \in Nat
      BY <1>1, SizesFacts
    <2>9. idx' \in 1 .. Len(demux)' + 1 /\ Len(demux)' <= Len(pdu.subs)'
      BY <1>2, <2>1, <2>2
    <2>10. PayloadCursor'
      BY <1>2, <2>1, <2>3, <2>4, <2>5, <2>6, <2>7, <2>8, <2>9 DEF PayloadCursor
    <2> QED BY <2>1, <2>10 DEF HeaderCursor
  <1>13. phase' \in {"header", "send"}
    BY <1>2
  <1> QED BY <1>1, <1>2, <1>5, <1>6, <1>11, <1>12, <1>13 DEF CursorInv, BlocksComeBack, PduInHand, Fresh,
            NotYetSent, Behind

\* The payload is handed out only with a block for it.
LEMMA CursorSends ==
    ASSUME CursorInv, MacDeMultiplexAndSend
    PROVE  CursorInv'
  <1>1. /\ phase = "send" /\ phase' \in {"walk", "done"}
        /\ phase' = "done" => held' = {}
        /\ held' \subseteq {"ind", "rlcData"}
        /\ pdu' = pdu /\ idx' = idx /\ dataPtr' = dataPtr /\ demux' = demux
        /\ toRrc' = <<>> /\ rlcData' = <<>> /\ toRlc' = <<>>
    BY DEF MacDeMultiplexAndSend, decodeVars, CursorInv, NotYetSent, BlocksComeBack
  <1>2. TypeOK'
    BY <1>1 DEF MacDeMultiplexAndSend, decodeVars, CursorInv, TypeOK
  <1>3. CopiesAreDisjoint' /\ CopiesStayInside'
    BY <1>1, <1>2, EmptyIsFine
  <1>4. PayloadCursor'
    <2>1. /\ HeaderLength(pdu)' = HeaderLength(pdu)
          /\ Sums(PartLengths(demux))' = Sums(PartLengths(demux))
          /\ Total(PartLengths(demux))' = Total(PartLengths(demux))
          /\ EndsWithSdu(pdu)' <=> EndsWithSdu(pdu)
          /\ Defined(pdu)' <=> Defined(pdu)
      BY <1>1 DEF HeaderLength, HeaderSizes, Total, Sums, PartLengths, EndsWithSdu, Defined
    <2> QED BY <1>1, <2>1 DEF CursorInv, PayloadCursor
  <1>5. Behind'
    <2>1. ToSet(<<>>) = {}
      BY DEF ToSet
    <2>2. ToSet(toRrc)' = {} /\ ToSet(rlcData)' = {}
      BY <1>1, <2>1 DEF ToSet
    <2> QED BY <2>2 DEF Behind
  <1> QED BY <1>1, <1>2, <1>3, <1>4, <1>5 DEF CursorInv, BlocksComeBack, PduInHand, Fresh,
            NotYetSent, HeaderCursor

\* A copy that starts where the others end.
LEMMA OneMoreCopy ==
    ASSUME NEW got \in Seq(Received), NEW c \in Received, InOrder(got),
           \A s \in ToSet(got) : s.from + s.len <= c.from
    PROVE  /\ Append(got, c) \in Seq(Received)
           /\ InOrder(Append(got, c))
           /\ ToSet(Append(got, c)) = ToSet(got) \cup {c}
  <1>1. Append(got, c) \in Seq(Received) /\ ToSet(Append(got, c)) = ToSet(got) \cup {c}
    BY AppendProperties, ToSetOfAppend
  <1>2. /\ Len(got) \in Nat /\ Len(Append(got, c)) = Len(got) + 1
        /\ \A j \in 1 .. Len(got) : Append(got, c)[j] = got[j] /\ got[j] \in ToSet(got)
        /\ Append(got, c)[Len(got) + 1] = c
    BY AppendProperties, LenProperties DEF ToSet
  <1>3. InOrder(Append(got, c))
    <2> DEFINE t == Append(got, c)
    <2> SUFFICES ASSUME NEW j \in 1 .. Len(t), NEW k \in 1 .. Len(t), j < k
                 PROVE  t[j].from + t[j].len <= t[k].from
      BY DEF InOrder
    <2>1. j \in 1 .. Len(got) /\ (k \in 1 .. Len(got) \/ k = Len(got) + 1)
      BY <1>2
    <2>2. CASE k \in 1 .. Len(got)
      BY <1>2, <2>1, <2>2 DEF InOrder
    <2>3. CASE k = Len(got) + 1
      BY <1>2, <2>1, <2>3
    <2> QED BY <2>1, <2>2, <2>3
  <1> QED BY <1>1, <1>3

\* What a step of the walk does to the two lists: at most one of them gets the
\* part in hand, or the RLC's list an entry without it.
LEMMA PartGoesToOne ==
    ASSUME CursorInv, SendPart
    PROVE  /\ phase = "walk" /\ phase' = "walk" /\ pdu' = pdu /\ toRlc' = toRlc /\ demux' = demux
           /\ remaining' = remaining /\ dataPtrPos' = dataPtrPos
           /\ idx \in 1 .. Len(demux) /\ Len(demux) \in Nat /\ idx' = idx + 1
           /\ Part \in Parts /\ dataPtr \in Nat /\ dataPtr' = dataPtr + Part.length
           /\ held' \subseteq {"ind", "rlcData"}
           /\ \/ toRrc' = toRrc /\ rlcData' = rlcData
              \/ \E c \in Received :
                    /\ c.from = dataPtr /\ c.len <= Part.length
                    /\ \/ toRrc' = Append(toRrc, c) /\ rlcData' = rlcData
                       \/ toRrc' = toRrc /\ rlcData' = Append(rlcData, c)
  <1>1. /\ demux \in Seq(Parts) /\ dataPtr \in Nat /\ held \subseteq {"ind", "rlcData"}
    BY DEF CursorInv, TypeOK, Parts
  <1>2. phase = "walk" /\ idx \in 1 .. Len(demux) /\ Len(demux) \in Nat
    <2>1. phase = "walk" /\ idx <= Len(demux) /\ idx \in 1 .. Len(demux) + 1
      BY DEF SendPart, CursorInv, PayloadCursor
    <2>2. Len(demux) \in Nat
      BY <1>1, LenProperties
    <2> QED BY <2>1, <2>2
  <1>3. Part \in Parts
    BY <1>1, <1>2, ElementOfSeq DEF Part
  <1>4. /\ phase' = phase /\ pdu' = pdu /\ demux' = demux /\ remaining' = remaining
        /\ dataPtrPos' = dataPtrPos /\ idx' = idx + 1 /\ dataPtr' = dataPtr + Part.length
    BY DEF SendPart, NextPart, decodeVars
  <1>5. toRlc' = toRlc /\ held' \subseteq {"ind", "rlcData"}
    BY <1>1 DEF SendPart, SendCcch, MacDemuxOneToTenLchMsg, SkipControlElement, sendVars
  <1> DEFINE none == [Copied EXCEPT !.len = 0]
  <1>6. Part.lchId \in Sdu => /\ Copied \in Received /\ Copied.from = dataPtr /\ Copied.len = Part.length
                             /\ none \in Received /\ none.from = dataPtr /\ none.len = 0
    BY <1>1, <1>3 DEF Copied, Received, Parts
  <1>7. Part.length \in Nat
    BY <1>3 DEF Parts
  <1>8. \/ toRrc' = toRrc /\ rlcData' = rlcData
        \/ Part.lchId \in Sdu /\ toRrc' = Append(toRrc, Copied) /\ rlcData' = rlcData
        \/ Part.lchId \in Sdu /\ toRrc' = toRrc /\ rlcData' \in {Append(rlcData, Copied), Append(rlcData, none)}
    BY DEF SendPart, SendCcch, MacDemuxOneToTenLchMsg, SkipControlElement, sendVars, Sdu
  <1> HIDE DEF none
  <1> QED BY <1>1, <1>2, <1>3, <1>4, <1>5, <1>6, <1>7, <1>8

\* A part of the payload: the copy lies between the cursor and its next place.
LEMMA CursorWalks ==
    ASSUME CursorInv, SendPart
    PROVE  CursorInv'
  <1>1. /\ phase = "walk" /\ phase' = "walk" /\ pdu' = pdu /\ toRlc' = toRlc /\ demux' = demux
        /\ remaining' = remaining /\ dataPtrPos' = dataPtrPos
        /\ idx \in 1 .. Len(demux) /\ Len(demux) \in Nat /\ idx' = idx + 1
        /\ Part \in Parts /\ dataPtr \in Nat /\ dataPtr' = dataPtr + Part.length
        /\ held' \subseteq {"ind", "rlcData"}
    BY PartGoesToOne
  <1>2. Part.length \in Nat
    BY <1>1 DEF Parts
  <1>3. /\ pdu \in Pdus /\ Len(demux) <= Len(pdu.subs) /\ Len(pdu.subs) \in Nat
        /\ demux \in Seq(Parts)
        /\ toRlc = <<>>
        /\ toRrc \in Seq(Received) /\ rlcData \in Seq(Received)
        /\ InOrder(toRrc) /\ InOrder(rlcData)
        /\ \A s \in ToSet(toRrc) \cup ToSet(rlcData) : s.from + s.len <= dataPtr
    <2>1. pdu \in Pdus
      BY <1>1 DEF CursorInv, PduInHand
    <2> QED BY <1>1, <2>1, SubheaderFacts DEF CursorInv, PayloadCursor, NotYetSent, Behind, TypeOK,
              Parts, CopiesAreDisjoint
  <1>4. /\ toRrc' \in Seq(Received) /\ rlcData' \in Seq(Received)
        /\ InOrder(toRrc') /\ InOrder(rlcData')
        /\ \A s \in ToSet(toRrc') : s \in ToSet(toRrc) \/ (s.from = dataPtr /\ s.from + s.len <= dataPtr')
        /\ \A s \in ToSet(rlcData') : s \in ToSet(rlcData) \/ (s.from = dataPtr /\ s.from + s.len <= dataPtr')
        /\ ToSet(toRrc') = ToSet(toRrc) \/ ToSet(rlcData') = ToSet(rlcData)
    <2>1. CASE toRrc' = toRrc /\ rlcData' = rlcData
      BY <1>3, <2>1
    <2>2. ASSUME NEW c \in Received, c.from = dataPtr, c.len <= Part.length,
                 toRrc' = Append(toRrc, c), rlcData' = rlcData
          PROVE  <1>4!:
      <3>1. c.from + c.len <= dataPtr'
        BY <1>1, <1>2, <2>2 DEF Received
      <3>2. /\ Append(toRrc, c) \in Seq(Received) /\ InOrder(Append(toRrc, c))
            /\ ToSet(Append(toRrc, c)) = ToSet(toRrc) \cup {c}
        BY <1>3, <2>2, OneMoreCopy
      <3> QED BY <1>3, <2>2, <3>1, <3>2
    <2>3. ASSUME NEW c \in Received, c.from = dataPtr, c.len <= Part.length,
                 toRrc' = toRrc, rlcData' = Append(rlcData, c)
          PROVE  <1>4!:
      <3>1. c.from + c.len <= dataPtr'
        BY <1>1, <1>2, <2>3 DEF Received
      <3>2. /\ Append(rlcData, c) \in Seq(Received) /\ InOrder(Append(rlcData, c))
            /\ ToSet(Append(rlcData, c)) = ToSet(rlcData) \cup {c}
        BY <1>3, <2>3, OneMoreCopy
      <3> QED BY <1>3, <2>3, <3>1, <3>2
    <2> QED BY <2>1, <2>2, <2>3, PartGoesToOne
  <1>5. TypeOK'
    <2>1. idx' \in 1 .. Len(pdu'.subs) + 1
      BY <1>1, <1>3
    <2>2. dataPtr' \in Nat
      BY <1>1, <1>2
    <2> QED BY <1>1, <1>4, <2>1, <2>2 DEF CursorInv, TypeOK
  <1>6. /\ HeaderLength(pdu)' = HeaderLength(pdu) /\ HeaderLength(pdu) \in Nat
        /\ Sums(PartLengths(demux))' = Sums(PartLengths(demux))
        /\ Total(PartLengths(demux))' = Total(PartLengths(demux))
        /\ EndsWithSdu(pdu)' <=> EndsWithSdu(pdu)
        /\ Defined(pdu)' <=> Defined(pdu)
    <2>1. HeaderLength(pdu) \in Nat
      BY <1>3, SizesFacts
    <2>2. /\ HeaderLength(pdu)' = HeaderLength(pdu)
          /\ Sums(PartLengths(demux))' = Sums(PartLengths(demux))
          /\ Total(PartLengths(demux))' = Total(PartLengths(demux))
          /\ EndsWithSdu(pdu)' <=> EndsWithSdu(pdu)
          /\ Defined(pdu)' <=> Defined(pdu)
      BY <1>1 DEF HeaderLength, HeaderSizes, Total, Sums, PartLengths, EndsWithSdu, Defined
    <2> QED BY <2>1, <2>2
  <1>7. /\ dataPtr = HeaderLength(pdu) + Sums(PartLengths(demux))[idx - 1]
        /\ EndsWithSdu(pdu) /\ Defined(pdu) => HeaderLength(pdu) + Total(PartLengths(demux)) <= pdu.length
    BY <1>1 DEF CursorInv, PayloadCursor
  <1>8. /\ Sums(PartLengths(demux))[idx] = Sums(PartLengths(demux))[idx - 1] + Part.length
        /\ Sums(PartLengths(demux))[idx - 1] \in Nat
        /\ Sums(PartLengths(demux))[idx] \in Nat /\ Total(PartLengths(demux)) \in Nat
        /\ Sums(PartLengths(demux))[idx] <= Total(PartLengths(demux))
    <2>1. idx - 1 \in 0 .. Len(demux) /\ idx \in 0 .. Len(demux) /\ Len(demux) \in 0 .. Len(demux) /\ idx <= Len(demux)
      BY <1>1
    <2> QED BY <1>1, <1>3, <2>1, LengthsFacts DEF Part
  <1>9. dataPtr' = HeaderLength(pdu) + Sums(PartLengths(demux))[idx]
    <2> DEFINE h == HeaderLength(pdu)
               before == Sums(PartLengths(demux))[idx - 1]
               after == Sums(PartLengths(demux))[idx]
    <2>1. /\ dataPtr' = dataPtr + Part.length /\ Part.length \in Nat
          /\ dataPtr = h + before /\ after = before + Part.length
          /\ h \in Nat /\ before \in Nat
      BY <1>1, <1>2, <1>6, <1>7, <1>8
    <2> HIDE DEF h, before, after
    <2>2. dataPtr' = h + after
      BY ONLY <2>1
    <2> QED BY <2>2 DEF h, after
  <1>10. PayloadCursor'
    <2>1. idx' - 1 = idx /\ idx' \in 1 .. Len(demux) + 1
      BY <1>1
    <2> QED BY <1>1, <1>3, <1>6, <1>7, <1>9, <2>1 DEF PayloadCursor
  <1>11. dataPtr <= dataPtr' /\ HeaderLength(pdu) <= dataPtr
    <2>1. dataPtr <= dataPtr'
      BY <1>1, <1>2
    <2>2. HeaderLength(pdu) <= dataPtr
      BY <1>6, <1>7, <1>8
    <2> QED BY <2>1, <2>2
  <1>12. \A s \in ToSet(toRrc) \cup ToSet(rlcData) \cup ToSet(toRrc') \cup ToSet(rlcData') :
            s \in Received /\ s.from \in Nat /\ s.len \in Nat
    <2>1. \A s \in ToSet(toRrc) \cup ToSet(rlcData) \cup ToSet(toRrc') \cup ToSet(rlcData') : s \in Received
      BY <1>3, <1>4, ElementOfSeq DEF ToSet
    <2> QED BY <2>1 DEF Received
  <1>13. \A s \in ToSet(toRrc') \cup ToSet(rlcData') : s.from + s.len <= dataPtr'
    <2> SUFFICES ASSUME NEW s \in ToSet(toRrc') \cup ToSet(rlcData')
                 PROVE  s.from + s.len <= dataPtr'
      OBVIOUS
    <2>1. \/ s \in ToSet(toRrc) \cup ToSet(rlcData)
          \/ s.from + s.len <= dataPtr'
      BY <1>4
    <2>2. s.from \in Nat /\ s.len \in Nat /\ dataPtr' \in Nat /\ dataPtr \in Nat
      BY <1>1, <1>2, <1>12
    <2>3. s \in ToSet(toRrc) \cup ToSet(rlcData) => s.from + s.len <= dataPtr
      BY <1>3
    <2> QED BY ONLY <1>11, <2>1, <2>2, <2>3
  <1>14. Behind'
    <2>1. (ToSet(toRrc) \cup ToSet(rlcData))' = ToSet(toRrc') \cup ToSet(rlcData')
      BY DEF ToSet
    <2> QED BY <1>13, <2>1 DEF Behind
  <1>15. /\ Present(toRlc') = {}
         /\ Present(toRrc') \subseteq ToSet(toRrc') /\ Present(rlcData') \subseteq ToSet(rlcData')
    BY <1>1, <1>3 DEF Present, ToSet
  <1>16. Copies' = Present(toRrc') \cup Present(rlcData')
    BY <1>15 DEF Copies, Present, ToSet
  <1>17. CopiesStayInside'
    <2> SUFFICES ASSUME NEW s \in Present(toRrc') \cup Present(rlcData'), EndsWithSdu(pdu), Defined(pdu)
                 PROVE  s.from + s.len <= pdu.length
      BY <1>1, <1>5, <1>6, <1>16 DEF CopiesStayInside, EndsWithSdu
    <2>1. s.from + s.len <= dataPtr' /\ s.from \in Nat /\ s.len \in Nat
      BY <1>12, <1>13, <1>15
    <2>2. dataPtr' <= pdu.length /\ dataPtr' \in Nat
      <3>1. pdu.length \in Nat
        BY <1>3, SubheaderFacts
      <3> QED BY <1>6, <1>7, <1>8, <1>9, <3>1
    <2>3. pdu.length \in Nat
      BY <1>3, SubheaderFacts
    <2> QED BY <2>1, <2>2, <2>3
  <1>18. CopiesAreDisjoint'
    <2>1. ASSUME NEW s \in Present(toRrc'), NEW t \in Present(rlcData')
          PROVE  s.from + s.len <= t.from \/ t.from + t.len <= s.from
      <3>1. s \in ToSet(toRrc') /\ t \in ToSet(rlcData') /\ s.len > 0 /\ t.len > 0
        BY DEF Present
      <3>2. CASE s \in ToSet(toRrc) /\ t \in ToSet(rlcData)
        <4>1. s \in Present(toRrc) /\ t \in Present(rlcData)
          BY <3>1, <3>2 DEF Present
        <4> QED BY <4>1 DEF CursorInv, CopiesAreDisjoint
      <3>3. CASE s \notin ToSet(toRrc)
        BY <1>3, <1>4, <3>1, <3>3
      <3>4. CASE t \notin ToSet(rlcData)
        BY <1>3, <1>4, <3>1, <3>4
      <3> QED BY <3>2, <3>3, <3>4
    <2>2. ASSUME NEW s \in Present(toRrc') \cup Present(rlcData')
          PROVE  s.from >= HeaderLength(pdu)
      <3>1. s \in ToSet(toRrc') \cup ToSet(rlcData') /\ s.len > 0
        BY DEF Present
      <3>2. CASE s \in ToSet(toRrc) \cup ToSet(rlcData)
        <4>1. s \in Copies
          BY <3>1, <3>2 DEF Present, Copies
        <4> QED BY <4>1 DEF CursorInv, CopiesAreDisjoint
      <3>3. CASE s.from = dataPtr
        BY <1>1, <1>6, <1>11, <3>3
      <3> QED BY <1>4, <3>1, <3>2, <3>3
    <2>3. InOrder(toRlc')
      BY <1>1 DEF CursorInv, CopiesAreDisjoint
    <2>4. /\ InOrder(toRrc)' = InOrder(toRrc') /\ InOrder(rlcData)' = InOrder(rlcData')
          /\ InOrder(toRlc)' = InOrder(toRlc')
          /\ Present(toRrc)' = Present(toRrc')
          /\ (Present(rlcData) \cup Present(toRlc))' = Present(rlcData') \cup Present(toRlc')
      BY DEF InOrder, Present, ToSet
    <2> QED BY <1>4, <1>6, <1>15, <1>16, <2>1, <2>2, <2>3, <2>4 DEF CopiesAreDisjoint
  <1> QED BY <1>1, <1>5, <1>10, <1>14, <1>17, <1>18 DEF CursorInv, BlocksComeBack, PduInHand, Fresh,
            NotYetSent, HeaderCursor

\* The RLC takes over the list.
LEMMA CursorEnds ==
    ASSUME CursorInv, MacUeDataInd
    PROVE  CursorInv'
  <1>1. /\ phase = "walk" /\ phase' = "done" /\ pdu' = pdu /\ idx' = idx
        /\ toRrc' = toRrc /\ rlcData' = <<>> /\ toRlc' = rlcData /\ toRlc = <<>> /\ held' = {}
    BY DEF MacUeDataInd, CursorInv, NotYetSent, TypeOK
  <1>2. TypeOK'
    <2>1. <<>> \in Seq(Received)
      OBVIOUS
    <2> QED BY <1>1, <2>1 DEF MacUeDataInd, decodeVars, CursorInv, TypeOK
  <1>3. Present(<<>>) = {} /\ InOrder(<<>>)
    BY DEF Present, ToSet, InOrder
  <1>4. /\ Present(toRrc)' = Present(toRrc)
        /\ Present(rlcData)' = {} /\ Present(toRlc) = {}
        /\ Present(toRlc)' = Present(rlcData)
        /\ InOrder(toRrc)' = InOrder(toRrc) /\ InOrder(rlcData)' /\ InOrder(toRlc)' = InOrder(rlcData)
    BY <1>1, <1>3 DEF Present, ToSet, InOrder
  <1>5. Copies' = Copies
    BY <1>4 DEF Copies
  <1>6. HeaderLength(pdu)' = HeaderLength(pdu) /\ (Defined(pdu)' <=> Defined(pdu))
    BY <1>1 DEF HeaderLength, HeaderSizes, Total, Sums, Defined
  <1>7. CopiesAreDisjoint'
    BY <1>4, <1>5, <1>6 DEF CursorInv, CopiesAreDisjoint
  <1>8. CopiesStayInside'
    BY <1>1, <1>2, <1>5, <1>6 DEF CursorInv, CopiesStayInside
  <1> QED BY <1>1, <1>2, <1>7, <1>8 DEF CursorInv, BlocksComeBack, PduInHand, Fresh,
            NotYetSent, HeaderCursor, PayloadCursor, Behind

\* MacProcessUlSchPdu returns: nothing is left of the PDU.
LEMMA CursorReturns ==
    ASSUME CursorInv, Return
    PROVE  CursorInv'
  <1>1. /\ phase = "done" /\ phase' = "idle" /\ pdu' = NoPdu /\ idx' = 1
        /\ dataPtrPos' = 0 /\ remaining' = 0 /\ demux' = <<>> /\ dataPtr' = 0
        /\ rlcData' = <<>> /\ toRrc' = <<>> /\ toRlc' = <<>> /\ held' = {}
    BY DEF Return, CursorInv, BlocksComeBack
  <1>2. TypeOK'
    <2>1. NoPdu \in [length : Nat, subs : Seq(Subheader)] /\ Len(NoPdu.subs) = 0
      BY DEF NoPdu
    <2> QED BY <1>1, <2>1, MacDemuxAssumption DEF TypeOK
  <1>3. CopiesAreDisjoint' /\ CopiesStayInside'
    BY <1>1, <1>2, EmptyIsFine
  <1> QED BY <1>1, <1>2, <1>3 DEF CursorInv, BlocksComeBack, PduInHand, Fresh,
            NotYetSent, HeaderCursor, PayloadCursor, Behind

\* Nothing changes.
LEMMA CursorStutters ==
    ASSUME CursorInv, UNCHANGED vars
    PROVE  CursorInv'
  <1>1. /\ phase' = phase /\ pdu' = pdu /\ idx' = idx /\ dataPtrPos' = dataPtrPos
        /\ remaining' = remaining /\ demux' = demux /\ dataPtr' = dataPtr /\ rlcData' = rlcData
        /\ toRrc' = toRrc /\ toRlc' = toRlc /\ held' = held
    BY DEF vars
  <1>2. /\ TypeOK' /\ BlocksComeBack' /\ PduInHand' /\ Fresh' /\ NotYetSent'
    BY <1>1 DEF CursorInv, TypeOK, BlocksComeBack, PduInHand, Fresh, NotYetSent
  <1>3. /\ Sums(PartLengths(demux))' = Sums(PartLengths(demux))
        /\ Total(PartLengths(demux))' = Total(PartLengths(demux))
        /\ Sums(HeaderSizes(pdu))' = Sums(HeaderSizes(pdu))
        /\ HeaderLength(pdu)' = HeaderLength(pdu)
        /\ Defined(pdu)' <=> Defined(pdu)
        /\ EndsWithSdu(pdu)' <=> EndsWithSdu(pdu)
    BY <1>1 DEF Sums, Total, PartLengths, HeaderSizes, HeaderLength, Defined, EndsWithSdu
  <1>4. HeaderCursor'
    BY <1>1, <1>3 DEF CursorInv, HeaderCursor
  <1>5. PayloadCursor'
    BY <1>1, <1>3 DEF CursorInv, PayloadCursor
  <1>6. Behind'
    <2>1. ToSet(toRrc)' = ToSet(toRrc) /\ ToSet(rlcData)' = ToSet(rlcData)
      BY <1>1 DEF ToSet
    <2> QED BY <1>1, <2>1 DEF CursorInv, Behind
  <1>7. /\ Present(toRrc)' = Present(toRrc) /\ Present(rlcData)' = Present(rlcData)
        /\ Present(toRlc)' = Present(toRlc) /\ Copies' = Copies
        /\ InOrder(toRrc)' = InOrder(toRrc) /\ InOrder(rlcData)' = InOrder(rlcData)
        /\ InOrder(toRlc)' = InOrder(toRlc)
    BY <1>1 DEF Present, ToSet, InOrder, Copies
  <1>8. CopiesAreDisjoint'
    BY <1>3, <1>7 DEF CursorInv, CopiesAreDisjoint
  <1>9. CopiesStayInside'
    BY <1>1, <1>2, <1>3, <1>7 DEF CursorInv, CopiesStayInside
  <1> QED BY <1>2, <1>4, <1>5, <1>6, <1>8, <1>9 DEF CursorInv

\* Every step keeps the cursors where the sizes say.
LEMMA CursorNext == CursorInv /\ [Next]_vars => CursorInv'
  <1> SUFFICES ASSUME CursorInv, [Next]_vars PROVE CursorInv'
    OBVIOUS
  <1>1. ASSUME NEW p \in Pdus, MacProcessUlSchPdu(p) PROVE CursorInv'
    BY <1>1, CursorStart
  <1>2. ASSUME DecodeSubheader PROVE CursorInv'
    <2>1. phase = "header"
      BY <1>2 DEF DecodeSubheader
    <2> QED BY <1>2, <2>1, DecodeTurn, CursorFails, CursorTurns
  <1>3. ASSUME MacDeMultiplexAndSend PROVE CursorInv'
    BY <1>3, CursorSends
  <1>4. ASSUME SendPart PROVE CursorInv'
    BY <1>4, CursorWalks
  <1>5. ASSUME MacUeDataInd PROVE CursorInv'
    BY <1>5, CursorEnds
  <1>6. ASSUME Return PROVE CursorInv'
    BY <1>6, CursorReturns
  <1>7. ASSUME UNCHANGED vars PROVE CursorInv'
    BY <1>7, CursorStutters
  <1> QED BY <1>1, <1>2, <1>3, <1>4, <1>5, <1>6, <1>7 DEF Next

-----------------------------------------------------------------------------
(***************************************************************************)
(* What demuxData holds of a PDU that a UE built by the rules.             *)
(***************************************************************************)
\* subheader j is entry k of demuxData
IsEntry(p, parts, j, k) ==
    /\ p.subs[j].lcId # MAC_PADDING_LCH
    /\ Rank(p)[j] = k
    /\ parts[k] = [lchId |-> p.subs[j].lcId, length |-> Payload(p)[j]]

TooLong(p, j) == p.subs[j].lcId = 0 /\ Payload(p)[j] > MaxCcchLength

\* the first n subheaders are decoded
Decoded(p, parts, n) ==
    /\ \A j \in 1 .. n : ~TooLong(p, j)
    /\ Len(parts) = IF Rank(p)[n] <= MAX_NUM_CHANNELS THEN Rank(p)[n] ELSE MAX_NUM_CHANNELS
    /\ \A k \in 1 .. Len(parts) : \E j \in 1 .. n : IsEntry(p, parts, j, k)

HeaderDecoded ==
    phase = "header" /\ WellFormed(pdu) =>
        /\ Decoded(pdu, demux, idx - 1)
        /\ remaining = pdu.length - Sums(Payload(pdu))[idx - 1]

AllDecoded == phase \in {"send", "walk"} /\ WellFormed(pdu) => Decoded(pdu, demux, Len(pdu.subs))

\* the cursor stands where the next part starts, whatever padding is before it
PartStarts ==
    phase = "walk" /\ WellFormed(pdu) =>
        \A j \in 0 .. Len(pdu.subs) :
            Rank(pdu)[j] = idx - 1 => dataPtr = HeaderLength(pdu) + Sums(Payload(pdu))[j]

SentSoFar ==
    phase = "walk" /\ WellFormed(pdu) =>
        /\ AsSent(toRrc, FirstSdus(pdu, {0}, idx - 1))
        /\ AsSent(rlcData, FirstSdus(pdu, Sdu \ {0}, idx - 1))

DemuxInv ==
    /\ CursorInv
    /\ HeaderDecoded /\ AllDecoded /\ PartStarts /\ SentSoFar
    /\ SdusAsSent

\* Parts are counted one at a time.
LEMMA RankSteps ==
    ASSUME NEW p \in Pdus
    PROVE  /\ Rank(p)[0] = 0
           /\ \A j \in 1 .. Len(p.subs) :
                Rank(p)[j] = Rank(p)[j - 1] + (IF p.subs[j].lcId = MAC_PADDING_LCH THEN 0 ELSE 1)
           /\ \A j \in 0 .. Len(p.subs) : Rank(p)[j] \in Nat
           /\ \A j, k \in 0 .. Len(p.subs) : j <= k => Rank(p)[j] <= Rank(p)[k]
  <1>1. IsPart(p) \in Seq(Nat) /\ IsPart(p) \in Seq(Int) /\ Len(IsPart(p)) = Len(p.subs)
    BY SizesFacts
  <1>2. \A j \in 1 .. Len(p.subs) : IsPart(p)[j] = IF p.subs[j].lcId = MAC_PADDING_LCH THEN 0 ELSE 1
    BY DEF IsPart
  <1>3. /\ Sums(IsPart(p))[0] = 0
        /\ \A j \in 1 .. Len(p.subs) : Sums(IsPart(p))[j] = Sums(IsPart(p))[j - 1] + IsPart(p)[j]
    BY <1>1, SumsSteps
  <1>4. /\ \A j \in 0 .. Len(p.subs) : Sums(IsPart(p))[j] \in Nat
        /\ \A j, k \in 0 .. Len(p.subs) : j <= k => Sums(IsPart(p))[j] <= Sums(IsPart(p))[k]
    BY <1>1, SumsGrow
  <1> QED BY <1>2, <1>3, <1>4 DEF Rank

\* Each part has its own number.
LEMMA RankIsUnique ==
    ASSUME NEW p \in Pdus, NEW j \in 1 .. Len(p.subs), NEW k \in 1 .. Len(p.subs),
           p.subs[j].lcId # MAC_PADDING_LCH, p.subs[k].lcId # MAC_PADDING_LCH,
           Rank(p)[j] = Rank(p)[k]
    PROVE  j = k
  <1>1. Len(p.subs) \in Nat
    BY SubheaderFacts
  <1>2. ASSUME NEW a \in 1 .. Len(p.subs), NEW b \in 1 .. Len(p.subs), a < b,
               p.subs[b].lcId # MAC_PADDING_LCH
        PROVE  Rank(p)[a] < Rank(p)[b]
    <2>1. a \in 0 .. Len(p.subs) /\ b - 1 \in 0 .. Len(p.subs) /\ b \in 0 .. Len(p.subs) /\ a <= b - 1
      BY <1>1, <1>2
    <2>2. Rank(p)[a] <= Rank(p)[b - 1] /\ Rank(p)[b] = Rank(p)[b - 1] + 1
      BY <1>2, <2>1, RankSteps
    <2>3. Rank(p)[a] \in Nat /\ Rank(p)[b - 1] \in Nat
      BY <2>1, RankSteps
    <2> QED BY <2>2, <2>3
  <1>3. j \in 0 .. Len(p.subs) /\ k \in 0 .. Len(p.subs)
    BY <1>1
  <1>4. Rank(p)[j] \in Nat /\ Rank(p)[k] \in Nat
    BY <1>3, RankSteps
  <1>5. ~(j < k)
    BY <1>2, <1>4
  <1>6. ~(k < j)
    BY <1>2, <1>4
  <1> QED BY <1>1, <1>5, <1>6

\* The payload grows by one part at a time, and by none for padding.
LEMMA PayloadSteps ==
    ASSUME NEW p \in Pdus
    PROVE  /\ Sums(Payload(p))[0] = 0
           /\ \A j \in 1 .. Len(p.subs) :
                /\ Sums(Payload(p))[j] = Sums(Payload(p))[j - 1] + Payload(p)[j]
                /\ p.subs[j].lcId = MAC_PADDING_LCH => Payload(p)[j] = 0
           /\ \A j \in 0 .. Len(p.subs) : Sums(Payload(p))[j] \in Int
  <1>1. Payload(p) \in Seq(Int) /\ Len(Payload(p)) = Len(p.subs)
    BY SizesFacts
  <1>2. ASSUME NEW j \in 1 .. Len(p.subs), p.subs[j].lcId = MAC_PADDING_LCH
        PROVE  Payload(p)[j] = 0
    <2>1. p.subs[j].lcId \notin Sdu /\ p.subs[j].lcId \notin DOMAIN CeLength
      BY <1>2, CeLengthFacts DEF Sdu, MAC_PADDING_LCH
    <2>2. Stated(p)[j] = 0
      BY <2>1 DEF Stated
    <2> QED BY <2>1, <2>2 DEF Payload
  <1> QED BY <1>1, <1>2, SumsSteps

\* Between two parts nothing but padding adds nothing.
LEMMA PaddingIsEmpty ==
    ASSUME NEW p \in Pdus, NEW j \in 0 .. Len(p.subs), NEW k \in 0 .. Len(p.subs),
           Rank(p)[j] = Rank(p)[k]
    PROVE  Sums(Payload(p))[j] = Sums(Payload(p))[k]
  <1> DEFINE n == Len(p.subs)
  <1>1. n \in Nat
    BY SubheaderFacts
  <1>2. ASSUME NEW a \in 0 .. n
        PROVE  \A b \in 0 .. n : a <= b /\ Rank(p)[a] = Rank(p)[b] =>
                    Sums(Payload(p))[a] = Sums(Payload(p))[b]
    <2> DEFINE Bad == {b \in 0 .. n : a <= b /\ Rank(p)[a] = Rank(p)[b]
                                      /\ Sums(Payload(p))[a] # Sums(Payload(p))[b]}
    <2>1. Bad = {}
      <3> SUFFICES ASSUME Bad # {} PROVE FALSE
        OBVIOUS
      <3>1. PICK b \in Bad : \A c \in Bad : b <= c
        <4> Bad \in SUBSET Nat
          BY <1>1
        <4> QED BY MinOfNats
      <3>2. b \in 0 .. n /\ a <= b /\ Rank(p)[a] = Rank(p)[b] /\ Sums(Payload(p))[a] # Sums(Payload(p))[b]
        BY <3>1
      <3>3. b \in 1 .. n /\ b - 1 \in 0 .. n /\ a <= b - 1 /\ b - 1 <= b /\ ~(b <= b - 1)
        BY <1>1, <3>2
      <3>4. Rank(p)[a] <= Rank(p)[b - 1] /\ Rank(p)[b - 1] <= Rank(p)[b]
            /\ Rank(p)[a] \in Nat /\ Rank(p)[b - 1] \in Nat
        BY <3>2, <3>3, RankSteps
      <3>5. Rank(p)[b - 1] = Rank(p)[a] /\ Rank(p)[b] = Rank(p)[b - 1]
        BY <3>2, <3>4
      <3>6. Sums(Payload(p))[a] = Sums(Payload(p))[b - 1]
        <4>1. b - 1 \notin Bad
          BY <3>1, <3>3
        <4> QED BY <3>3, <3>5, <4>1
      <3>7. p.subs[b].lcId = MAC_PADDING_LCH
        <4>1. Rank(p)[b] = Rank(p)[b - 1] + (IF p.subs[b].lcId = MAC_PADDING_LCH THEN 0 ELSE 1)
          BY <3>3, RankSteps
        <4> QED BY <3>4, <3>5, <4>1
      <3>8. Sums(Payload(p))[b] = Sums(Payload(p))[b - 1] /\ Sums(Payload(p))[b - 1] \in Int
        <4>1. /\ Sums(Payload(p))[b] = Sums(Payload(p))[b - 1] + Payload(p)[b] /\ Payload(p)[b] = 0
              /\ Sums(Payload(p))[b - 1] \in Int
          BY <3>3, <3>7, PayloadSteps
        <4> QED BY <4>1
      <3> QED BY <3>2, <3>6, <3>8
    <2> QED BY <2>1
  <1>3. j <= k \/ k <= j
    BY <1>1
  <1> QED BY <1>2, <1>3

\* In a PDU that a UE built by the rules the payload fits behind the header, and
\* a last SDU gets what is left.
LEMMA WellFormedFacts ==
    ASSUME NEW p \in Pdus, WellFormed(p)
    PROVE  /\ Defined(p)
           /\ \A j \in 1 .. Len(p.subs) :
                /\ Payload(p)[j] \in Nat
                /\ p.subs[j].lcId \in Sdu => Payload(p)[j] > 0
                /\ p.subs[j].lcId \in Sdu /\ p.subs[j].ext => Payload(p)[j] = p.subs[j].len
                /\ p.subs[j].lcId \in DOMAIN CeLength => Payload(p)[j] = CeLength[p.subs[j].lcId]
           /\ \A j \in 0 .. Len(p.subs) :
                /\ Sums(Payload(p))[j] \in Nat
                /\ HeaderLength(p) + Sums(Payload(p))[j] <= p.length
           /\ EndsWithSdu(p) => HeaderLength(p) + Sums(Payload(p))[Len(p.subs)] = p.length
  <1> DEFINE n == Len(p.subs)
             last == p.subs[n].lcId
  <1>1. /\ n \in Nat \ {0} /\ p.length \in Nat /\ HeaderLength(p) \in Nat /\ Left(p) \in Int
        /\ Stated(p) \in Seq(Nat) /\ Stated(p) \in Seq(Int) /\ Len(Stated(p)) = n
        /\ Payload(p) \in Seq(Int) /\ Len(Payload(p)) = n
        /\ \A j \in 1 .. n : p.subs[j].ext <=> j < n
    BY SubheaderFacts, SizesFacts
  <1>2. /\ Defined(p)
        /\ \A j \in 1 .. n : p.subs[j].lcId \in Sdu => Payload(p)[j] > 0
        /\ last \in Sdu => Left(p) > 0
        /\ Left(p) >= 0
    <2>1. /\ Defined(p)
          /\ \A j \in 1 .. n : p.subs[j].lcId \in Sdu => Payload(p)[j] > 0
          /\ IF last \in Sdu THEN Left(p) > 0
             ELSE IF last = MAC_PADDING_LCH THEN Left(p) >= 0 ELSE Left(p) = 0
      BY DEF WellFormed
    <2> QED BY <1>1, <2>1
  <1>3. \A j \in 1 .. n : Payload(p)[j] = IF j = n /\ p.subs[j].lcId \in Sdu THEN Left(p) ELSE Stated(p)[j]
    BY DEF Payload
  <1>4. \A j \in 1 .. n : Stated(p)[j] = IF p.subs[j].lcId \in Sdu /\ p.subs[j].ext THEN p.subs[j].len
                                        ELSE IF p.subs[j].lcId \in DOMAIN CeLength THEN CeLength[p.subs[j].lcId] ELSE 0
    BY DEF Stated
  <1>5. \A j \in 1 .. n : Stated(p)[j] \in Nat
    BY <1>1, ElementOfSeq
  <1>6. \A l \in Sdu : l \notin DOMAIN CeLength
    BY CeLengthFacts DEF Sdu
  <1>7. Left(p) = p.length - HeaderLength(p) - Sums(Stated(p))[n]
    BY <1>1 DEF Left, Total
  <1> HIDE DEF n, last
  <1>8. n \in 1 .. n /\ ~(n < n) /\ last = p.subs[n].lcId
    BY <1>1 DEF last
  <1>9. ASSUME NEW j \in 1 .. n
        PROVE  /\ Payload(p)[j] \in Nat
               /\ p.subs[j].lcId \in Sdu /\ p.subs[j].ext => Payload(p)[j] = p.subs[j].len
               /\ p.subs[j].lcId \in DOMAIN CeLength => Payload(p)[j] = CeLength[p.subs[j].lcId]
    <2>1. Payload(p)[j] \in Nat
      <3>1. Left(p) \in Nat
        BY <1>1, <1>2
      <3> QED BY <1>3, <1>5, <3>1
    <2>2. p.subs[j].ext => j # n
      BY <1>1, <1>8
    <2> QED BY <1>3, <1>4, <1>6, <2>1, <2>2
  <1>10. Payload(p) \in Seq(Nat)
    <2>1. Payload(p) \in [1 .. n -> Nat]
      <3>1. Payload(p) = [j \in 1 .. n |-> Payload(p)[j]]
        BY <1>1, SeqDef
      <3> QED BY <1>9, <3>1
    <2> QED BY <1>1, <2>1, FunctionIsSeq
  <1>11. HeaderLength(p) + Sums(Payload(p))[n] <= p.length
         /\ (last \in Sdu => HeaderLength(p) + Sums(Payload(p))[n] = p.length)
    <2>1. Sums(Stated(p))[n] = Sums(Stated(p))[n - 1] + Stated(p)[n]
          /\ Sums(Payload(p))[n] = Sums(Payload(p))[n - 1] + Payload(p)[n]
      BY <1>1, <1>8, SumsSteps
    <2>2. Sums(Payload(p))[n - 1] = Sums(Stated(p))[n - 1]
      <3>1. n - 1 \in Nat /\ n - 1 <= n /\ n - 1 \in 0 .. n - 1
        BY <1>1
      <3>2. \A j \in 1 .. n - 1 : Payload(p)[j] = Stated(p)[j]
        BY <1>1, <1>3
      <3> QED BY <1>1, <3>1, <3>2, SumsAgree
    <2>3. Sums(Stated(p))[n - 1] \in Int /\ Stated(p)[n] \in Nat
      <3>1. n - 1 \in 0 .. n
        BY <1>1
      <3> QED BY <1>1, <1>5, <1>8, <3>1, SumsSteps
    <2>4. CASE last \in Sdu
      <3>1. Stated(p)[n] = 0 /\ Payload(p)[n] = Left(p)
        BY <1>1, <1>3, <1>4, <1>6, <1>8, <2>4
      <3> DEFINE h == HeaderLength(p)
                 before == Sums(Stated(p))[n - 1]
                 a == Sums(Stated(p))[n]
                 b == Sums(Payload(p))[n]
      <3>2. /\ p.length \in Nat /\ h \in Nat /\ before \in Int
            /\ a = before + 0 /\ b = before + Left(p) /\ Left(p) = p.length - h - a
        BY <1>1, <1>7, <2>1, <2>2, <2>3, <3>1
      <3> HIDE DEF h, before, a, b
      <3>3. h + b = p.length
        BY ONLY <3>2
      <3>4. h + b <= p.length
        BY ONLY <3>2, <3>3
      <3> QED BY ONLY <3>3, <3>4 DEF h, b
    <2>5. CASE last \notin Sdu
      <3>1. Payload(p)[n] = Stated(p)[n]
        BY <1>3, <1>8, <2>5
      <3> QED BY <1>1, <1>2, <1>7, <2>1, <2>2, <2>3, <2>5, <3>1
    <2> QED BY <2>4, <2>5
  <1>12. ASSUME NEW j \in 0 .. n
         PROVE  Sums(Payload(p))[j] \in Nat /\ HeaderLength(p) + Sums(Payload(p))[j] <= p.length
    <2>1. n \in 0 .. n /\ j <= n
      BY <1>1
    <2>2. Sums(Payload(p))[j] \in Nat /\ Sums(Payload(p))[n] \in Nat /\ Sums(Payload(p))[j] <= Sums(Payload(p))[n]
      BY <1>1, <1>10, <2>1, SumsGrow
    <2> DEFINE a == Sums(Payload(p))[j]
               b == Sums(Payload(p))[n]
               h == HeaderLength(p)
    <2>3. /\ a \in Nat /\ b \in Nat /\ h \in Nat /\ p.length \in Nat
          /\ a <= b /\ h + b <= p.length
      BY <1>1, <1>11, <2>2
    <2> HIDE DEF a, b, h
    <2>4. a \in Nat /\ h + a <= p.length
      BY ONLY <2>3
    <2> QED BY <2>4 DEF a, h
  <1> QED BY <1>2, <1>8, <1>9, <1>11, <1>12 DEF n, EndsWithSdu

-----------------------------------------------------------------------------
\* what demuxData becomes by subheader j
PartsWith(j) == IF pdu.subs[j].lcId = MAC_PADDING_LCH THEN demux ELSE WithPart(Payload(pdu)[j])

\* A turn of the loop finds the next part as the UE meant it, and fails only on a
\* CCCH SDU that is too long.
LEMMA WellFormedTurn ==
    ASSUME DemuxInv, DecodeSubheader, WellFormed(pdu)
    PROVE  \/ DecodeFails /\ TooLong(pdu, idx)
           \/ /\ ~TooLong(pdu, idx)
              /\ \E counted, left :
                    /\ NextSubheader(counted, left, PartsWith(idx))
                    /\ Current.ext => left = pdu.length - Sums(Payload(pdu))[idx]
  <1> CursorInv /\ phase = "header"
    BY DEF DemuxInv, DecodeSubheader
  <1>1. /\ pdu \in Pdus /\ idx \in 1 .. Len(pdu.subs) /\ Len(pdu.subs) \in Nat \ {0}
        /\ Current \in Subheader /\ Current = pdu.subs[idx]
        /\ ~Current.ext => idx = Len(pdu.subs)
        /\ HeaderBytes(Current) \in Nat \ {0}
        /\ dataPtrPos \in Nat
    BY CurrentFacts DEF Current
  <1> DEFINE size == Payload(pdu)[idx]
             before == Sums(Payload(pdu))[idx - 1]
             after == Sums(Payload(pdu))[idx]
             header == HeaderLength(pdu)
  <1>2. pdu.length \in Nat /\ header \in Nat
    BY <1>1, SubheaderFacts, SizesFacts
  <1>3. remaining = pdu.length - before
    BY DEF DemuxInv, HeaderDecoded
  <1>4. before \in Nat /\ after \in Nat /\ after = before + size /\ header + after <= pdu.length
        /\ header + before <= pdu.length
    <2>1. idx - 1 \in 0 .. Len(pdu.subs) /\ idx \in 0 .. Len(pdu.subs)
      BY <1>1
    <2>2. before \in Nat /\ after \in Nat /\ header + after <= pdu.length /\ header + before <= pdu.length
      BY <1>1, <2>1, WellFormedFacts
    <2>3. after = before + size
      BY <1>1, PayloadSteps
    <2> QED BY <2>2, <2>3
  <1>5. /\ size \in Nat
        /\ Current.lcId \in Sdu => size > 0
        /\ Current.lcId \in Sdu /\ Current.ext => size = Current.len
        /\ Current.lcId \in DOMAIN CeLength => size = CeLength[Current.lcId]
        /\ Current.lcId = MAC_PADDING_LCH => size = 0
        /\ Current.lcId \in Sdu \cup DOMAIN CeLength \cup {MAC_PADDING_LCH}
    BY <1>1, WellFormedFacts, PayloadSteps DEF Defined
  <1>6. Current.lcId \in Sdu /\ ~Current.ext => header + after = pdu.length
    BY <1>1, WellFormedFacts DEF EndsWithSdu
  <1>7. ~Current.ext => dataPtrPos + HeaderBytes(Current) = header
    <2>1. dataPtrPos = Sums(HeaderSizes(pdu))[idx - 1]
      BY <1>1, WellFormedFacts DEF CursorInv, HeaderCursor
    <2>2. Sums(HeaderSizes(pdu))[idx] = Sums(HeaderSizes(pdu))[idx - 1] + HeaderBytes(Current)
      BY <1>1, HeaderSteps
    <2> QED BY <1>1, <2>1, <2>2, HeaderSteps
  <1>8. TooLong(pdu, idx) <=> Current.lcId = 0 /\ size > MaxCcchLength
    BY <1>1 DEF TooLong
  <1>9. Current.lcId \in Nat /\ 0 \in Sdu /\ MAC_PADDING_LCH \notin Sdu
        /\ (Current.lcId \in DOMAIN CeLength => Current.lcId \notin Sdu /\ Current.lcId # MAC_PADDING_LCH)
    <2>1. Current.lcId \in 0 .. 31
      BY <1>1 DEF Subheader
    <2>2. DOMAIN CeLength = 26 .. 30
      BY CeLengthFacts
    <2> HIDE DEF size, before, after, header
    <2> QED BY <2>1, <2>2 DEF Sdu, MAC_PADDING_LCH
  <1>10. Current.lcId # MAC_PADDING_LCH => PartsWith(idx) = WithPart(size)
    BY <1>1 DEF PartsWith
  <1>11. Current.lcId = MAC_PADDING_LCH => PartsWith(idx) = demux
    BY <1>1 DEF PartsWith
  <1> HIDE DEF size, before, after, header
  <1>12. remaining - size = pdu.length - after /\ ~(remaining < size)
    BY <1>2, <1>3, <1>4, <1>5
  <1>13. CASE Current.lcId \in Sdu
    <2> DEFINE counted == dataPtrPos + HeaderBytes(Current)
    <2>1. LocalLength(counted) = size
      <3>1. CASE Current.ext
        BY <1>5, <1>13, <3>1 DEF LocalLength
      <3>2. CASE ~Current.ext
        <4>1. counted = header
          BY <1>7, <3>2
        <4> HIDE DEF counted
        <4>2. remaining - header = size /\ ~(remaining <= header)
          BY <1>2, <1>3, <1>4, <1>5, <1>6, <1>13, <3>2
        <4> QED BY <3>2, <4>1, <4>2 DEF LocalLength
      <3> QED BY <3>1, <3>2
    <2>2. /\ Current.lcId = 0 /\ size > MaxCcchLength => DecodeFails
          /\ ~(Current.lcId = 0 /\ size > MaxCcchLength) => NextSubheader(counted, remaining - size, WithPart(size))
      <3>1. ProcessSdu
        BY <1>9, <1>13 DEF DecodeSubheader, ProcessControlElement, MacProcessPaddingLch, InvalidLcId
      <3>2. size # 0
        BY <1>5, <1>13
      <3> HIDE DEF counted
      <3>3. IF Current.lcId = 0 /\ size > MaxCcchLength THEN DecodeFails
            ELSE NextSubheader(counted, remaining - size, WithPart(size))
        BY <1>12, <2>1, <3>1, <3>2 DEF ProcessSdu, counted
      <3> QED BY <3>3
    <2>3. Current.lcId # MAC_PADDING_LCH
      BY <1>9, <1>13
    <2> HIDE DEF counted
    <2> QED BY <1>8, <1>10, <1>12, <2>2, <2>3 DEF after
  <1>14. CASE Current.lcId \in DOMAIN CeLength
    <2>1. ProcessControlElement
      BY <1>9, <1>14 DEF DecodeSubheader, ProcessSdu, MacProcessPaddingLch, InvalidLcId
    <2>2. NextSubheader(dataPtrPos + 1, remaining - size, WithPart(size))
      BY <1>5, <1>12, <1>14, <2>1 DEF ProcessControlElement
    <2>3. Current.lcId # 0 /\ Current.lcId # MAC_PADDING_LCH
      BY <1>9, <1>14
    <2> QED BY <1>8, <1>10, <1>12, <2>2, <2>3 DEF after
  <1>15. CASE Current.lcId = MAC_PADDING_LCH
    <2> DEFINE counted == dataPtrPos + 1
               rest == IF remaining > counted THEN remaining - counted ELSE counted - remaining
    <2>1. MacProcessPaddingLch
      BY <1>9, <1>15 DEF DecodeSubheader, ProcessSdu, ProcessControlElement, InvalidLcId
    <2>2. Current.lcId # 0
      BY <1>9, <1>15
    <2>3. CASE Current.ext
      <3>1. NextSubheader(counted, remaining, demux)
        BY <2>1, <2>3 DEF MacProcessPaddingLch
      <3>2. remaining = pdu.length - after
        BY <1>2, <1>3, <1>4, <1>5, <1>15
      <3> HIDE DEF counted, rest
      <3> QED BY <1>8, <1>11, <1>15, <2>2, <3>1, <3>2 DEF after
    <2>4. CASE ~Current.ext
      <3>1. HeaderBytes(Current) = 1
        BY <1>9, <1>15 DEF HeaderBytes
      <3>2. counted = header
        BY <1>7, <2>4, <3>1
      <3>3. IF remaining < rest THEN DecodeFails ELSE NextSubheader(counted, remaining - rest, demux)
        BY <2>1, <2>4 DEF MacProcessPaddingLch
      <3>4. ~(remaining < rest)
        <4>1. remaining \in Nat /\ header <= remaining
          BY <1>2, <1>3, <1>4
        <4> HIDE DEF counted
        <4> QED BY <1>2, <3>2, <4>1
      <3> HIDE DEF counted, rest
      <3> QED BY <1>8, <1>11, <1>15, <2>2, <2>4, <3>3, <3>4
    <2> QED BY <2>3, <2>4
  <1> QED BY <1>5, <1>13, <1>14, <1>15

\* A subheader more is decoded.
LEMMA OneMoreDecoded ==
    ASSUME CursorInv, phase = "header", WellFormed(pdu), Decoded(pdu, demux, idx - 1), ~TooLong(pdu, idx)
    PROVE  Decoded(pdu, PartsWith(idx), idx)
  <1>1. /\ pdu \in Pdus /\ idx \in 1 .. Len(pdu.subs) /\ Len(pdu.subs) \in Nat \ {0}
        /\ Current = pdu.subs[idx] /\ Current \in Subheader
        /\ demux \in Seq(Parts) /\ Len(demux) \in Nat
    BY CurrentFacts DEF Current
  <1> DEFINE parts == PartsWith(idx)
             r == Rank(pdu)[idx - 1]
  <1>2. r \in Nat /\ Rank(pdu)[idx] = r + (IF Current.lcId = MAC_PADDING_LCH THEN 0 ELSE 1)
    <2>1. idx - 1 \in 0 .. Len(pdu.subs)
      BY <1>1
    <2> QED BY <1>1, <2>1, RankSteps
  <1>3. MAX_NUM_CHANNELS \in Nat
    BY MacDemuxAssumption
  <1>4. \A j \in 1 .. idx : ~TooLong(pdu, j)
    <2>1. \A j \in 1 .. idx : j \in 1 .. idx - 1 \/ j = idx
      BY <1>1
    <2> QED BY <2>1 DEF Decoded
  <1>5. /\ Len(demux) = IF r <= MAX_NUM_CHANNELS THEN r ELSE MAX_NUM_CHANNELS
        /\ \A k \in 1 .. Len(demux) : \E j \in 1 .. idx - 1 : IsEntry(pdu, demux, j, k)
    BY DEF Decoded
  <1>6. \A j \in 1 .. idx - 1 : j \in 1 .. idx
    BY <1>1
  <1> HIDE DEF r
  <1>7. CASE parts = demux /\ (Current.lcId = MAC_PADDING_LCH \/ ~(Len(demux) < MAX_NUM_CHANNELS))
    <2>1. Len(demux) = IF Rank(pdu)[idx] <= MAX_NUM_CHANNELS THEN Rank(pdu)[idx] ELSE MAX_NUM_CHANNELS
      BY <1>2, <1>3, <1>5, <1>7
    <2>2. \A k \in 1 .. Len(demux) : \E j \in 1 .. idx : IsEntry(pdu, demux, j, k)
      BY <1>5, <1>6
    <2> HIDE DEF parts
    <2>3. Decoded(pdu, parts, idx)
      BY <1>4, <1>7, <2>1, <2>2 DEF Decoded
    <2> QED BY <2>3 DEF parts
  <1>8. CASE Current.lcId # MAC_PADDING_LCH /\ Len(demux) < MAX_NUM_CHANNELS
    <2> DEFINE part == [lchId |-> Current.lcId, length |-> Payload(pdu)[idx]]
               t == Append(demux, part)
    <2>1. parts = t
      BY <1>1, <1>8 DEF PartsWith, WithPart
    <2>2. /\ Len(t) = Len(demux) + 1 /\ t[Len(demux) + 1] = part
          /\ \A k \in 1 .. Len(demux) : t[k] = demux[k]
      <3>1. part \in Parts
        <4>1. Payload(pdu)[idx] \in Nat \ {0}
          <5>1. /\ Payload(pdu)[idx] \in Nat
                /\ Current.lcId \in Sdu => Payload(pdu)[idx] > 0
                /\ Current.lcId \in DOMAIN CeLength => Payload(pdu)[idx] = CeLength[Current.lcId]
                /\ Current.lcId \in Sdu \cup DOMAIN CeLength \cup {MAC_PADDING_LCH}
            BY <1>1, WellFormedFacts DEF Defined
          <5> QED BY <1>8, <5>1, CeLengthFacts
        <4>2. Current.lcId \in 0 .. 30
          BY <1>1, <1>8 DEF Subheader, MAC_PADDING_LCH
        <4> QED BY <4>1, <4>2 DEF Parts
      <3> HIDE DEF part
      <3> QED BY <1>1, <3>1, AppendProperties
    <2>3. Len(demux) = r /\ Rank(pdu)[idx] = Len(demux) + 1 /\ Len(demux) + 1 <= MAX_NUM_CHANNELS
      BY <1>1, <1>2, <1>3, <1>5, <1>8
    <2>4. part = [lchId |-> pdu.subs[idx].lcId, length |-> Payload(pdu)[idx]]
          /\ pdu.subs[idx].lcId # MAC_PADDING_LCH
      BY <1>1, <1>8
    <2> HIDE DEF t, part, parts
    <2>5. ASSUME NEW k \in 1 .. Len(t)
          PROVE  \E j \in 1 .. idx : IsEntry(pdu, t, j, k)
      <3>1. k \in 1 .. Len(demux) \/ k = Len(demux) + 1
        BY <1>1, <2>2
      <3>2. CASE k \in 1 .. Len(demux)
        <4>1. PICK j \in 1 .. idx - 1 : IsEntry(pdu, demux, j, k)
          BY <1>5, <3>2
        <4>2. IsEntry(pdu, t, j, k)
          BY <2>2, <3>2, <4>1 DEF IsEntry
        <4> QED BY <1>6, <4>2
      <3>3. CASE k = Len(demux) + 1
        <4>1. IsEntry(pdu, t, idx, k)
          BY <2>2, <2>3, <2>4, <3>3 DEF IsEntry
        <4>2. idx \in 1 .. idx
          BY <1>1
        <4> QED BY <4>1, <4>2
      <3> QED BY <3>1, <3>2, <3>3
    <2>6. Len(t) = IF Rank(pdu)[idx] <= MAX_NUM_CHANNELS THEN Rank(pdu)[idx] ELSE MAX_NUM_CHANNELS
      BY <2>2, <2>3
    <2>7. Decoded(pdu, t, idx)
      BY <1>4, <2>5, <2>6 DEF Decoded
    <2> QED BY <2>1, <2>7 DEF parts
  <1>9. Current.lcId = MAC_PADDING_LCH \/ ~(Len(demux) < MAX_NUM_CHANNELS) => parts = demux
    BY <1>1 DEF PartsWith, WithPart
  <1> QED BY <1>7, <1>8, <1>9

-----------------------------------------------------------------------------
\* The operators on a PDU do not depend on the state.
LEMMA SamePdu ==
    ASSUME pdu' = pdu
    PROVE  /\ WellFormed(pdu)' <=> WellFormed(pdu)
           /\ Refusable(pdu)' <=> Refusable(pdu)
           /\ HeaderLength(pdu)' = HeaderLength(pdu)
           /\ Payload(pdu)' = Payload(pdu)
           /\ Sums(Payload(pdu))' = Sums(Payload(pdu))
           /\ Rank(pdu)' = Rank(pdu)
           /\ Expected(pdu, {0})' = Expected(pdu, {0})
           /\ Expected(pdu, Sdu \ {0})' = Expected(pdu, Sdu \ {0})
  BY DEF WellFormed, Refusable, HeaderLength, Payload, Rank, Expected, FirstSdus, Layout, Defined,
         Left, Stated, HeaderSizes, IsPart, Total, Sums

\* Nothing of nothing was sent.
LEMMA NothingSent ==
    /\ AsSent(<<>>, {})
    /\ AllocMayFail => \A sent : AsSent(<<>>, sent)
  BY DEF AsSent, Present, ToSet, InOrder

\* What is present when an entry is added.
LEMMA PresentOfAppend ==
    ASSUME NEW got \in Seq(Received), NEW c \in Received
    PROVE  Present(Append(got, c)) = Present(got) \cup {s \in {c} : s.len > 0}
  <1>1. ToSet(Append(got, c)) = ToSet(got) \cup {c}
    BY ToSetOfAppend
  <1> QED BY <1>1 DEF Present

\* A new PDU: nothing of it is decoded.
LEMMA DemuxStart ==
    ASSUME DemuxInv, NEW p \in Pdus, MacProcessUlSchPdu(p)
    PROVE  DemuxInv'
  <1>1. CursorInv'
    BY CursorStart DEF DemuxInv
  <1>2. /\ phase' = "header" /\ pdu' = p /\ remaining' = p.length /\ idx' = 1 /\ demux' = <<>>
    BY DEF DemuxInv, CursorInv, Fresh, MacProcessUlSchPdu
  <1>3. p.length \in Nat /\ Rank(p)[0] = 0 /\ Sums(Payload(p))[0] = 0 /\ MAX_NUM_CHANNELS \in Nat
    BY SubheaderFacts, RankSteps, PayloadSteps, MacDemuxAssumption
  <1>4. Decoded(p, <<>>, 0)
    <2>1. Len(<<>>) = 0 /\ \A k \in 1 .. 0 : FALSE
      OBVIOUS
    <2> QED BY <1>3, <2>1 DEF Decoded
  <1>5. HeaderDecoded'
    <2>1. idx' - 1 = 0 /\ p.length - 0 = p.length
      BY <1>2, <1>3
    <2>2. Sums(Payload(pdu))' = Sums(Payload(p))
      BY <1>2 DEF Payload, Left, Stated, HeaderLength, HeaderSizes, Total, Sums
    <2>3. Decoded(pdu, demux, idx - 1)' <=> Decoded(p, <<>>, 0)
      <3>1. Decoded(pdu, demux, idx - 1)' <=> Decoded(pdu', demux', idx' - 1)
        BY DEF Decoded, TooLong, IsEntry, Rank, IsPart, Payload, Left, Stated, HeaderLength, HeaderSizes, Total, Sums
      <3> QED BY <1>2, <2>1, <3>1
    <2> QED BY <1>2, <1>3, <1>4, <2>1, <2>2, <2>3 DEF HeaderDecoded
  <1> QED BY <1>1, <1>2, <1>5 DEF DemuxInv, AllDecoded, PartStarts, SentSoFar, SdusAsSent

\* The primed forms of Decoded.
LEMMA DecodedPrimed ==
    /\ Decoded(pdu, demux, idx - 1)' <=> Decoded(pdu', demux', idx' - 1)
    /\ Decoded(pdu, demux, Len(pdu.subs))' <=> Decoded(pdu', demux', Len(pdu'.subs))
  BY DEF Decoded, TooLong, IsEntry, Rank, IsPart, Payload, Left, Stated, HeaderLength, HeaderSizes, Total, Sums

\* A turn of the loop over the subheaders adds the entry of that subheader.
LEMMA DemuxDecodes ==
    ASSUME DemuxInv, DecodeSubheader
    PROVE  DemuxInv'
  <1> CursorInv /\ phase = "header"
    BY DEF DemuxInv, DecodeSubheader
  <1>1. CursorInv'
    BY DecodeTurn, CursorFails, CursorTurns
  <1>2. pdu' = pdu /\ toRrc' = <<>> /\ rlcData' = <<>> /\ toRlc' = <<>> /\ phase' \in {"header", "send", "done"}
    <2>1. toRrc = <<>> /\ rlcData = <<>> /\ toRlc = <<>>
      BY DEF CursorInv, NotYetSent
    <2> QED BY <2>1, DecodeTurn DEF DecodeFails, NextSubheader, sendVars
  <1>3. WellFormed(pdu)' <=> WellFormed(pdu)
    BY <1>2, SamePdu
  <1>4. CASE ~WellFormed(pdu)
    BY <1>1, <1>3, <1>4 DEF DemuxInv, HeaderDecoded, AllDecoded, PartStarts, SentSoFar, SdusAsSent
  <1>5. ASSUME WellFormed(pdu), DecodeFails, TooLong(pdu, idx)
        PROVE  DemuxInv'
    <2>1. phase' = "done"
      BY <1>5 DEF DecodeFails
    <2>2. Refusable(pdu)
      <3>1. idx \in 1 .. Len(pdu.subs)
        BY CurrentFacts
      <3> QED BY <1>5, <3>1 DEF TooLong, Refusable
    <2>3. Refusable(pdu)'
      BY <1>2, <2>2, SamePdu
    <2> QED BY <1>1, <1>2, <2>1, <2>3 DEF DemuxInv, HeaderDecoded, AllDecoded, PartStarts, SentSoFar, SdusAsSent
  <1>6. ASSUME WellFormed(pdu), ~TooLong(pdu, idx), NEW counted, NEW left,
               NextSubheader(counted, left, PartsWith(idx)),
               Current.ext => left = pdu.length - Sums(Payload(pdu))[idx]
        PROVE  DemuxInv'
    <2>1. Decoded(pdu, PartsWith(idx), idx)
      BY <1>6, OneMoreDecoded DEF DemuxInv, HeaderDecoded
    <2>2. /\ demux' = PartsWith(idx) /\ remaining' = left
          /\ Current.ext => phase' = "header" /\ idx' = idx + 1
          /\ ~Current.ext => phase' = "send" /\ idx' = 1
      BY <1>6 DEF NextSubheader
    <2>3. idx \in 1 .. Len(pdu.subs) /\ Len(pdu.subs) \in Nat /\ (~Current.ext => idx = Len(pdu.subs))
      BY CurrentFacts
    <2>4. CASE Current.ext
      <3>1. idx' - 1 = idx
        BY <2>2, <2>3, <2>4
      <3>2. Decoded(pdu, demux, idx - 1)'
        BY <1>2, <2>1, <2>2, <3>1, DecodedPrimed
      <3>3. Sums(Payload(pdu))' = Sums(Payload(pdu))
        BY <1>2, SamePdu
      <3>4. HeaderDecoded'
        BY <1>2, <1>6, <2>2, <2>4, <3>1, <3>2, <3>3 DEF HeaderDecoded
      <3> QED BY <1>1, <2>2, <2>4, <3>4 DEF DemuxInv, AllDecoded, PartStarts, SentSoFar, SdusAsSent
    <2>5. CASE ~Current.ext
      <3>1. Decoded(pdu, demux, Len(pdu.subs))'
        BY <1>2, <2>1, <2>2, <2>3, <2>5, DecodedPrimed
      <3> QED BY <1>1, <2>2, <2>5, <3>1 DEF DemuxInv, HeaderDecoded, AllDecoded, PartStarts, SentSoFar, SdusAsSent
    <2> QED BY <2>4, <2>5
  <1> QED BY <1>4, <1>5, <1>6, WellFormedTurn

\* Of no parts there are no SDUs, and of all parts that are stored there are those
\* that are expected.
LEMMA FirstSdusEnds ==
    ASSUME NEW p \in Pdus, NEW channels \in SUBSET Sdu, NEW parts, Decoded(p, parts, Len(p.subs))
    PROVE  /\ FirstSdus(p, channels, 0) = {}
           /\ FirstSdus(p, channels, Len(parts)) = Expected(p, channels)
  <1> DEFINE n == Len(p.subs)
  <1>1. n \in Nat /\ MAX_NUM_CHANNELS \in Nat
    BY SubheaderFacts, MacDemuxAssumption
  <1>2. ASSUME NEW k \in 1 .. n, p.subs[k].lcId \in channels
        PROVE  Rank(p)[k] \in Nat \ {0} /\ Rank(p)[k] <= Rank(p)[n] /\ Rank(p)[n] \in Nat
    <2>1. p.subs[k].lcId # MAC_PADDING_LCH
      BY <1>2 DEF Sdu, MAC_PADDING_LCH
    <2>2. k - 1 \in 0 .. n /\ k \in 0 .. n /\ n \in 0 .. n /\ k <= n
      BY <1>1
    <2>3. Rank(p)[k] = Rank(p)[k - 1] + 1 /\ Rank(p)[k - 1] \in Nat
      BY <2>1, <2>2, RankSteps
    <2>4. Rank(p)[k] <= Rank(p)[n] /\ Rank(p)[n] \in Nat
      BY <2>2, RankSteps
    <2> QED BY <2>3, <2>4
  <1>3. FirstSdus(p, channels, 0) = {}
    <2>1. {k \in 1 .. n : p.subs[k].lcId \in channels /\ Rank(p)[k] <= 0} = {}
      BY <1>2
    <2> QED BY <2>1 DEF FirstSdus
  <1>4. Len(parts) = IF Rank(p)[n] <= MAX_NUM_CHANNELS THEN Rank(p)[n] ELSE MAX_NUM_CHANNELS
    BY DEF Decoded
  <1>5. {k \in 1 .. n : p.subs[k].lcId \in channels /\ Rank(p)[k] <= Len(parts)}
        = {k \in 1 .. n : p.subs[k].lcId \in channels /\ Rank(p)[k] <= MAX_NUM_CHANNELS}
    <2>1. ASSUME NEW k \in 1 .. n, p.subs[k].lcId \in channels
          PROVE  Rank(p)[k] <= Len(parts) <=> Rank(p)[k] <= MAX_NUM_CHANNELS
      BY <1>1, <1>2, <1>4, <2>1
    <2> QED BY <2>1
  <1> QED BY <1>3, <1>5 DEF FirstSdus, Expected

\* The header of a PDU built by the rules is decoded; the payload starts behind it.
LEMMA DemuxSends ==
    ASSUME DemuxInv, MacDeMultiplexAndSend
    PROVE  DemuxInv'
  <1>1. CursorInv'
    BY CursorSends DEF DemuxInv
  <1>2. /\ phase = "send" /\ phase' \in {"walk", "done"} /\ (phase' = "done" => AllocMayFail)
        /\ pdu' = pdu /\ idx' = 1 /\ demux' = demux /\ dataPtr' = dataPtr
        /\ toRrc' = <<>> /\ rlcData' = <<>> /\ toRlc' = <<>>
    BY DEF MacDeMultiplexAndSend, decodeVars, DemuxInv, CursorInv, NotYetSent, PayloadCursor
  <1>3. /\ WellFormed(pdu)' <=> WellFormed(pdu)
        /\ HeaderLength(pdu)' = HeaderLength(pdu)
        /\ Sums(Payload(pdu))' = Sums(Payload(pdu))
        /\ Rank(pdu)' = Rank(pdu)
    BY <1>2, SamePdu
  <1>4. CASE ~WellFormed(pdu)
    BY <1>1, <1>2, <1>3, <1>4 DEF DemuxInv, HeaderDecoded, AllDecoded, PartStarts, SentSoFar, SdusAsSent
  <1>5. ASSUME WellFormed(pdu) PROVE DemuxInv'
    <2>1. pdu \in Pdus /\ Decoded(pdu, demux, Len(pdu.subs))
      BY <1>2, <1>5 DEF DemuxInv, AllDecoded, CursorInv, PduInHand
    <2>2. AllDecoded'
      BY <1>2, <2>1, DecodedPrimed DEF AllDecoded
    <2>3. CASE phase' = "walk"
      <3>1. dataPtr = HeaderLength(pdu)
        <4>1. idx = 1 /\ dataPtr = HeaderLength(pdu) + Sums(PartLengths(demux))[idx - 1]
          BY <1>2 DEF DemuxInv, CursorInv, PayloadCursor
        <4>2. demux \in Seq(Parts)
          BY DEF DemuxInv, CursorInv, TypeOK, Parts
        <4>3. Sums(PartLengths(demux))[0] = 0 /\ HeaderLength(pdu) \in Nat /\ idx - 1 = 0
          BY <2>1, <4>1, <4>2, LengthsFacts, SizesFacts
        <4> QED BY <4>1, <4>3
      <3>2. ASSUME NEW j \in 0 .. Len(pdu.subs), Rank(pdu)[j] = 0
            PROVE  dataPtr = HeaderLength(pdu) + Sums(Payload(pdu))[j]
        <4>1. 0 \in 0 .. Len(pdu.subs)
          BY <2>1, SubheaderFacts
        <4>2. Sums(Payload(pdu))[j] = 0
          BY <2>1, <3>2, <4>1, RankSteps, PayloadSteps, PaddingIsEmpty
        <4>3. HeaderLength(pdu) \in Nat
          BY <2>1, SizesFacts
        <4> QED BY <3>1, <4>2, <4>3
      <3>3. idx' - 1 = 0
        BY <1>2
      <3>4. PartStarts'
        BY <1>2, <1>3, <3>2, <3>3 DEF PartStarts
      <3>5. FirstSdus(pdu, {0}, 0) = {} /\ FirstSdus(pdu, Sdu \ {0}, 0) = {}
        <4>1. {0} \in SUBSET Sdu /\ Sdu \ {0} \in SUBSET Sdu
          BY DEF Sdu
        <4> QED BY <2>1, <4>1, FirstSdusEnds
      <3>6. SentSoFar'
        <4>1. /\ FirstSdus(pdu, {0}, idx - 1)' = FirstSdus(pdu, {0}, idx' - 1)
              /\ FirstSdus(pdu, Sdu \ {0}, idx - 1)' = FirstSdus(pdu, Sdu \ {0}, idx' - 1)
          BY <1>2 DEF FirstSdus, Layout, Rank, IsPart, Payload, Left, Stated, HeaderLength, HeaderSizes, Total, Sums
        <4>2. /\ AsSent(toRrc, FirstSdus(pdu, {0}, idx - 1))' <=> AsSent(toRrc', FirstSdus(pdu, {0}, idx - 1)')
              /\ AsSent(rlcData, FirstSdus(pdu, Sdu \ {0}, idx - 1))'
                    <=> AsSent(rlcData', FirstSdus(pdu, Sdu \ {0}, idx - 1)')
          BY DEF AsSent, Present, InOrder, ToSet
        <4> QED BY <1>2, <3>3, <3>5, <4>1, <4>2, NothingSent DEF SentSoFar
      <3> QED BY <1>1, <2>2, <2>3, <3>4, <3>6 DEF DemuxInv, HeaderDecoded, SdusAsSent
    <2>4. CASE phase' = "done"
      <3>1. \A sent : AsSent(<<>>, sent)
        BY <1>2, <2>4, NothingSent
      <3>2. /\ AsSent(toRrc, Expected(pdu, {0}))' <=> AsSent(toRrc', Expected(pdu, {0})')
            /\ AsSent(toRlc, Expected(pdu, Sdu \ {0}))' <=> AsSent(toRlc', Expected(pdu, Sdu \ {0})')
        BY DEF AsSent, Present, InOrder, ToSet
      <3>3. SdusAsSent'
        BY <1>2, <3>1, <3>2 DEF SdusAsSent
      <3> QED BY <1>1, <2>2, <2>4, <3>3 DEF DemuxInv, HeaderDecoded, PartStarts, SentSoFar
    <2> QED BY <1>2, <2>3, <2>4
  <1> QED BY <1>4, <1>5

\* With one part more, the SDUs are those before and this one, if it is for one
\* of the channels.
LEMMA FirstSdusGrow ==
    ASSUME NEW p \in Pdus, NEW channels \in SUBSET Sdu, NEW j \in 1 .. Len(p.subs),
           p.subs[j].lcId # MAC_PADDING_LCH
    PROVE  FirstSdus(p, channels, Rank(p)[j])
           = FirstSdus(p, channels, Rank(p)[j] - 1) \cup {Layout(p, k) : k \in {m \in {j} : p.subs[m].lcId \in channels}}
  <1> DEFINE n == Len(p.subs)
             Upto(r) == {k \in 1 .. n : p.subs[k].lcId \in channels /\ Rank(p)[k] <= r}
             Here == {m \in {j} : p.subs[m].lcId \in channels}
  <1>1. ASSUME NEW k \in 1 .. n, p.subs[k].lcId \in channels
        PROVE  Rank(p)[k] <= Rank(p)[j] <=> Rank(p)[k] <= Rank(p)[j] - 1 \/ k = j
    <2>1. p.subs[k].lcId # MAC_PADDING_LCH
      BY <1>1 DEF Sdu, MAC_PADDING_LCH
    <2>2. n \in Nat /\ k \in 0 .. n /\ j \in 0 .. n
      BY SubheaderFacts
    <2>3. Rank(p)[k] \in Nat /\ Rank(p)[j] \in Nat
      BY <2>2, RankSteps
    <2>4. Rank(p)[k] = Rank(p)[j] => k = j
      BY <2>1, RankIsUnique
    <2> QED BY <2>3, <2>4
  <1>2. Upto(Rank(p)[j]) = Upto(Rank(p)[j] - 1) \cup Here
    BY <1>1
  <1>3. \A r : FirstSdus(p, channels, r) = {Layout(p, k) : k \in Upto(r)}
    BY DEF FirstSdus
  <1> HIDE DEF Upto, Here
  <1> QED BY <1>2, <1>3 DEF Here

\* The part in hand is the one the UE put there.
LEMMA PartInHand ==
    ASSUME DemuxInv, SendPart, WellFormed(pdu)
    PROVE  \E j \in 1 .. Len(pdu.subs) :
             /\ pdu.subs[j].lcId # MAC_PADDING_LCH
             /\ Rank(pdu)[j] = idx
             /\ Copied = Layout(pdu, j)
             /\ Part.lchId = pdu.subs[j].lcId /\ Part.length = Payload(pdu)[j]
             /\ dataPtr = HeaderLength(pdu) + Sums(Payload(pdu))[j - 1]
  <1>1. CursorInv /\ phase = "walk" /\ idx \in 1 .. Len(demux) /\ Len(demux) \in Nat
    BY PartGoesToOne DEF DemuxInv
  <1>2. pdu \in Pdus /\ Decoded(pdu, demux, Len(pdu.subs))
    BY <1>1 DEF DemuxInv, AllDecoded, CursorInv, PduInHand
  <1>3. PICK j \in 1 .. Len(pdu.subs) : IsEntry(pdu, demux, j, idx)
    BY <1>1, <1>2 DEF Decoded
  <1>4. /\ pdu.subs[j].lcId # MAC_PADDING_LCH /\ Rank(pdu)[j] = idx
        /\ demux[idx] = [lchId |-> pdu.subs[j].lcId, length |-> Payload(pdu)[j]]
    BY <1>3 DEF IsEntry
  <1>5. Part.lchId = pdu.subs[j].lcId /\ Part.length = Payload(pdu)[j]
    BY <1>4 DEF Part
  <1>6. j - 1 \in 0 .. Len(pdu.subs)
    BY <1>2, SubheaderFacts
  <1>7. Rank(pdu)[j - 1] = idx - 1
    <2>1. Rank(pdu)[j] = Rank(pdu)[j - 1] + 1 /\ Rank(pdu)[j - 1] \in Nat
      BY <1>2, <1>4, <1>6, RankSteps
    <2> QED BY <1>1, <1>4, <2>1
  <1>8. dataPtr = HeaderLength(pdu) + Sums(Payload(pdu))[j - 1]
    BY <1>1, <1>6, <1>7 DEF DemuxInv, PartStarts
  <1>9. Copied = Layout(pdu, j)
    BY <1>5, <1>8 DEF Copied, Layout
  <1> QED BY <1>4, <1>5, <1>8, <1>9

\* A list after a step of the walk that takes or misses an SDU for it.
LEMMA StillAsSent ==
    ASSUME NEW got \in Seq(Received), NEW got2, NEW sent, NEW c \in Received, c.len > 0,
           AsSent(got, sent), InOrder(got2),
           \/ got2 = Append(got, c)
           \/ AllocMayFail /\ got2 = Append(got, [c EXCEPT !.len = 0])
           \/ AllocMayFail /\ got2 = got
    PROVE  AsSent(got2, sent \cup {c})
  <1> DEFINE none == [c EXCEPT !.len = 0]
  <1>1. none \in Received /\ none.len = 0
    BY DEF Received
  <1>2. \/ got2 = Append(got, c)
        \/ AllocMayFail /\ got2 = Append(got, none)
        \/ AllocMayFail /\ got2 = got
    OBVIOUS
  <1> HIDE DEF none
  <1>3. Present(Append(got, c)) = Present(got) \cup {c}
    BY PresentOfAppend
  <1>4. Present(Append(got, none)) = Present(got)
    <2>1. {s \in {none} : s.len > 0} = {}
      BY <1>1
    <2>2. Present(Append(got, none)) = Present(got) \cup {s \in {none} : s.len > 0}
      BY <1>1, PresentOfAppend
    <2> QED BY <2>1, <2>2
  <1>5. Present(got) \subseteq sent /\ (AllocMayFail \/ Present(got) = sent)
    BY DEF AsSent
  <1>6. Present(got2) \subseteq sent \cup {c} /\ (AllocMayFail \/ Present(got2) = sent \cup {c})
    BY <1>2, <1>3, <1>4, <1>5
  <1> QED BY <1>6 DEF AsSent

\* A part of the payload is sent: it is the next SDU the UE put in, or not an SDU.
LEMMA DemuxWalks ==
    ASSUME DemuxInv, SendPart
    PROVE  DemuxInv'
  <1>1. CursorInv' /\ CursorInv
    BY CursorWalks DEF DemuxInv
  <1>2. /\ phase = "walk" /\ phase' = "walk" /\ pdu' = pdu /\ demux' = demux
        /\ idx \in 1 .. Len(demux) /\ Len(demux) \in Nat /\ idx' = idx + 1
        /\ dataPtr' = dataPtr + Part.length
    BY <1>1, PartGoesToOne
  <1>3. /\ WellFormed(pdu)' <=> WellFormed(pdu)
        /\ HeaderLength(pdu)' = HeaderLength(pdu)
        /\ Sums(Payload(pdu))' = Sums(Payload(pdu))
        /\ Rank(pdu)' = Rank(pdu)
    BY <1>2, SamePdu
  <1>4. CASE ~WellFormed(pdu)
    BY <1>1, <1>2, <1>3, <1>4 DEF DemuxInv, HeaderDecoded, AllDecoded, PartStarts, SentSoFar, SdusAsSent
  <1>5. ASSUME WellFormed(pdu) PROVE DemuxInv'
    <2>1. pdu \in Pdus /\ Decoded(pdu, demux, Len(pdu.subs))
      BY <1>1, <1>2, <1>5 DEF DemuxInv, AllDecoded, CursorInv, PduInHand
    <2>2. AllDecoded'
      BY <1>2, <2>1, DecodedPrimed DEF AllDecoded
    <2>3. PICK j \in 1 .. Len(pdu.subs) :
             /\ pdu.subs[j].lcId # MAC_PADDING_LCH
             /\ Rank(pdu)[j] = idx
             /\ Copied = Layout(pdu, j)
             /\ Part.lchId = pdu.subs[j].lcId /\ Part.length = Payload(pdu)[j]
             /\ dataPtr = HeaderLength(pdu) + Sums(Payload(pdu))[j - 1]
      BY <1>5, PartInHand
    <2>4. idx' - 1 = idx
      BY <1>2
    <2>5. j \in 0 .. Len(pdu.subs)
      BY <2>1, SubheaderFacts
    <2>6. dataPtr' = HeaderLength(pdu) + Sums(Payload(pdu))[j]
      <3>1. /\ Sums(Payload(pdu))[j] = Sums(Payload(pdu))[j - 1] + Payload(pdu)[j]
            /\ Payload(pdu)[j] \in Nat
        BY <1>5, <2>1, PayloadSteps, WellFormedFacts
      <3>2. Sums(Payload(pdu))[j - 1] \in Nat /\ HeaderLength(pdu) \in Nat
        <4>1. j - 1 \in 0 .. Len(pdu.subs)
          BY <2>1, SubheaderFacts
        <4> QED BY <1>5, <2>1, <4>1, WellFormedFacts, SizesFacts
      <3> QED BY <1>2, <2>3, <3>1, <3>2
    <2>7. PartStarts'
      <3>1. \A k \in 0 .. Len(pdu.subs) :
              Rank(pdu)[k] = idx => dataPtr' = HeaderLength(pdu) + Sums(Payload(pdu))[k]
        BY <2>1, <2>3, <2>5, <2>6, PaddingIsEmpty
      <3> QED BY <1>2, <1>3, <2>4, <3>1 DEF PartStarts
    <2>8. SentSoFar'
      <3>1. /\ FirstSdus(pdu, {0}, idx - 1)' = FirstSdus(pdu, {0}, idx' - 1)
            /\ FirstSdus(pdu, Sdu \ {0}, idx - 1)' = FirstSdus(pdu, Sdu \ {0}, idx' - 1)
        BY <1>2 DEF FirstSdus, Layout, Rank, IsPart, Payload, Left, Stated, HeaderLength, HeaderSizes, Total, Sums
      <3>2. /\ AsSent(toRrc, FirstSdus(pdu, {0}, idx - 1))' <=> AsSent(toRrc', FirstSdus(pdu, {0}, idx - 1)')
            /\ AsSent(rlcData, FirstSdus(pdu, Sdu \ {0}, idx - 1))'
                  <=> AsSent(rlcData', FirstSdus(pdu, Sdu \ {0}, idx - 1)')
        BY DEF AsSent, Present, InOrder, ToSet
      <3>3. InOrder(toRrc') /\ InOrder(rlcData')
        <4>1. InOrder(toRrc)' /\ InOrder(rlcData)'
          BY <1>1 DEF CursorInv, CopiesAreDisjoint
        <4> QED BY <4>1 DEF InOrder
      <3>4. toRrc \in Seq(Received) /\ rlcData \in Seq(Received)
        BY <1>1 DEF CursorInv, TypeOK
      <3>5. /\ AsSent(toRrc, FirstSdus(pdu, {0}, idx - 1))
            /\ AsSent(rlcData, FirstSdus(pdu, Sdu \ {0}, idx - 1))
        BY <1>2, <1>5 DEF DemuxInv, SentSoFar
      <3>6. ASSUME NEW channels \in SUBSET Sdu
            PROVE  /\ Part.lchId \in channels =>
                        FirstSdus(pdu, channels, idx) = FirstSdus(pdu, channels, idx - 1) \cup {Copied}
                   /\ Part.lchId \notin channels =>
                        FirstSdus(pdu, channels, idx) = FirstSdus(pdu, channels, idx - 1)
        <4>1. FirstSdus(pdu, channels, idx) = FirstSdus(pdu, channels, idx - 1)
                \cup {Layout(pdu, k) : k \in {m \in {j} : pdu.subs[m].lcId \in channels}}
          BY <2>1, <2>3, FirstSdusGrow
        <4>2. {Layout(pdu, k) : k \in {m \in {j} : pdu.subs[m].lcId \in channels}}
              = IF Part.lchId \in channels THEN {Copied} ELSE {}
          BY <2>3
        <4> QED BY <4>1, <4>2
      <3>7. {0} \in SUBSET Sdu /\ Sdu \ {0} \in SUBSET Sdu
        BY DEF Sdu
      <3>8. CASE Part.lchId \notin Sdu
        <4>1. toRrc' = toRrc /\ rlcData' = rlcData
          BY <3>8 DEF SendPart, SendCcch, MacDemuxOneToTenLchMsg, SkipControlElement, sendVars, Sdu
        <4>2. /\ FirstSdus(pdu, {0}, idx) = FirstSdus(pdu, {0}, idx - 1)
              /\ FirstSdus(pdu, Sdu \ {0}, idx) = FirstSdus(pdu, Sdu \ {0}, idx - 1)
          BY <3>6, <3>7, <3>8
        <4> QED BY <2>4, <3>1, <3>2, <3>5, <4>1, <4>2 DEF SentSoFar
      <3>9. CASE Part.lchId \in Sdu
        <4>1. Copied \in Received /\ Copied.len > 0
          <5>1. Part \in Parts /\ dataPtr \in Nat
            BY <1>1, PartGoesToOne
          <5> QED BY <3>9, <5>1 DEF Copied, Received, Parts
        <4>2. Part.lchId \notin DOMAIN CeLength
          <5>1. DOMAIN CeLength = 26 .. 30
            BY CeLengthFacts
          <5> QED BY <3>9, <5>1 DEF Sdu
        <4>3. /\ Part.lchId = 0 => /\ rlcData' = rlcData
                                   /\ \/ toRrc' = Append(toRrc, Copied)
                                      \/ AllocMayFail /\ toRrc' = toRrc
              /\ Part.lchId # 0 => /\ toRrc' = toRrc
                                   /\ \/ rlcData' = Append(rlcData, Copied)
                                      \/ AllocMayFail /\ rlcData' = Append(rlcData, [Copied EXCEPT !.len = 0])
                                      \/ AllocMayFail /\ rlcData' = rlcData
          <5>1. SendCcch \/ MacDemuxOneToTenLchMsg
            BY <4>2 DEF SendPart, SkipControlElement
          <5>2. CASE SendCcch
            BY <5>2 DEF SendCcch
          <5>3. CASE MacDemuxOneToTenLchMsg
            BY <5>3 DEF MacDemuxOneToTenLchMsg
          <5> QED BY <5>1, <5>2, <5>3
        <4>4. AsSent(toRrc', FirstSdus(pdu, {0}, idx))
          <5>1. CASE Part.lchId = 0
            <6>1. AsSent(toRrc', FirstSdus(pdu, {0}, idx - 1) \cup {Copied})
              BY <3>3, <3>4, <3>5, <4>1, <4>3, <5>1, StillAsSent
            <6> QED BY <3>6, <3>7, <5>1, <6>1
          <5>2. CASE Part.lchId # 0
            BY <3>5, <3>6, <3>7, <4>3, <5>2
          <5> QED BY <5>1, <5>2
        <4>5. AsSent(rlcData', FirstSdus(pdu, Sdu \ {0}, idx))
          <5>1. CASE Part.lchId # 0
            <6>1. AsSent(rlcData', FirstSdus(pdu, Sdu \ {0}, idx - 1) \cup {Copied})
              BY <3>3, <3>4, <3>5, <4>1, <4>3, <5>1, StillAsSent
            <6> QED BY <3>6, <3>7, <3>9, <5>1, <6>1
          <5>2. CASE Part.lchId = 0
            BY <3>5, <3>6, <3>7, <4>3, <5>2
          <5> QED BY <5>1, <5>2
        <4> QED BY <2>4, <3>1, <3>2, <4>4, <4>5 DEF SentSoFar
      <3> QED BY <3>8, <3>9
    <2> QED BY <1>1, <1>2, <2>2, <2>7, <2>8 DEF DemuxInv, HeaderDecoded, SdusAsSent
  <1> QED BY <1>4, <1>5

\* The last part is sent: RLC gets the SDUs collected for it.
LEMMA DemuxEnds ==
    ASSUME DemuxInv, MacUeDataInd
    PROVE  DemuxInv'
  <1>1. CursorInv' /\ CursorInv
    BY CursorEnds DEF DemuxInv
  <1>2. /\ phase = "walk" /\ phase' = "done" /\ pdu' = pdu /\ idx > Len(demux)
        /\ toRrc' = toRrc /\ toRlc' = rlcData
    BY DEF MacUeDataInd
  <1>3. /\ WellFormed(pdu)' <=> WellFormed(pdu)
        /\ Refusable(pdu)' <=> Refusable(pdu)
        /\ Expected(pdu, {0})' = Expected(pdu, {0})
        /\ Expected(pdu, Sdu \ {0})' = Expected(pdu, Sdu \ {0})
    BY <1>2, SamePdu
  <1>4. SdusAsSent'
    <2> SUFFICES ASSUME WellFormed(pdu)
                 PROVE  SdusAsSent'
      BY <1>3 DEF SdusAsSent
    <2>1. pdu \in Pdus /\ Decoded(pdu, demux, Len(pdu.subs))
      BY <1>1, <1>2 DEF DemuxInv, AllDecoded, CursorInv, PduInHand
    <2>2. idx - 1 = Len(demux)
      <3>1. idx \in 1 .. Len(demux) + 1 /\ Len(demux) \in Nat
        BY <1>1, <1>2, LenProperties DEF CursorInv, PayloadCursor, TypeOK
      <3> QED BY <1>2, <3>1
    <2>3. ~Refusable(pdu)
      BY <2>1 DEF Decoded, TooLong, Refusable
    <2>4. {0} \in SUBSET Sdu /\ Sdu \ {0} \in SUBSET Sdu
      BY DEF Sdu
    <2>5. /\ FirstSdus(pdu, {0}, idx - 1) = Expected(pdu, {0})
          /\ FirstSdus(pdu, Sdu \ {0}, idx - 1) = Expected(pdu, Sdu \ {0})
      BY <2>1, <2>2, <2>4, FirstSdusEnds
    <2>6. AsSent(toRrc, Expected(pdu, {0})) /\ AsSent(rlcData, Expected(pdu, Sdu \ {0}))
      BY <1>2, <2>5 DEF DemuxInv, SentSoFar
    <2>7. /\ AsSent(toRrc, Expected(pdu, {0}))' <=> AsSent(toRrc', Expected(pdu, {0})')
          /\ AsSent(toRlc, Expected(pdu, Sdu \ {0}))' <=> AsSent(toRlc', Expected(pdu, Sdu \ {0})')
      BY DEF AsSent, Present, InOrder, ToSet
    <2> QED BY <1>2, <1>3, <2>3, <2>6, <2>7 DEF SdusAsSent
  <1> QED BY <1>1, <1>2, <1>4 DEF DemuxInv, HeaderDecoded, AllDecoded, PartStarts, SentSoFar

\* Nothing changes.
LEMMA DemuxStutters ==
    ASSUME DemuxInv, UNCHANGED vars
    PROVE  DemuxInv'
  <1>1. /\ phase' = phase /\ pdu' = pdu /\ idx' = idx /\ remaining' = remaining /\ demux' = demux
        /\ dataPtr' = dataPtr /\ rlcData' = rlcData /\ toRrc' = toRrc /\ toRlc' = toRlc
    BY DEF vars
  <1>2. CursorInv'
    BY CursorStutters DEF DemuxInv
  <1>3. /\ WellFormed(pdu)' <=> WellFormed(pdu)
        /\ Refusable(pdu)' <=> Refusable(pdu)
        /\ HeaderLength(pdu)' = HeaderLength(pdu)
        /\ Sums(Payload(pdu))' = Sums(Payload(pdu))
        /\ Rank(pdu)' = Rank(pdu)
        /\ Expected(pdu, {0})' = Expected(pdu, {0})
        /\ Expected(pdu, Sdu \ {0})' = Expected(pdu, Sdu \ {0})
    BY <1>1, SamePdu
  <1>4. HeaderDecoded' /\ AllDecoded'
    BY <1>1, <1>3, DecodedPrimed DEF DemuxInv, HeaderDecoded, AllDecoded
  <1>5. PartStarts'
    BY <1>1, <1>3 DEF DemuxInv, PartStarts
  <1>6. SentSoFar'
    <2>1. /\ FirstSdus(pdu, {0}, idx - 1)' = FirstSdus(pdu, {0}, idx - 1)
          /\ FirstSdus(pdu, Sdu \ {0}, idx - 1)' = FirstSdus(pdu, Sdu \ {0}, idx - 1)
      BY <1>1 DEF FirstSdus, Layout, Rank, IsPart, Payload, Left, Stated, HeaderLength, HeaderSizes, Total, Sums
    <2>2. /\ AsSent(toRrc, FirstSdus(pdu, {0}, idx - 1))' <=> AsSent(toRrc', FirstSdus(pdu, {0}, idx - 1)')
          /\ AsSent(rlcData, FirstSdus(pdu, Sdu \ {0}, idx - 1))'
                <=> AsSent(rlcData', FirstSdus(pdu, Sdu \ {0}, idx - 1)')
      BY DEF AsSent, Present, InOrder, ToSet
    <2> QED BY <1>1, <1>3, <2>1, <2>2 DEF DemuxInv, SentSoFar
  <1>7. SdusAsSent'
    <2>1. /\ AsSent(toRrc, Expected(pdu, {0}))' <=> AsSent(toRrc', Expected(pdu, {0})')
          /\ AsSent(toRlc, Expected(pdu, Sdu \ {0}))' <=> AsSent(toRlc', Expected(pdu, Sdu \ {0})')
      BY DEF AsSent, Present, InOrder, ToSet
    <2> QED BY <1>1, <1>3, <2>1 DEF DemuxInv, SdusAsSent
  <1> QED BY <1>2, <1>4, <1>5, <1>6, <1>7 DEF DemuxInv

\* Before the first PDU nothing is decoded.
LEMMA DemuxInit == Init => DemuxInv
  BY CursorInit DEF Init, DemuxInv, HeaderDecoded, AllDecoded, PartStarts, SentSoFar, SdusAsSent

\* Every step keeps what demuxData and the layers have of the PDU.
LEMMA DemuxNext == DemuxInv /\ [Next]_vars => DemuxInv'
  <1> SUFFICES ASSUME DemuxInv, [Next]_vars PROVE DemuxInv'
    OBVIOUS
  <1>1. ASSUME NEW p \in Pdus, MacProcessUlSchPdu(p) PROVE DemuxInv'
    BY <1>1, DemuxStart
  <1>2. ASSUME DecodeSubheader PROVE DemuxInv'
    BY <1>2, DemuxDecodes
  <1>3. ASSUME MacDeMultiplexAndSend PROVE DemuxInv'
    BY <1>3, DemuxSends
  <1>4. ASSUME SendPart PROVE DemuxInv'
    BY <1>4, DemuxWalks
  <1>5. ASSUME MacUeDataInd PROVE DemuxInv'
    BY <1>5, DemuxEnds
  <1>6. ASSUME Return PROVE DemuxInv'
    <2>1. CursorInv' /\ phase' = "idle"
      BY <1>6, CursorReturns DEF DemuxInv, Return
    <2> QED BY <2>1 DEF DemuxInv, HeaderDecoded, AllDecoded, PartStarts, SentSoFar, SdusAsSent
  <1>7. ASSUME UNCHANGED vars PROVE DemuxInv'
    BY <1>7, DemuxStutters
  <1> QED BY <1>1, <1>2, <1>3, <1>4, <1>5, <1>6, <1>7 DEF Next

\* The cursors stand where the sizes say in every state.
LEMMA CursorAlways == Spec => []CursorInv
  <1>1. Init => CursorInv
    BY CursorInit
  <1>2. CursorInv /\ [Next]_vars => CursorInv'
    BY CursorNext
  <1> QED BY <1>1, <1>2, PTL DEF Spec

\* MacDeMultiplexAndSend has freed its two blocks when it has finished with a PDU,
\* whichever allocation failed on the way.
THEOREM ScratchBlocksComeBack == Spec => []BlocksComeBack
  <1>1. CursorInv => BlocksComeBack
    BY DEF CursorInv
  <1> QED BY <1>1, CursorAlways, PTL

\* Whatever subheaders a PDU has, MacDeMultiplexAndSend copies no byte of it to two
\* SDUs and none of its header, and each layer gets its SDUs in the order of the PDU.
THEOREM ByteGoesToOneSdu == Spec => []CopiesAreDisjoint
  <1>1. CursorInv => CopiesAreDisjoint
    BY DEF CursorInv
  <1> QED BY <1>1, CursorAlways, PTL

\* A PDU that ends with an SDU is never read behind its end, whatever lengths its
\* subheaders state: the last SDU was given what the header and the others leave.
THEOREM CopyStaysInThePdu == Spec => []CopiesStayInside
  <1>1. CursorInv => CopiesStayInside
    BY DEF CursorInv
  <1> QED BY <1>1, CursorAlways, PTL

\* RRC and RLC get from a PDU that is built by the rules exactly the SDUs that were
\* put into it, or when memory is short some of them in their order.
THEOREM LayersGetTheSdus == Spec => []SdusAsSent
  <1>1. Init => DemuxInv
    BY DemuxInit
  <1>2. DemuxInv /\ [Next]_vars => DemuxInv'
    BY DemuxNext
  <1>3. DemuxInv => SdusAsSent
    BY DEF DemuxInv
  <1> QED BY <1>1, <1>2, <1>3, PTL DEF Spec
=============================================================================
