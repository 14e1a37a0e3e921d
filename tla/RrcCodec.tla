------------------------------ MODULE RrcCodec ------------------------------
(***************************************************************************)
(* Unpacking RRC messages (ulp/src/asn1.c, ulp/src/asn1Lib.c).             *)
(*                                                                         *)
(* A message is read from a pointer that moves field by field, while a     *)
(* separate counter, nBits, is reduced by hand after each field.  The      *)
(* pointer is never compared with the end of the message: what decides is  *)
(* the counter, and only at the end.  A cursor is the pair of them.        *)
(*                                                                         *)
(* A message is what the decoder reads, as far as it decides what is read  *)
(* next: which optional fields are present and how long the NAS message    *)
(* is.  Behind its end a message reads as zeros: the buffer of bits is     *)
(* cleared after each message.                                             *)
(***************************************************************************)
EXTENDS Integers

MaxBits == 102048   \* LIBLTE_MAX_MSG_SIZE_BITS
MaxBytes == 12756   \* LIBLTE_MAX_MSG_SIZE_BYTES

\* A PLMN identity, and a registered MME with or without one.
Plmns == [mccPresent : BOOLEAN, mncSize : {2, 3}]
Mmes == [present : BOOLEAN, plmnPresent : BOOLEAN, plmn : Plmns]

\* The NAS message inside: the bits of its length field (0 stands for fragments, which
\* are not supported) and its length.
Lengths == {nas \in [bits : {0, 7, 14}, nBytes : Nat] :
                nas.nBytes <= IF nas.bits = 14 THEN 16383 ELSE IF nas.bits = 7 THEN 127 ELSE 0}

\* dedicated information of another type than NAS comes in information transfers only
Messages == [kind : {"RRC_CON_SETUP_COMPLETE", "UL_INFO_TRANSFER", "other_transfer"},
             mme : Mmes, nas : Lengths]

-----------------------------------------------------------------------------
Start(bits) == [read |-> 0, left |-> bits]

\* "read" bits are read, and the counter goes down by "counted"
Take(cursor, read, counted) ==
    [read |-> cursor.read + read, left |-> cursor.left - counted]

liblte_rrc_unpack_plmn_identity_ie(cursor, plmn) ==
    LET mcc == IF plmn.mccPresent THEN Take(cursor, 1 + 3 * 4, 1 + 12) ELSE Take(cursor, 1, 1)
    IN  IF plmn.mncSize = 2 THEN Take(mcc, 1 + 2 * 4, 1 + 8) ELSE Take(mcc, 1 + 3 * 4, 1 + 12)

RegisteredMme(cursor, mme) ==
    LET optional == Take(cursor, 1, 1)
        plmn == IF mme.plmnPresent
                THEN liblte_rrc_unpack_plmn_identity_ie(optional, mme.plmn) ELSE optional
    IN  Take(plmn, 16 + 8, 16 + 8)

\* the length field of the NAS message
NasLength(cursor, nas) ==
    IF nas.bits = 7 THEN Take(cursor, 1 + 7, 7 + 1)
    ELSE IF nas.bits = 14 THEN Take(cursor, 1 + 1 + 14, 14 + 1 + 1)
    ELSE Take(cursor, 1 + 1, 1 + 1)

\* The bytes of the NAS message are read but not counted.  A length that is refused
\* leaves the counter at -1.
liblte_rrc_unpack_dedicated_info_nas_ie(cursor, nas) ==
    LET length == NasLength(cursor, nas)
        n == IF nas.bits = 0 THEN 0 ELSE nas.nBytes
    IN  IF length.left < 0 \/ n = 0 \/ n > MaxBytes \/ 8 * n > length.left + 7
        THEN [cursor |-> [length EXCEPT !.left = -1], nBytes |-> 0]
        ELSE [cursor |-> Take(length, 8 * n, 0), nBytes |-> n]

\* the fields before the NAS message
SetupCompleteHeader(mme, bits) ==
    LET fixed == Take(Start(bits), 2 + 1 + 2 + 1 + 1 + 3, 2 + 1 + 2 + 2 + 3)
    IN  IF mme.present THEN RegisteredMme(fixed, mme) ELSE fixed
TransferHeader(bits) == Take(Start(bits), 1 + 2 + 1 + 2, 1 + 2 + 1 + 2)

liblte_rrc_unpack_rrc_connection_setup_complete_msg(message, bits) ==
    liblte_rrc_unpack_dedicated_info_nas_ie(SetupCompleteHeader(message.mme, bits), message.nas)

liblte_rrc_unpack_ul_information_transfer_msg(message, bits) ==
    IF message.kind = "UL_INFO_TRANSFER"
    THEN liblte_rrc_unpack_dedicated_info_nas_ie(TransferHeader(bits), message.nas)
    ELSE [cursor |-> TransferHeader(bits), nBytes |-> 0]

-----------------------------------------------------------------------------
(***************************************************************************)
(* Asn1ParseRrcSetupComplMsg and Asn1ParseUlInfoTransMsg on a buffer of    *)
(* "length" bytes.  The message starts behind 5 bits of RRC message type.  *)
(***************************************************************************)
Unpacked(message, bits) ==
    IF message.kind = "RRC_CON_SETUP_COMPLETE"
    THEN liblte_rrc_unpack_rrc_connection_setup_complete_msg(message, bits)
    ELSE liblte_rrc_unpack_ul_information_transfer_msg(message, bits)

Asn1Parse(message, length) ==
    LET unpacked == Unpacked(message, 8 * length - 5)
        accepted == 8 * length <= MaxBits /\ unpacked.cursor.left >= 0
    IN  [accepted |-> accepted, nBytes |-> IF accepted THEN unpacked.nBytes ELSE 0]

\* Asn1ParseRrcConnReqMsg: nothing of a connection request is counted, so one that is
\* too short is accepted and its identity ends in zeros.  It is read from behind 2 bits.
ConnReqBits == 2 + 1 + 1 + (8 + 32) + 3
Asn1ParseRrcConnReqMsg(length) ==
    [accepted |-> 8 * length <= MaxBits, complete |-> 8 * length >= ConnReqBits]
=============================================================================
