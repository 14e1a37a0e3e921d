------------------------------ MODULE NasCodec ------------------------------
(***************************************************************************)
(* Unpacking NAS messages (liblte_mme_... in ulp/src/asn1Lib.c).           *)
(*                                                                         *)
(* Each function moves a pointer over the bytes of the message.  How far   *)
(* depends on few of them: the security header, the type of an identity,   *)
(* the length of one element.  The length of the message itself (N_bytes)  *)
(* is not looked at, and an identity is taken to have the length its type  *)
(* should have, whatever its length octet says.  A function here gives the *)
(* position behind what it reads, from the position in front of it.        *)
(***************************************************************************)
EXTENDS Integers

LIBLTE_MAX_MSG_SIZE_BYTES == 12756

SecHdrTypes == 0 .. 15
PlainNas == 0
ServiceRequest == 12
Discriminators == 0 .. 15
SessionManagement == 2

\* types of identity; a request has one of the second kind, where all but these two are
\* read like an IMSI
IMSI == 1
IMEI == 2
IMEISV == 3
EPS_TMSI == 4
EPS_GUTI == 6

-----------------------------------------------------------------------------
(***************************************************************************)
(* The header.  A message whose header is not the plain one has a plain    *)
(* message inside, from byte 6 on, whose discriminator is innerPd.         *)
(***************************************************************************)
\* the byte the message type is taken from; of a service request it is the header
liblte_mme_parse_msg_header(secHdrType, pd, innerPd) ==
    IF secHdrType = ServiceRequest THEN 0
    ELSE IF pd = SessionManagement THEN 2
    ELSE IF secHdrType = PlainNas THEN 1
    ELSE IF innerPd = SessionManagement THEN 8 ELSE 7

\* where each of the decoders goes on, behind the message type
BehindMessageType(secHdrType) == (IF secHdrType = PlainNas THEN 1 ELSE 7) + 1

-----------------------------------------------------------------------------
(***************************************************************************)
(* Identities.                                                             *)
(***************************************************************************)
liblte_mme_unpack_mobile_id_ie(at, typeOfId) ==
    at + 1 + 1 + (IF typeOfId = IMSI \/ typeOfId = IMEI THEN 7 ELSE 8)

liblte_mme_unpack_eps_mobile_id_ie(at, typeOfId) ==
    IF typeOfId = EPS_GUTI THEN at + 1 + 1 + (1 + 1 + 1) + (1 + 1 + 1) + 4
    ELSE IF typeOfId = EPS_TMSI THEN at + 1 + 1 + 4
    ELSE at + 1 + 1 + 7

\* an identity response with another type is refused
liblte_mme_unpack_identity_response_msg(secHdrType, typeOfId) ==
    LET at == BehindMessageType(secHdrType)
    IN  [accepted |-> typeOfId \in {IMSI, IMEI, IMEISV}, idAt |-> at,
         behindId |-> liblte_mme_unpack_mobile_id_ie(at, typeOfId)]

\* a detach request, a tracking area update and an extended service request: one byte
\* in front of the identity
UnpackRequest(secHdrType, typeOfId) ==
    LET at == BehindMessageType(secHdrType) + 1
    IN  [accepted |-> TRUE, idAt |-> at,
         behindId |-> liblte_mme_unpack_eps_mobile_id_ie(at, typeOfId)]

-----------------------------------------------------------------------------
(***************************************************************************)
(* An attach request goes on with the capability of the UE and a message   *)
(* of session management, whose length may be refused.  The optional       *)
(* elements behind that are read too, but nothing is done with them.       *)
(***************************************************************************)
liblte_mme_unpack_ue_network_capability_ie(at, length) ==
    at + 1 + 1 + 1
       + (IF length > 2 THEN 1 ELSE 0)
       + (IF length > 3 THEN 1 ELSE 0)
       + (IF length > 4 THEN 1 ELSE 0)
       + (IF length > 5 THEN length - 5 ELSE 0)

\* esmLength[p] is what the two bytes at p say
liblte_mme_unpack_attach_request_msg(secHdrType, typeOfId, capability, esmLength) ==
    LET request == UnpackRequest(secHdrType, typeOfId)
        esmAt == liblte_mme_unpack_ue_network_capability_ie(request.behindId, capability)
    IN  IF esmLength[esmAt] > LIBLTE_MAX_MSG_SIZE_BYTES THEN [request EXCEPT !.accepted = FALSE] ELSE request
=============================================================================
