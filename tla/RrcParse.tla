------------------------------ MODULE RrcParse ------------------------------
(***************************************************************************)
(* From an RRC message to an identity (ulp/src/lteRrc.c): a message of a   *)
(* UE, from PDCP or straight from MAC, is unpacked into a structure of its *)
(* own, the NAS message inside it into a second one, and the identity goes *)
(* to the UE's context.                                                    *)
(*                                                                         *)
(* Which step runs next depends on the message, on whether the ASN.1 and   *)
(* NAS decoders accept it and on what MemAlloc finds, so each of these is  *)
(* a step.  The bits of a message are not modelled: a message is its kind, *)
(* the kind of the NAS message inside and the identity it carries, and a   *)
(* decoder may refuse any of them.                                         *)
(***************************************************************************)
EXTENDS RrcContexts

CONSTANTS MaxRrcMessages,     \* bound: messages altogether
          CcchContextMayFail  \* there may be no block for the context of a connection request

ASSUME RrcParseAssumption ==
    /\ Rntis # {}
    /\ MaxRrcMessages \in Nat
    /\ CcchContextMayFail \in BOOLEAN

VARIABLES pc,        \* where RrcParseUlDcchMsg or RrcParseUlCcchMsg is
          msg,       \* the message in hand
          live,      \* which of its three buffers are allocated
          carried,   \* the identities in the messages of each RNTI so far
          rrcMessages  \* messages so far

parseVars == <<rrcVars, pc, msg, live, carried, rrcMessages>>

NasWithoutStruct == {"SERVICE_REQUEST", "other"}
NasWithStruct == {"IDENTITY_RESPONSE", "ATTACH_REQUEST", "TAU_REQUEST", "DETACH_REQUEST",
                  "EXTENDED_SERVICE_REQUEST"}
\* type_of_id: an IMSI, an M-TMSI (alone or in a GUTI), or neither
Ids == Imsis \cup MTmsis \cup {NoId}

Messages ==
    [rnti : Rntis, kind : {"UL_INFO_TRANSFER", "RRC_CON_SETUP_COMPLETE"},
     nas : NasWithStruct \cup NasWithoutStruct, id : Ids]
    \cup [rnti : Rntis, kind : {"RRC_CON_REQ"}, nas : {"none"}, id : MTmsis \cup {NoId}]
    \cup [rnti : Rntis, kind : {"other_dcch", "RRC_CON_REEST_REQ"}, nas : {"none"}, id : {NoId}]

Nothing == [rnti |-> CHOOSE r \in Rntis : TRUE, kind |-> "other_dcch", nas |-> "none", id |-> NoId]

ParseInit ==
    /\ RrcInit
    /\ pc = "idle" /\ msg = Nothing
    /\ live = {}
    /\ carried = [r \in Rntis |-> {}]
    /\ rrcMessages = 0

Goto(label) == pc' = label /\ UNCHANGED <<msg, carried, rrcMessages>>
Return == pc' = "idle" /\ msg' = Nothing /\ UNCHANGED <<carried, rrcMessages>>
Frees(buffer) == live' = live \ {buffer}

\* MemAlloc: on success the next step is yes, else no
Allocates(buffer, yes, no) ==
    \/ live' = live \cup {buffer} /\ Goto(yes)
    \/ UNCHANGED live /\ Goto(no)
-----------------------------------------------------------------------------
\* PdcpUeSrbDataInd and MacUeCcchDataInd: the buffer now belongs to RRC
DataInd(m) ==
    /\ pc = "idle"
    /\ rrcMessages < MaxRrcMessages
    /\ rrcMessages' = rrcMessages + 1
    /\ msg' = m
    /\ carried' = [carried EXCEPT ![m.rnti] = @ \cup ({m.id} \ {NoId})]
    /\ live' = live \cup {"pData"}
    /\ pc' = "rrc"
    /\ UNCHANGED rrcVars

\* RrcParseUlDcchMsg, RrcParseUlCcchMsg: the structure for the RRC message
AllocRrcStruct ==
    /\ pc = "rrc"
    /\ IF msg.kind \in {"other_dcch", "RRC_CON_REEST_REQ"}
       THEN UNCHANGED live /\ Goto("end")
       ELSE Allocates("rrcMsg", "asn1", "end")
    /\ UNCHANGED rrcVars

\* Asn1Parse...Msg: a refused message, dedicated information that is not NAS and
\* a connection request with a random value end here
ParseRrc ==
    /\ pc = "asn1"
    /\ \/ Goto("rrcEnd")
       \/ msg.kind # "RRC_CON_REQ" /\ Goto("nas")
       \/ msg.kind = "RRC_CON_REQ" /\ msg.id # NoId /\ Goto("context")
    /\ UNCHANGED <<rrcVars, live>>

\* RrcParseNasMsg: the header may be refused; a service request needs no structure
RrcParseNasMsg ==
    /\ pc = "nas"
    /\ \/ UNCHANGED live /\ Goto("rrcEnd")
       \/ msg.nas \in NasWithStruct /\ Allocates("nasMsg", "nasAsn1", "rrcEnd")
       \/ msg.nas = "SERVICE_REQUEST" /\ UNCHANGED live /\ Goto("context")
    /\ UNCHANGED rrcVars

\* liblte_mme_unpack_...: the NAS message is refused, has nothing to store, or goes
\* on to the UE's context
Unpack(nas, accepted) ==
    /\ pc = "nasAsn1" /\ msg.nas = nas
    /\ \/ Goto("nasEnd")
       \/ accepted /\ Goto("context")
    /\ UNCHANGED <<rrcVars, live>>

\* an identity response counts only with an IMSI, the requests make a context
\* whatever they carry
RrcDecodeIdentityResponse == Unpack("IDENTITY_RESPONSE", msg.id \in Imsis)
RrcDecodeAttachReq == Unpack("ATTACH_REQUEST", TRUE)
RrcDecodeDetachReq == Unpack("DETACH_REQUEST", TRUE)
RrcDecodeExtServiceReq == Unpack("EXTENDED_SERVICE_REQUEST", TRUE)
RrcDecodeTauReq == Unpack("TAU_REQUEST", TRUE)

\* where the function returns to after its work on the context
AfterContext == IF msg.nas \in NasWithStruct THEN "nasEnd" ELSE "rrcEnd"

\* RrcGetUeContext, RrcCreateUeContext
FindContext ==
    /\ pc = "context"
    /\ MakeContext(msg.rnti)
    /\ Goto(IF msg.nas = "SERVICE_REQUEST" \/ msg.id = NoId THEN AfterContext ELSE "update")
    /\ UNCHANGED live

\* Mutant: the structure is not freed on this path either
NoContext_LeaksNas ==
    /\ pc = "context"
    /\ msg.kind # "RRC_CON_REQ"
    /\ IndexOf(rrc, msg.rnti) = {}
    /\ Goto("rrcEnd")
    /\ UNCHANGED <<rrcVars, live>>

\* no memory for the context: the NAS functions free their structure and return; a
\* connection request frees its structure and returns without the message's buffer
NoContext ==
    /\ pc = "context"
    /\ IndexOf(rrc, msg.rnti) = {}
    /\ IF msg.kind # "RRC_CON_REQ"
       THEN Goto(AfterContext) /\ UNCHANGED live
       ELSE CcchContextMayFail /\ Frees("rrcMsg") /\ Return
    /\ UNCHANGED rrcVars

\* Mutant: every identity is taken for an M-TMSI
UpdateIdentity_AllMTmsi ==
    /\ pc = "update"
    /\ RrcUpdateMTmsi(msg.rnti, msg.id)
    /\ Goto(AfterContext)
    /\ UNCHANGED live

UpdateIdentity ==
    /\ pc = "update"
    /\ \/ msg.id \in Imsis /\ RrcUpdateImsi(msg.rnti, msg.id)
       \/ msg.id \in MTmsis /\ RrcUpdateMTmsi(msg.rnti, msg.id)
    /\ Goto(AfterContext)
    /\ UNCHANGED live

FreeNasStruct == pc = "nasEnd" /\ Frees("nasMsg") /\ Goto("rrcEnd") /\ UNCHANGED rrcVars

FreeRrcStruct == pc = "rrcEnd" /\ Frees("rrcMsg") /\ Goto("end") /\ UNCHANGED rrcVars

FreeData == pc = "end" /\ Frees("pData") /\ Return /\ UNCHANGED rrcVars

Done == pc = "idle" /\ rrcMessages = MaxRrcMessages /\ UNCHANGED parseVars

ParseNext ==
    \/ \E m \in Messages : DataInd(m)
    \/ AllocRrcStruct \/ ParseRrc \/ RrcParseNasMsg
    \/ RrcDecodeIdentityResponse \/ RrcDecodeAttachReq \/ RrcDecodeDetachReq
    \/ RrcDecodeExtServiceReq \/ RrcDecodeTauReq
    \/ FindContext \/ NoContext \/ UpdateIdentity
    \/ FreeNasStruct \/ FreeRrcStruct \/ FreeData
    \/ Done

ParseSpec == ParseInit /\ [][ParseNext]_parseVars
-----------------------------------------------------------------------------
Buffers == {"pData", "rrcMsg", "nasMsg"}

\* Every variable has its type.
ParseTypeOK ==
    /\ rrc \in Seq(RrcUeContexts)
    /\ ready \in Seq(Entries)
    /\ pc \in {"idle", "rrc", "asn1", "nas", "nasAsn1", "context", "update", "nasEnd",
              "rrcEnd", "end"}
    /\ msg \in Messages
    /\ live \subseteq Buffers
    /\ carried \in [Rntis -> SUBSET (Imsis \cup MTmsis)]
    /\ rrcMessages \in 0 .. MaxRrcMessages

\* BuffersLiveAsLongAsUsed: whichever decoder refuses the message and whichever
\* allocation fails, RRC frees the message and both structures before it returns (but for
\* the message of a connection request without a block for its context), and
\* not too early: the NAS message lies inside the RRC structure and the identity inside
\* the NAS structure, so each must last until the context is updated.
BuffersLiveAsLongAsUsed ==
    /\ ParseTypeOK
    /\ pc = "idle" => live \subseteq (IF CcchContextMayFail THEN {"pData"} ELSE {})
    /\ pc # "idle" => "pData" \in live
    /\ pc \in {"asn1", "nas", "nasAsn1", "context", "update"} => "rrcMsg" \in live
    /\ pc \in {"context", "update"} /\ msg.nas \in NasWithStruct => "nasMsg" \in live

\* IdentitiesOfTheUe: a context, and what is kept of it in the ready list, holds
\* only identities from messages of its own UE, however the messages of several UEs
\* mix and their identities replace each other.
IdentitiesOfTheUe ==
    \A c \in ToSet(rrc) \cup ToSet(ready) : Identities(c) \subseteq carried[c.rnti]

\* each step has exactly the buffers its way through the function has allocated
BuffersOfTheStep ==
    /\ pc = "idle" => live \subseteq (IF CcchContextMayFail THEN {"pData"} ELSE {})
    /\ pc \in {"rrc", "end"} => live = {"pData"}
    /\ pc \in {"asn1", "nas", "rrcEnd"} => live = {"pData", "rrcMsg"}
    /\ pc \in {"nasAsn1", "nasEnd"} => live = Buffers /\ msg.nas \in NasWithStruct
    /\ pc \in {"context", "update"} =>
          live = IF msg.nas \in NasWithStruct THEN Buffers ELSE {"pData", "rrcMsg"}

\* what makes both of them inductive
ParseInv ==
    /\ ParseTypeOK
    /\ BuffersOfTheStep
    /\ pc # "idle" => msg.id \in carried[msg.rnti] \cup {NoId}
    /\ IdentitiesOfTheUe
=============================================================================
