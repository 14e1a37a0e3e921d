------------------------------ MODULE UeReport ------------------------------
(***************************************************************************)
(* How the identities of UEs reach the OAM: the MAC and RRC contexts       *)
(* (ulp/src/lteMac.c, lteRrc.c) collect what the packets of a pass say,    *)
(* and UlpRecvAndHandleOamData (ulp/src/lteUlpWorker.c) walks the three    *)
(* lists at the end of the pass, moves what is complete or old enough into *)
(* one datagram of limited size and sends it.                              *)
(*                                                                         *)
(* All of it runs in the ULP worker, so packets come only between the      *)
(* walks; one turn of each loop is a step.                                 *)
(***************************************************************************)
EXTENDS RrcContexts

CONSTANTS MAX_NUM_UE_INFO_REPORT,  \* entries of one datagram
          gMaxRrcCtxIdleCount,     \* passes an RRC context waits for its second identity
          gMaxIdleCount,           \* passes a MAC context lives
          MaxMessages              \* bound: packets altogether

ASSUME UeReportAssumption ==
    /\ MAX_NUM_UE_INFO_REPORT \in Nat \ {0}
    /\ gMaxRrcCtxIdleCount \in Nat
    /\ gMaxIdleCount \in Nat
    /\ MaxMessages \in Nat

VARIABLES mac,       \* gMacUeContext
          phase,     \* which loop of the pass the worker is in
          pos,       \* the loop's place in its list
          report,    \* ueIdentityArray[0 .. ueIndex - 1] of the datagram being filled
          sent,      \* the entries sent to the OAM so far
          messages   \* packets so far

listVars == <<rrc, ready, mac>>
historyVars == <<sent, seen, lost, messages>>
vars == <<listVars, phase, pos, report, historyVars>>

Init ==
    /\ RrcInit
    /\ mac = <<>>
    /\ phase = "packets" /\ pos = 0
    /\ report = <<>>
    /\ sent = {}
    /\ messages = 0

-----------------------------------------------------------------------------
(***************************************************************************)
(* Packets.  Each one first finds or makes the MAC context of its UE.      *)
(***************************************************************************)
\* MacGetUeContext and MacCreateUeContext in MacProcessPhyDataInd
MacProcessPhyDataInd(r) ==
    /\ phase = "packets"
    /\ messages < MaxMessages
    /\ messages' = messages + 1
    /\ \/ IndexOf(mac, r) = {} /\ mac' = Append(mac, [rnti |-> r, idleCount |-> 0])
       \/ (IndexOf(mac, r) # {} \/ AllocMayFail) /\ mac' = mac
    /\ UNCHANGED <<phase, pos, report, sent>>

\* the packet carries a message with an identity
ImsiMessage(r, imsi) == MacProcessPhyDataInd(r) /\ RrcUpdateImsi(r, imsi)
MTmsiMessage(r, mTmsi) == MacProcessPhyDataInd(r) /\ RrcUpdateMTmsi(r, mTmsi)

\* a message without an identity: a service request, or a request with an IMEI
OtherMessage(r) == MacProcessPhyDataInd(r) /\ MakeContext(r)

\* a packet that has nothing for RRC, or for whose RRC context there is no memory
MacOnly(r) == MacProcessPhyDataInd(r) /\ UNCHANGED rrcVars

-----------------------------------------------------------------------------
(***************************************************************************)
(* The end of the pass: UlpRecvAndHandleOamData.                           *)
(***************************************************************************)
UlpRecvAndHandleOamData ==
    /\ phase = "packets"
    /\ phase' = "ready"
    /\ pos' = Len(ready)
    /\ report' = <<>>
    /\ UNCHANGED <<listVars, historyVars>>

\* entries left over from the counted ones, or a full datagram, end the loop
PopReady ==
    /\ phase = "ready"
    /\ pos > 0
    /\ ready' = Tail(ready)
    /\ report' = IF Present(Head(ready)) THEN Append(report, Head(ready)) ELSE report
    /\ IF Len(report') = MAX_NUM_UE_INFO_REPORT
       THEN phase' = "rrc" /\ pos' = 1
       ELSE phase' = phase /\ pos' = pos - 1
    /\ UNCHANGED <<rrc, mac, historyVars>>

ReadyDone ==
    /\ phase = "ready"
    /\ pos = 0
    /\ phase' = "rrc"
    /\ pos' = 1
    /\ UNCHANGED <<listVars, report, historyVars>>

\* Mutant: room for one entry too many
Room_OffByOne == Len(report) <= MAX_NUM_UE_INFO_REPORT

Room == Len(report) < MAX_NUM_UE_INFO_REPORT

Without(list, i) == RemoveAt(list, i)
\* Mutant: the contexts do not grow older
Aged_Never(list, i) == list

Aged(list, i) == [list EXCEPT ![i].idleCount = @ + 1]

\* a complete or old context is reported, if it has an identity, and deleted;
\* the others grow older
IsDue(c) == Room /\ (Complete(c) \/ c.idleCount >= gMaxRrcCtxIdleCount)

VisitRrc ==
    /\ phase = "rrc"
    /\ pos <= Len(rrc)
    /\ LET c == rrc[pos] IN
        \/ /\ IsDue(c)
           /\ report' = IF Present(c) THEN Append(report, Entry(c)) ELSE report
           /\ rrc' = Without(rrc, pos)
           /\ UNCHANGED pos
        \/ /\ ~IsDue(c)
           /\ rrc' = Aged(rrc, pos)
           /\ pos' = pos + 1
           /\ UNCHANGED report
    /\ UNCHANGED <<ready, mac, phase, historyVars>>

RrcDone ==
    /\ phase = "rrc"
    /\ pos > Len(rrc)
    /\ phase' = "mac"
    /\ pos' = 1
    /\ UNCHANGED <<listVars, report, historyVars>>

\* a MAC context is deleted after its time and its C-RNTI reported alone
VisitMac ==
    /\ phase = "mac"
    /\ pos <= Len(mac)
    /\ LET c == mac[pos] IN
        \/ /\ Room /\ c.idleCount >= gMaxIdleCount
           /\ report' = Append(report, Entry(NewContext(c.rnti)))
           /\ mac' = Without(mac, pos)
           /\ UNCHANGED pos
        \/ /\ ~(Room /\ c.idleCount >= gMaxIdleCount)
           /\ mac' = Aged(mac, pos)
           /\ pos' = pos + 1
           /\ UNCHANGED report
    /\ UNCHANGED <<rrc, ready, phase, historyVars>>

\* SocketUdpSend, when there is anything to report
SendReport ==
    /\ phase = "mac"
    /\ pos > Len(mac)
    /\ sent' = sent \cup ToSet(report)
    /\ report' = <<>>
    /\ phase' = "packets"
    /\ pos' = 0
    /\ UNCHANGED <<listVars, seen, lost, messages>>

Packet ==
    \E r \in Rntis :
        \/ \E x \in Imsis : ImsiMessage(r, x)
        \/ \E x \in MTmsis : MTmsiMessage(r, x)
        \/ OtherMessage(r)
        \/ MacOnly(r)

Pass ==
    \/ UlpRecvAndHandleOamData
    \/ PopReady
    \/ ReadyDone
    \/ VisitRrc
    \/ RrcDone
    \/ VisitMac
    \/ SendReport

Next == Packet \/ Pass

\* the worker is notified for ever (EventLoop)
Spec == Init /\ [][Next]_vars /\ WF_vars(Pass)
-----------------------------------------------------------------------------
\* Every variable has its type; the datagram, which three loops fill with a test of
\* their own each, never gets more entries than ueIdentityArray has.
TypeOK ==
    /\ rrc \in Seq(RrcUeContexts)
    /\ ready \in Seq(Entries)
    /\ mac \in Seq([rnti : Rntis, idleCount : Nat])
    /\ phase \in {"packets", "ready", "rrc", "mac"}
    /\ pos \in Nat
    /\ report \in Seq(Entries) /\ Len(report) <= MAX_NUM_UE_INFO_REPORT
    /\ sent \subseteq Entries
    /\ seen \subseteq Imsis \cup MTmsis
    /\ lost \subseteq seen
    /\ messages \in 0 .. MaxMessages

\* where identities are: the contexts, the two lists of entries and the OAM
Held == ToSet(rrc) \cup ToSet(ready) \cup ToSet(report) \cup sent

\* NoIdentityIsDropped: an identity that RRC stored is in a context, in the ready
\* list, in the datagram being filled or already sent, unless there was no memory
\* to keep its context when another value replaced it.  Replacing an identity,
\* a full datagram and the deletion of a context never lose one, and a datagram never
\* holds more entries than it has room for (TypeOK).
NoIdentityIsDropped ==
    /\ TypeOK
    /\ seen \subseteq IdentitiesOf(Held) \cup lost

\* OneContextPerRnti: neither list ever holds two contexts of the same RNTI, which
\* the lookups by RNTI rely on.
OneContextPerRnti == OneEach(rrc) /\ OneEach(mac)

\* the loops of a pass stay inside their lists, and start with an empty datagram
PassInBounds ==
    /\ phase = "packets" => report = <<>>
    /\ phase = "ready" => pos <= Len(ready) /\ Room
    /\ phase \in {"rrc", "mac"} => pos >= 1
    /\ IdentitiesOf(ToSet(rrc)) \subseteq seen

\* EveryIdentityIsReported: an identity that RRC stored is sent to the OAM in the
\* end, however the datagrams fill up.
EveryIdentityIsReported ==
    \A x \in Imsis \cup MTmsis : x \in seen ~> x \in IdentitiesOf(sent) \cup lost

\* ContextsAreReleased: once packets stop all three lists run empty.
ContextsAreReleased == <>[](rrc = <<>> /\ ready = <<>> /\ mac = <<>>)
=============================================================================
