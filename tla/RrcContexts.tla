----------------------------- MODULE RrcContexts -----------------------------
(***************************************************************************)
(* The RRC contexts of UEs (ulp/src/lteRrc.c): gRrcUeContextList, with one *)
(* context per RNTI, and gReadyRrcUeContextList, with what a context held  *)
(* before another identity replaced it.  RrcParse says which message leads *)
(* to which of the operations below, UeReport how the lists are emptied.   *)
(***************************************************************************)
EXTENDS Integers, Sequences, FiniteSets, SequencesExt

CONSTANTS Rntis, Imsis, MTmsis,
          NoId,                    \* imsiPresent or mTmsiPresent is FALSE
          AllocMayFail             \* MemAlloc may find no block

ASSUME RrcContextsAssumption ==
    /\ NoId \notin Imsis \cup MTmsis
    /\ AllocMayFail \in BOOLEAN

VARIABLES rrc,       \* gRrcUeContextList
          ready,     \* gReadyRrcUeContextList
          seen,      \* the identities RRC stored in a context so far
          lost       \* the identities of contexts there was no memory to keep

rrcVars == <<rrc, ready, seen, lost>>

RrcInit == rrc = <<>> /\ ready = <<>> /\ seen = {} /\ lost = {}

\* RrcUeContext, and what of it goes to the ready list and to the datagram
RrcUeContexts ==
    [rnti : Rntis, imsi : Imsis \cup {NoId}, mTmsi : MTmsis \cup {NoId}, idleCount : Nat]
Entries == [rnti : Rntis, imsi : Imsis \cup {NoId}, mTmsi : MTmsis \cup {NoId}]

Entry(c) == [rnti |-> c.rnti, imsi |-> c.imsi, mTmsi |-> c.mTmsi]
Identities(c) == {c.imsi, c.mTmsi} \ {NoId}
IdentitiesOf(entries) == UNION {Identities(e) : e \in entries}
Present(c) == Identities(c) # {}
Complete(c) == c.imsi # NoId /\ c.mTmsi # NoId
-----------------------------------------------------------------------------
IndexOf(list, r) == {i \in 1 .. Len(list) : list[i].rnti = r}

\* Mutant: the first context of the list is taken for the UE's
Place_First(list, r) == 1

\* the first context of r
Place(list, r) == Min(IndexOf(list, r))

NewContext(r) == [rnti |-> r, imsi |-> NoId, mTmsi |-> NoId, idleCount |-> 0]

\* Mutant: a context is made without looking for one
WithContext_Always(r) == Append(rrc, NewContext(r))

\* RrcGetUeContext, RrcCreateUeContext: the list with a context for r
WithContext(r) == IF IndexOf(rrc, r) = {} THEN Append(rrc, NewContext(r)) ELSE rrc

MakeContext(r) == rrc' = WithContext(r) /\ UNCHANGED <<ready, seen, lost>>

\* Mutant: the old contents are replaced at once
KeepOld_Forgets(c) == UNCHANGED <<ready, lost>>

\* the context's old contents move to the ready list before they are replaced
KeepOld(c) ==
    \/ ready' = Append(ready, Entry(c)) /\ UNCHANGED lost
    \/ AllocMayFail /\ lost' = lost \cup Identities(c) /\ UNCHANGED ready

\* a new value is stored, the one already known may be a retransmission and is ignored
Store(list, i, old, updated, id) ==
    \/ /\ old = id
       /\ rrc' = list
       /\ UNCHANGED <<ready, seen, lost>>
    \/ /\ old # id
       /\ rrc' = [list EXCEPT ![i] = updated]
       /\ seen' = seen \cup {id}
       /\ IF old = NoId THEN UNCHANGED <<ready, lost>> ELSE KeepOld(list[i])

RrcUpdateImsi(r, imsi) ==
    LET list == WithContext(r)
        i == Place(list, r)
    IN Store(list, i, list[i].imsi, [list[i] EXCEPT !.imsi = imsi], imsi)

RrcUpdateMTmsi(r, mTmsi) ==
    LET list == WithContext(r)
        i == Place(list, r)
    IN Store(list, i, list[i].mTmsi, [list[i] EXCEPT !.mTmsi = mTmsi], mTmsi)

-----------------------------------------------------------------------------
\* no two contexts of a list are of the same RNTI
OneEach(list) == \A i, j \in 1 .. Len(list) : list[i].rnti = list[j].rnti => i = j
=============================================================================
