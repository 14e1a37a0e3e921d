------------------------------ MODULE RrcProofs ------------------------------
(***************************************************************************)
(* Proofs about the RRC contexts: about their list (RrcContexts), about    *)
(* the way of an identity to the OAM (UeReport) and about the way of a     *)
(* message to its context (RrcParse).                                      *)
(***************************************************************************)
EXTENDS UeReport, RrcParse, CollectionLemmas

-----------------------------------------------------------------------------
(***************************************************************************)
(* The identities of a set of entries.                                     *)
(***************************************************************************)
\* An identity is held by some entry.
LEMMA InIdentities ==
    ASSUME NEW E, NEW x
    PROVE  x \in IdentitiesOf(E) <=> \E e \in E : x \in Identities(e)
  BY DEF IdentitiesOf

\* More entries hold more identities, and a union of entries holds the union.
LEMMA IdentitiesUnion ==
    ASSUME NEW E, NEW F
    PROVE  /\ IdentitiesOf(E \cup F) = IdentitiesOf(E) \cup IdentitiesOf(F)
           /\ E \subseteq F => IdentitiesOf(E) \subseteq IdentitiesOf(F)
  BY InIdentities

LEMMA IdentitiesOne ==
    ASSUME NEW c
    PROVE  IdentitiesOf({c}) = Identities(c)
  BY InIdentities

\* An entry keeps the RNTI and the identities of its context.
LEMMA EntryOfContext ==
    ASSUME NEW c \in RrcUeContexts
    PROVE  /\ Entry(c) \in Entries
           /\ Entry(c).rnti = c.rnti
           /\ Identities(Entry(c)) = Identities(c)
  BY DEF Entry, Entries, RrcUeContexts, Identities

\* A new context has no identity.
LEMMA NewContextIsEmpty ==
    ASSUME NEW r \in Rntis
    PROVE  /\ NewContext(r) \in RrcUeContexts
           /\ NewContext(r).rnti = r
           /\ Identities(NewContext(r)) = {}
  BY DEF NewContext, RrcUeContexts, Identities

-----------------------------------------------------------------------------
(***************************************************************************)
(* The list of contexts.                                                   *)
(***************************************************************************)
\* The first context of an RNTI is a context of this RNTI.
LEMMA PlaceOfContext ==
    ASSUME NEW S, NEW list \in Seq(S), NEW r, IndexOf(list, r) # {}
    PROVE  Place(list, r) \in 1 .. Len(list) /\ list[Place(list, r)].rnti = r
  <1>1. IndexOf(list, r) \in SUBSET Nat
    BY DEF IndexOf
  <1>2. Place(list, r) \in IndexOf(list, r)
    BY <1>1, MinOfNats DEF Place
  <1> QED BY <1>2 DEF IndexOf

\* Appending a context for an RNTI without one keeps the list at one each
\* (MacCreateUeContext, RrcCreateUeContext).
LEMMA AppendKeepsOneEach ==
    ASSUME NEW S, NEW list \in Seq(S), NEW c \in S, IndexOf(list, c.rnti) = {}, OneEach(list)
    PROVE  OneEach(Append(list, c))
  <1>1. /\ Len(Append(list, c)) = Len(list) + 1 /\ Len(list) \in Nat
        /\ \A i \in 1 .. Len(list) : Append(list, c)[i] = list[i]
        /\ Append(list, c)[Len(list) + 1] = c
    BY AppendProperties, LenProperties
  <1>2. \A i \in 1 .. Len(list) + 1 : i \in 1 .. Len(list) \/ i = Len(list) + 1
    BY <1>1
  <1>3. \A i \in 1 .. Len(list) : list[i].rnti # c.rnti
    BY DEF IndexOf
  <1> QED BY <1>1, <1>2, <1>3 DEF OneEach

\* Removing a context keeps the list at one each.
LEMMA RemoveKeepsOneEach ==
    ASSUME NEW S, NEW list \in Seq(S), NEW k \in 1 .. Len(list), OneEach(list)
    PROVE  OneEach(RemoveAt(list, k))
  <1> DEFINE t == RemoveAt(list, k)
             from(i) == IF i < k THEN i ELSE i + 1
  <1>1. /\ t \in Seq(S) /\ Len(t) = Len(list) - 1
        /\ \A i \in 1 .. k - 1 : t[i] = list[i]
        /\ \A i \in k .. Len(list) - 1 : t[i] = list[i + 1]
    BY RemoveAtProperties
  <1>2. Len(list) \in Nat
    OBVIOUS
  <1> HIDE DEF t
  <1>3. ASSUME NEW i \in 1 .. Len(t)
        PROVE  from(i) \in 1 .. Len(list) /\ t[i] = list[from(i)]
    <2>1. CASE i < k
      BY <2>1, <1>1, <1>2
    <2>2. CASE ~(i < k)
      <3>1. i \in k .. Len(list) - 1
        BY <2>2, <1>1, <1>2
      <3> QED BY <3>1, <2>2, <1>1, <1>2
    <2> QED BY <2>1, <2>2
  <1>4. ASSUME NEW i \in 1 .. Len(t), NEW j \in 1 .. Len(t), t[i].rnti = t[j].rnti
        PROVE  i = j
    <2>1. from(i) = from(j)
      <3> HIDE DEF from
      <3> QED BY <1>3, <1>4 DEF OneEach
    <2> QED BY <2>1, <1>1, <1>2
  <1>5. OneEach(t)
    BY <1>4 DEF OneEach
  <1> QED BY <1>5 DEF t

\* Overwriting a context by one of the same RNTI keeps the list at one each.
LEMMA OverwriteKeepsOneEach ==
    ASSUME NEW S, NEW list \in Seq(S), NEW k \in 1 .. Len(list), NEW c \in S,
           c.rnti = list[k].rnti, OneEach(list)
    PROVE  OneEach([list EXCEPT ![k] = c])
  <1>1. /\ Len([list EXCEPT ![k] = c]) = Len(list)
        /\ \A i \in 1 .. Len(list) : [list EXCEPT ![k] = c][i] = IF i = k THEN c ELSE list[i]
    BY ToSetOfExcept
  <1>2. \A i \in 1 .. Len(list) : [list EXCEPT ![k] = c][i].rnti = list[i].rnti
    BY <1>1
  <1> QED BY <1>1, <1>2 DEF OneEach

\* The list with a context for an RNTI: one more context at most, an empty one,
\* and none of them twice.
LEMMA WithContextFacts ==
    ASSUME rrc \in Seq(RrcUeContexts), NEW r \in Rntis
    PROVE  /\ WithContext(r) \in Seq(RrcUeContexts)
           /\ OneEach(rrc) => OneEach(WithContext(r))
           /\ Place(WithContext(r), r) \in 1 .. Len(WithContext(r))
           /\ WithContext(r)[Place(WithContext(r), r)].rnti = r
           /\ ToSet(rrc) \subseteq ToSet(WithContext(r))
           /\ ToSet(WithContext(r)) \subseteq ToSet(rrc) \cup {NewContext(r)}
           /\ IdentitiesOf(ToSet(WithContext(r))) = IdentitiesOf(ToSet(rrc))
  <1> DEFINE list == WithContext(r)
  <1>1. /\ list \in Seq(RrcUeContexts)
        /\ IndexOf(list, r) # {}
        /\ ToSet(rrc) \subseteq ToSet(list)
        /\ ToSet(list) \subseteq ToSet(rrc) \cup {NewContext(r)}
        /\ OneEach(rrc) => OneEach(list)
    <2>1. CASE IndexOf(rrc, r) = {}
      <3>1. list = Append(rrc, NewContext(r))
        BY <2>1 DEF WithContext
      <3>2. NewContext(r) \in RrcUeContexts /\ NewContext(r).rnti = r
        BY NewContextIsEmpty
      <3>3. /\ list \in Seq(RrcUeContexts) /\ Len(list) = Len(rrc) + 1
            /\ ToSet(list) = ToSet(rrc) \cup {NewContext(r)}
        BY <3>1, <3>2, ToSetOfAppend
      <3>4. Len(rrc) + 1 \in 1 .. Len(list) /\ list[Len(rrc) + 1].rnti = r
        BY <3>1, <3>2, <3>3, AppendProperties
      <3>5. IndexOf(list, r) # {}
        BY <3>4 DEF IndexOf
      <3>6. OneEach(rrc) => OneEach(list)
        BY <2>1, <3>1, <3>2, AppendKeepsOneEach
      <3> QED BY <3>3, <3>5, <3>6
    <2>2. CASE IndexOf(rrc, r) # {}
      BY <2>2 DEF WithContext
    <2> QED BY <2>1, <2>2
  <1>2. Place(list, r) \in 1 .. Len(list) /\ list[Place(list, r)].rnti = r
    BY <1>1, PlaceOfContext
  <1>3. IdentitiesOf(ToSet(list)) = IdentitiesOf(ToSet(rrc))
    <2>1. \A x : x \notin Identities(NewContext(r))
      BY NewContextIsEmpty
    <2>2. \A x : x \in IdentitiesOf(ToSet(list)) <=> x \in IdentitiesOf(ToSet(rrc))
      BY <1>1, <2>1, InIdentities
    <2> QED BY <2>2
  <1> QED BY <1>1, <1>2, <1>3

-----------------------------------------------------------------------------
(***************************************************************************)
(* Storing an identity.                                                    *)
(***************************************************************************)
\* what a step that stores id in the context of r leaves of the lists
Stored(r, id) ==
    /\ rrc' \in Seq(RrcUeContexts) /\ ready' \in Seq(Entries)
    /\ OneEach(rrc) => OneEach(rrc')
    /\ seen \subseteq seen' /\ seen' \subseteq seen \cup {id}
    /\ lost \subseteq lost' /\ lost' \subseteq lost \cup IdentitiesOf(ToSet(rrc))
    /\ IdentitiesOf(ToSet(rrc)) \cup IdentitiesOf(ToSet(ready)) \cup (seen' \ seen)
          \subseteq IdentitiesOf(ToSet(rrc')) \cup IdentitiesOf(ToSet(ready')) \cup lost'
    /\ IdentitiesOf(ToSet(rrc')) \subseteq IdentitiesOf(ToSet(rrc)) \cup seen'
    /\ \A c \in ToSet(rrc') \cup ToSet(ready') : \A x \in Identities(c) :
          \/ x = id /\ c.rnti = r
          \/ \E d \in ToSet(rrc) \cup ToSet(ready) : d.rnti = c.rnti /\ x \in Identities(d)

\* Store, in the list with a context for r: replaced identities go to the ready list
\* or are counted as lost, nothing else leaves the lists, and what comes is id.
LEMMA StoreIdentity ==
    ASSUME rrc \in Seq(RrcUeContexts), ready \in Seq(Entries),
           NEW r \in Rntis, NEW list, list = WithContext(r), NEW i, i = Place(list, r),
           NEW updated \in RrcUeContexts, updated.rnti = r, NEW old, NEW id,
           id \in Identities(updated),
           Identities(updated) \subseteq Identities(list[i]) \cup {id},
           Identities(list[i]) \subseteq Identities(updated) \cup ({old} \ {NoId}),
           Store(list, i, old, updated, id)
    PROVE  Stored(r, id)
  <1>1. /\ list \in Seq(RrcUeContexts) /\ i \in 1 .. Len(list) /\ list[i].rnti = r
        /\ OneEach(rrc) => OneEach(list)
        /\ ToSet(list) \subseteq ToSet(rrc) \cup {NewContext(r)}
        /\ IdentitiesOf(ToSet(list)) = IdentitiesOf(ToSet(rrc))
    BY WithContextFacts
  <1>2. \A x : x \notin Identities(NewContext(r))
    BY NewContextIsEmpty
  <1>3. list[i] \in RrcUeContexts /\ list[i] \in ToSet(list)
    BY <1>1, LenProperties DEF ToSet
  <1>4. \A x \in Identities(list[i]) : x \in IdentitiesOf(ToSet(rrc))
    BY <1>1, <1>3, InIdentities
  <1>5. ASSUME NEW c \in ToSet(list), NEW x \in Identities(c)
        PROVE  \E d \in ToSet(rrc) \cup ToSet(ready) : d.rnti = c.rnti /\ x \in Identities(d)
    BY <1>1, <1>2, <1>5
  <1>6. CASE rrc' = list /\ UNCHANGED <<ready, seen, lost>>
    <2>1. IdentitiesOf(ToSet(rrc')) = IdentitiesOf(ToSet(rrc))
      BY <1>1, <1>6
    <2>2. ASSUME NEW c \in ToSet(rrc') \cup ToSet(ready'), NEW x \in Identities(c)
          PROVE  \E d \in ToSet(rrc) \cup ToSet(ready) : d.rnti = c.rnti /\ x \in Identities(d)
      BY <1>5, <1>6
    <2>3. \A c \in ToSet(rrc') \cup ToSet(ready') : \A x \in Identities(c) :
             \E d \in ToSet(rrc) \cup ToSet(ready) : d.rnti = c.rnti /\ x \in Identities(d)
      BY <2>2
    <2>4. /\ rrc' \in Seq(RrcUeContexts) /\ ready' \in Seq(Entries)
          /\ OneEach(rrc) => OneEach(rrc')
          /\ seen' = seen /\ lost' = lost /\ ready' = ready
      BY <1>1, <1>6
    <2> QED BY <2>1, <2>3, <2>4 DEF Stored
  <1>7. CASE /\ rrc' = [list EXCEPT ![i] = updated]
             /\ seen' = seen \cup {id}
             /\ IF old = NoId THEN UNCHANGED <<ready, lost>> ELSE KeepOld(list[i])
    <2>1. /\ rrc' \in Seq(RrcUeContexts)
          /\ ToSet(rrc') \subseteq ToSet(list) \cup {updated}
          /\ ToSet(list) \subseteq ToSet(rrc') \cup {list[i]}
          /\ updated \in ToSet(rrc')
      <3> DEFINE t == [list EXCEPT ![i] = updated]
      <3>1. /\ t \in Seq(RrcUeContexts)
            /\ ToSet(t) \subseteq ToSet(list) \cup {updated}
            /\ ToSet(list) \cup {updated} \subseteq ToSet(t) \cup {list[i]}
            /\ updated \in ToSet(t)
        <4>1. list \in Seq(RrcUeContexts) /\ i \in 1 .. Len(list) /\ updated \in RrcUeContexts
          BY <1>1
        <4> QED BY ONLY <4>1, ToSetOfExcept, Zenon
      <3>2. rrc' = t
        BY <1>7
      <3> HIDE DEF t
      <3> QED BY <3>1, <3>2
    <2>2. OneEach(rrc) => OneEach(rrc')
      BY <1>1, <1>7, OverwriteKeepsOneEach
    <2>3. /\ ready' \in Seq(Entries)
          /\ ToSet(ready) \subseteq ToSet(ready')
          /\ ToSet(ready') \subseteq ToSet(ready) \cup {Entry(list[i])}
          /\ lost \subseteq lost' /\ lost' \subseteq lost \cup Identities(list[i])
          /\ \/ old = NoId
             \/ Entry(list[i]) \in ToSet(ready')
             \/ Identities(list[i]) \subseteq lost'
      <3>1. CASE old = NoId
        BY <3>1, <1>7
      <3>2. CASE old # NoId /\ ready' = Append(ready, Entry(list[i])) /\ UNCHANGED lost
        <4>1. Entry(list[i]) \in Entries
          BY <1>3, EntryOfContext
        <4>2. ready' \in Seq(Entries) /\ ToSet(ready') = ToSet(ready) \cup {Entry(list[i])}
          BY <3>2, <4>1, ToSetOfAppend
        <4> QED BY <3>2, <4>2
      <3>3. CASE old # NoId /\ lost' = lost \cup Identities(list[i]) /\ UNCHANGED ready
        BY <3>3
      <3> QED BY <1>7, <3>1, <3>2, <3>3 DEF KeepOld
    <2>4. Identities(Entry(list[i])) = Identities(list[i]) /\ Entry(list[i]).rnti = r
      BY <1>1, <1>3, EntryOfContext
    <2>5. ASSUME NEW x \in IdentitiesOf(ToSet(rrc))
          PROVE  x \in IdentitiesOf(ToSet(rrc')) \cup IdentitiesOf(ToSet(ready')) \cup lost'
      <3>1. PICK c \in ToSet(list) : x \in Identities(c)
        BY <1>1, InIdentities
      <3>2. CASE c \in ToSet(rrc')
        BY <3>1, <3>2, InIdentities
      <3>3. CASE c = list[i]
        <4>1. CASE x \in Identities(updated)
          BY <4>1, <2>1, InIdentities
        <4>2. CASE old # NoId
          BY <4>2, <3>1, <3>3, <2>3, <2>4, InIdentities
        <4> QED BY <3>1, <3>3, <4>1, <4>2
      <3> QED BY <3>2, <3>3, <2>1
    <2>6. IdentitiesOf(ToSet(ready)) \subseteq IdentitiesOf(ToSet(ready'))
      BY <2>3, IdentitiesUnion
    <2>7. id \in IdentitiesOf(ToSet(rrc'))
      BY <2>1, InIdentities
    <2>8. ASSUME NEW x \in IdentitiesOf(ToSet(rrc'))
          PROVE  x \in IdentitiesOf(ToSet(rrc)) \cup seen'
      <3>1. PICK c \in ToSet(rrc') : x \in Identities(c)
        BY InIdentities
      <3>2. CASE c \in ToSet(list)
        BY <1>1, <3>1, <3>2, InIdentities
      <3>3. CASE c = updated
        BY <1>4, <1>7, <3>1, <3>3
      <3> QED BY <2>1, <3>2, <3>3
    <2>9. ASSUME NEW c \in ToSet(rrc') \cup ToSet(ready'), NEW x \in Identities(c)
          PROVE  \/ x = id /\ c.rnti = r
                 \/ \E d \in ToSet(rrc) \cup ToSet(ready) : d.rnti = c.rnti /\ x \in Identities(d)
      <3>1. CASE c \in ToSet(list)
        BY <1>5, <3>1, <2>9
      <3>2. CASE c = updated
        <4>1. CASE x \in Identities(list[i])
          BY <1>1, <1>3, <1>5, <3>2, <4>1
        <4> QED BY <2>9, <3>2, <4>1
      <3>3. CASE c \in ToSet(ready)
        BY <3>3, <2>9
      <3>4. CASE c = Entry(list[i])
        BY <1>1, <1>3, <1>5, <2>4, <2>9, <3>4
      <3> QED BY <2>1, <2>3, <2>9, <3>1, <3>2, <3>3, <3>4
    <2>10. lost' \subseteq lost \cup IdentitiesOf(ToSet(rrc))
      BY <1>4, <2>3
    <2>11. seen \subseteq seen' /\ seen' = seen \cup {id} /\ lost \subseteq lost'
      BY <1>7, <2>3
    <2>12. IdentitiesOf(ToSet(rrc)) \cup IdentitiesOf(ToSet(ready)) \cup (seen' \ seen)
              \subseteq IdentitiesOf(ToSet(rrc')) \cup IdentitiesOf(ToSet(ready')) \cup lost'
      BY <2>5, <2>6, <2>7, <2>11
    <2>13. IdentitiesOf(ToSet(rrc')) \subseteq IdentitiesOf(ToSet(rrc)) \cup seen'
      BY <2>8
    <2>14. \A c \in ToSet(rrc') \cup ToSet(ready') : \A x \in Identities(c) :
             \/ x = id /\ c.rnti = r
             \/ \E d \in ToSet(rrc) \cup ToSet(ready) : d.rnti = c.rnti /\ x \in Identities(d)
      BY <2>9
    <2> QED BY <2>1, <2>2, <2>3, <2>10, <2>11, <2>12, <2>13, <2>14 DEF Stored
  <1> QED BY <1>6, <1>7 DEF Store

\* Storing an IMSI or an M-TMSI.
LEMMA ImsiIsStored ==
    ASSUME RrcContextsAssumption, rrc \in Seq(RrcUeContexts), ready \in Seq(Entries),
           NEW r \in Rntis, NEW imsi \in Imsis, RrcUpdateImsi(r, imsi)
    PROVE  Stored(r, imsi)
  <1> DEFINE list == WithContext(r)
             i == Place(list, r)
             c == list[i]
             updated == [list[i] EXCEPT !.imsi = imsi]
  <1>1. c \in RrcUeContexts /\ c.rnti = r
    BY WithContextFacts
  <1>2. Store(list, i, c.imsi, updated, imsi)
    BY DEF RrcUpdateImsi
  <1>3. /\ updated \in RrcUeContexts /\ updated.rnti = r
        /\ imsi \in Identities(updated)
        /\ Identities(updated) \subseteq Identities(c) \cup {imsi}
        /\ Identities(c) \subseteq Identities(updated) \cup ({c.imsi} \ {NoId})
    BY <1>1 DEF RrcUeContexts, Identities, RrcContextsAssumption
  <1> HIDE DEF list, i, updated
  <1> QED BY <1>2, <1>3, StoreIdentity DEF list, i

LEMMA MTmsiIsStored ==
    ASSUME RrcContextsAssumption, rrc \in Seq(RrcUeContexts), ready \in Seq(Entries),
           NEW r \in Rntis, NEW mTmsi \in MTmsis, RrcUpdateMTmsi(r, mTmsi)
    PROVE  Stored(r, mTmsi)
  <1> DEFINE list == WithContext(r)
             i == Place(list, r)
             c == list[i]
             updated == [list[i] EXCEPT !.mTmsi = mTmsi]
  <1>1. c \in RrcUeContexts /\ c.rnti = r
    BY WithContextFacts
  <1>2. Store(list, i, c.mTmsi, updated, mTmsi)
    BY DEF RrcUpdateMTmsi
  <1>3. /\ updated \in RrcUeContexts /\ updated.rnti = r
        /\ mTmsi \in Identities(updated)
        /\ Identities(updated) \subseteq Identities(c) \cup {mTmsi}
        /\ Identities(c) \subseteq Identities(updated) \cup ({c.mTmsi} \ {NoId})
    BY <1>1 DEF RrcUeContexts, Identities, RrcContextsAssumption
  <1> HIDE DEF list, i, updated
  <1> QED BY <1>2, <1>3, StoreIdentity DEF list, i

-----------------------------------------------------------------------------
(***************************************************************************)
(* From the contexts to the OAM (UeReport).                                *)
(***************************************************************************)
\* the invariants of the runs and the places of the loops are inductive together
ReportInv == NoIdentityIsDropped /\ OneContextPerRnti /\ PassInBounds

MacUeContexts == [rnti : Rntis, idleCount : Nat]

\* The held identities, place by place, in this state and the next.
LEMMA HeldIdentities ==
    /\ IdentitiesOf(Held) = IdentitiesOf(ToSet(rrc)) \cup IdentitiesOf(ToSet(ready))
                            \cup IdentitiesOf(ToSet(report)) \cup IdentitiesOf(sent)
    /\ IdentitiesOf(Held)' = IdentitiesOf(ToSet(rrc')) \cup IdentitiesOf(ToSet(ready'))
                             \cup IdentitiesOf(ToSet(report')) \cup IdentitiesOf(sent')
  <1>1. ASSUME NEW A, NEW B, NEW C, NEW D
        PROVE  IdentitiesOf(A \cup B \cup C \cup D)
                  = IdentitiesOf(A) \cup IdentitiesOf(B) \cup IdentitiesOf(C) \cup IdentitiesOf(D)
    <2>1. IdentitiesOf(A \cup B) = IdentitiesOf(A) \cup IdentitiesOf(B)
      BY IdentitiesUnion
    <2>2. IdentitiesOf((A \cup B) \cup C) = IdentitiesOf(A \cup B) \cup IdentitiesOf(C)
      BY IdentitiesUnion
    <2>3. IdentitiesOf((A \cup B \cup C) \cup D) = IdentitiesOf(A \cup B \cup C) \cup IdentitiesOf(D)
      BY IdentitiesUnion
    <2> QED BY <2>1, <2>2, <2>3
  <1>2. IdentitiesOf(Held)' = IdentitiesOf(Held')
    BY DEF IdentitiesOf, Identities
  <1>3. Held' = ToSet(rrc') \cup ToSet(ready') \cup ToSet(report') \cup sent'
    BY DEF Held, ToSet
  <1>4. IdentitiesOf(Held') = IdentitiesOf(ToSet(rrc')) \cup IdentitiesOf(ToSet(ready'))
                              \cup IdentitiesOf(ToSet(report')) \cup IdentitiesOf(sent')
    BY <1>1, <1>3
  <1>5. IdentitiesOf(Held) = IdentitiesOf(ToSet(rrc)) \cup IdentitiesOf(ToSet(ready))
                             \cup IdentitiesOf(ToSet(report)) \cup IdentitiesOf(sent)
    BY <1>1 DEF Held
  <1> QED BY <1>2, <1>4, <1>5

\* A packet gives its UE at most one MAC context.
LEMMA MacContextIsOne ==
    ASSUME UeReportAssumption, mac \in Seq(MacUeContexts), OneEach(mac),
           messages \in 0 .. MaxMessages, NEW r \in Rntis, MacProcessPhyDataInd(r)
    PROVE  mac' \in Seq(MacUeContexts) /\ OneEach(mac') /\ messages' \in 0 .. MaxMessages
  <1>1. messages' \in 0 .. MaxMessages
    BY DEF MacProcessPhyDataInd, UeReportAssumption
  <1> DEFINE c == [rnti |-> r, idleCount |-> 0]
  <1>2. CASE IndexOf(mac, r) = {} /\ mac' = Append(mac, c)
    <2>1. c \in MacUeContexts /\ c.rnti = r
      BY DEF MacUeContexts
    <2> HIDE DEF c
    <2>2. Append(mac, c) \in Seq(MacUeContexts) /\ OneEach(Append(mac, c))
      BY <1>2, <2>1, AppendKeepsOneEach, ToSetOfAppend
    <2> QED BY <1>1, <1>2, <2>2
  <1>3. CASE mac' = mac
    BY <1>1, <1>3
  <1> QED BY <1>2, <1>3 DEF MacProcessPhyDataInd

\* A packet keeps the invariant when what it does to the RRC lists loses nothing.
LEMMA PacketKeeps ==
    ASSUME UeReportAssumption, ReportInv, NEW r \in Rntis, MacProcessPhyDataInd(r),
           rrc' \in Seq(RrcUeContexts), ready' \in Seq(Entries), OneEach(rrc'),
           seen \subseteq seen', seen' \subseteq Imsis \cup MTmsis,
           lost \subseteq lost', lost' \subseteq seen',
           IdentitiesOf(ToSet(rrc)) \cup IdentitiesOf(ToSet(ready)) \cup (seen' \ seen)
              \subseteq IdentitiesOf(ToSet(rrc')) \cup IdentitiesOf(ToSet(ready')) \cup lost',
           IdentitiesOf(ToSet(rrc')) \subseteq seen'
    PROVE  ReportInv'
  <1> USE DEF ReportInv, NoIdentityIsDropped, OneContextPerRnti
  <1>1. phase = "packets" /\ UNCHANGED <<phase, pos, report, sent>>
    BY DEF MacProcessPhyDataInd
  <1>2. mac' \in Seq(MacUeContexts) /\ OneEach(mac') /\ messages' \in 0 .. MaxMessages
    BY MacContextIsOne DEF TypeOK, MacUeContexts
  <1>3. TypeOK'
    BY <1>1, <1>2 DEF TypeOK, MacUeContexts
  <1>4. seen' \subseteq IdentitiesOf(Held)' \cup lost'
    BY <1>1, HeldIdentities
  <1>5. OneEach(rrc)' /\ OneEach(mac)'
    BY <1>2 DEF OneEach
  <1>6. PassInBounds'
    <2>1. IdentitiesOf(ToSet(rrc))' \subseteq seen'
      BY DEF IdentitiesOf, Identities, ToSet
    <2> QED BY <1>1, <2>1 DEF PassInBounds
  <1> QED BY <1>3, <1>4, <1>5, <1>6

\* Every packet keeps the invariant.
LEMMA PacketStep ==
    ASSUME RrcContextsAssumption, UeReportAssumption, ReportInv, Packet
    PROVE  ReportInv'
  <1> USE DEF ReportInv, NoIdentityIsDropped, OneContextPerRnti
  <1>1. PICK r \in Rntis :
           /\ MacProcessPhyDataInd(r)
           /\ \/ \E x \in Imsis : RrcUpdateImsi(r, x)
              \/ \E x \in MTmsis : RrcUpdateMTmsi(r, x)
              \/ MakeContext(r)
              \/ UNCHANGED rrcVars
    BY DEF Packet, ImsiMessage, MTmsiMessage, OtherMessage, MacOnly
  <1>2. /\ rrc \in Seq(RrcUeContexts) /\ ready \in Seq(Entries) /\ OneEach(rrc)
        /\ seen \subseteq Imsis \cup MTmsis /\ lost \subseteq seen
        /\ IdentitiesOf(ToSet(rrc)) \subseteq seen
    BY DEF TypeOK, PassInBounds
  <1>3. ASSUME NEW id \in Imsis \cup MTmsis, Stored(r, id)
        PROVE  ReportInv'
    <2>1. lost' \subseteq seen' /\ seen' \subseteq Imsis \cup MTmsis
      BY <1>2, <1>3 DEF Stored
    <2>2. IdentitiesOf(ToSet(rrc')) \subseteq seen'
      BY <1>2, <1>3 DEF Stored
    <2> QED BY <1>1, <1>2, <1>3, <2>1, <2>2, PacketKeeps DEF Stored
  <1>4. ASSUME NEW x \in Imsis, RrcUpdateImsi(r, x)
        PROVE  ReportInv'
    BY <1>2, <1>3, <1>4, ImsiIsStored
  <1>5. ASSUME NEW x \in MTmsis, RrcUpdateMTmsi(r, x)
        PROVE  ReportInv'
    BY <1>2, <1>3, <1>5, MTmsiIsStored
  <1>6. CASE MakeContext(r)
    <2>1. rrc' = WithContext(r) /\ ready' = ready /\ seen' = seen /\ lost' = lost
      BY <1>6 DEF MakeContext
    <2>2. /\ rrc' \in Seq(RrcUeContexts) /\ OneEach(rrc')
          /\ IdentitiesOf(ToSet(rrc')) = IdentitiesOf(ToSet(rrc))
      BY <1>2, <2>1, WithContextFacts
    <2> QED BY <1>1, <1>2, <2>1, <2>2, PacketKeeps
  <1>7. CASE UNCHANGED rrcVars
    <2>1. rrc' = rrc /\ ready' = ready /\ seen' = seen /\ lost' = lost
      BY <1>7 DEF rrcVars
    <2> QED BY <1>1, <1>2, <2>1, PacketKeeps
  <1> QED BY <1>1, <1>4, <1>5, <1>6, <1>7

\* The datagram takes one more entry where there is room.
LEMMA ReportGrows ==
    ASSUME UeReportAssumption, report \in Seq(Entries), Room, NEW e \in Entries
    PROVE  /\ Append(report, e) \in Seq(Entries)
           /\ Len(Append(report, e)) <= MAX_NUM_UE_INFO_REPORT
           /\ ToSet(Append(report, e)) = ToSet(report) \cup {e}
  BY ToSetOfAppend, LenProperties DEF Room, UeReportAssumption

\* A step of the pass keeps the invariant when it stores nothing, loses nothing and
\* its loops stay in their places.
LEMMA PassKeeps ==
    ASSUME UeReportAssumption, ReportInv, UNCHANGED <<seen, lost, messages>>,
           rrc' \in Seq(RrcUeContexts), ready' \in Seq(Entries), mac' \in Seq(MacUeContexts),
           OneEach(rrc'), OneEach(mac'),
           phase' \in {"packets", "ready", "rrc", "mac"}, pos' \in Nat,
           report' \in Seq(Entries), Len(report') <= MAX_NUM_UE_INFO_REPORT,
           sent' \subseteq Entries,
           phase' = "packets" => report' = <<>>,
           phase' = "ready" => pos' <= Len(ready') /\ Len(report') < MAX_NUM_UE_INFO_REPORT,
           phase' \in {"rrc", "mac"} => pos' >= 1,
           IdentitiesOf(ToSet(rrc')) \subseteq IdentitiesOf(ToSet(rrc)),
           IdentitiesOf(ToSet(rrc)) \cup IdentitiesOf(ToSet(ready))
              \cup IdentitiesOf(ToSet(report)) \cup IdentitiesOf(sent)
              \subseteq IdentitiesOf(ToSet(rrc')) \cup IdentitiesOf(ToSet(ready'))
                        \cup IdentitiesOf(ToSet(report')) \cup IdentitiesOf(sent')
    PROVE  ReportInv'
  <1> USE DEF ReportInv, NoIdentityIsDropped, OneContextPerRnti
  <1>1. TypeOK'
    BY DEF TypeOK, MacUeContexts
  <1>2. seen' \subseteq IdentitiesOf(Held)' \cup lost'
    BY HeldIdentities
  <1>3. OneEach(rrc)' /\ OneEach(mac)'
    BY DEF OneEach
  <1>4. IdentitiesOf(ToSet(rrc))' \subseteq seen'
    <2>1. IdentitiesOf(ToSet(rrc))' = IdentitiesOf(ToSet(rrc'))
      BY DEF IdentitiesOf, Identities, ToSet
    <2> QED BY <2>1 DEF PassInBounds
  <1>5. PassInBounds'
    BY <1>4 DEF PassInBounds, Room
  <1> QED BY <1>1, <1>2, <1>3, <1>5

\* Every step of the pass keeps the invariant.
LEMMA PassStep ==
    ASSUME UeReportAssumption, ReportInv, Pass
    PROVE  ReportInv'
  <1>1. /\ rrc \in Seq(RrcUeContexts) /\ ready \in Seq(Entries) /\ mac \in Seq(MacUeContexts)
        /\ OneEach(rrc) /\ OneEach(mac)
        /\ phase \in {"packets", "ready", "rrc", "mac"} /\ pos \in Nat
        /\ report \in Seq(Entries) /\ Len(report) <= MAX_NUM_UE_INFO_REPORT
        /\ sent \subseteq Entries
    BY DEF ReportInv, NoIdentityIsDropped, OneContextPerRnti, TypeOK, MacUeContexts
  <1>2. /\ phase = "packets" => report = <<>>
        /\ phase = "ready" => pos <= Len(ready) /\ Room
        /\ phase \in {"rrc", "mac"} => pos >= 1
    BY DEF ReportInv, PassInBounds
  <1>3. MAX_NUM_UE_INFO_REPORT \in Nat \ {0} /\ Len(ready) \in Nat /\ Len(<<>>) = 0 /\ <<>> \in Seq(Entries)
    BY <1>1 DEF UeReportAssumption
  <1> USE DEF listVars, historyVars
  <1>4. ASSUME UlpRecvAndHandleOamData PROVE ReportInv'
    <2> USE <1>4 DEF UlpRecvAndHandleOamData
    <2>1. report' = report /\ report' = <<>>
      BY <1>2
    <2> QED BY <1>1, <1>3, <2>1, PassKeeps
  <1>5. ASSUME PopReady PROVE ReportInv'
    <2> DEFINE e == Head(ready)
    <2>1. /\ phase = "ready" /\ pos > 0
          /\ ready' = Tail(ready)
          /\ report' = IF Present(e) THEN Append(report, e) ELSE report
          /\ \/ Len(report') = MAX_NUM_UE_INFO_REPORT /\ phase' = "rrc" /\ pos' = 1
             \/ Len(report') # MAX_NUM_UE_INFO_REPORT /\ phase' = phase /\ pos' = pos - 1
          /\ UNCHANGED <<rrc, mac, sent, seen, lost, messages>>
      BY <1>5 DEF PopReady
    <2>2. /\ e \in Entries /\ ready' \in Seq(Entries) /\ Len(ready') = Len(ready) - 1
          /\ ToSet(ready) = ToSet(ready') \cup {e}
      <3>1. Len(ready) > 0
        BY <1>1, <1>2, <1>3, <2>1
      <3> QED BY <1>1, <2>1, <3>1, ToSetOfTail
    <2>3. /\ report' \in Seq(Entries) /\ Len(report') <= MAX_NUM_UE_INFO_REPORT
          /\ IdentitiesOf(ToSet(report)) \cup Identities(e) \subseteq IdentitiesOf(ToSet(report'))
      <3> HIDE DEF e
      <3>1. CASE Present(e)
        <4>1. /\ report' \in Seq(Entries) /\ Len(report') <= MAX_NUM_UE_INFO_REPORT
              /\ ToSet(report') = ToSet(report) \cup {e}
          BY <1>1, <1>2, <2>1, <2>2, <3>1, ReportGrows
        <4> QED BY <4>1, InIdentities
      <3>2. CASE ~Present(e)
        BY <1>1, <2>1, <3>2 DEF Present
      <3> QED BY <3>1, <3>2
    <2>4. IdentitiesOf(ToSet(ready)) = IdentitiesOf(ToSet(ready')) \cup Identities(e)
      BY <2>2, IdentitiesUnion, IdentitiesOne
    <2>5. Len(report') \in Nat
      BY <2>3
    <2> HIDE DEF e
    <2>6. /\ pos' \in Nat /\ phase' \in {"ready", "rrc"}
          /\ phase' = "rrc" => pos' >= 1
          /\ phase' = "ready" => pos' <= Len(ready') /\ Len(report') < MAX_NUM_UE_INFO_REPORT
      BY <1>1, <1>2, <1>3, <2>1, <2>2, <2>3, <2>5
    <2> QED BY <1>1, <2>1, <2>2, <2>3, <2>4, <2>6, PassKeeps
  <1>6. ASSUME ReadyDone PROVE ReportInv'
    BY <1>1, <1>6, PassKeeps DEF ReadyDone
  <1>7. ASSUME VisitRrc PROVE ReportInv'
    <2> DEFINE c == rrc[pos]
    <2>1. /\ phase = "rrc" /\ pos \in 1 .. Len(rrc) /\ Len(rrc) \in Nat
          /\ UNCHANGED <<ready, mac, phase, sent, seen, lost, messages>>
      BY <1>1, <1>2, <1>7 DEF VisitRrc
    <2>2. c \in RrcUeContexts /\ c \in ToSet(rrc)
      BY <1>1, <2>1, LenProperties DEF ToSet
    <2>3. /\ Entry(c) \in Entries /\ Identities(Entry(c)) = Identities(c)
      BY <2>2, EntryOfContext
    <2>4. CASE /\ IsDue(c)
               /\ report' = IF Present(c) THEN Append(report, Entry(c)) ELSE report
               /\ rrc' = RemoveAt(rrc, pos)
               /\ UNCHANGED pos
      <3> HIDE DEF c
      <3>1. /\ rrc' \in Seq(RrcUeContexts) /\ OneEach(rrc')
            /\ ToSet(rrc') \subseteq ToSet(rrc)
            /\ ToSet(rrc) \subseteq ToSet(rrc') \cup {c}
        BY <1>1, <2>1, <2>4, RemoveAtProperties, RemoveKeepsOneEach, ToSetOfRemoveAt DEF c
      <3>2. /\ report' \in Seq(Entries) /\ Len(report') <= MAX_NUM_UE_INFO_REPORT
            /\ IdentitiesOf(ToSet(report)) \cup Identities(c) \subseteq IdentitiesOf(ToSet(report'))
        <4>1. CASE Present(c)
          <5>1. /\ report' \in Seq(Entries) /\ Len(report') <= MAX_NUM_UE_INFO_REPORT
                /\ ToSet(report') = ToSet(report) \cup {Entry(c)}
            BY <1>1, <2>3, <2>4, <4>1, ReportGrows DEF IsDue
          <5> QED BY <2>3, <5>1, InIdentities
        <4>2. CASE ~Present(c)
          BY <1>1, <2>4, <4>2 DEF Present
        <4> QED BY <4>1, <4>2
      <3>3. /\ IdentitiesOf(ToSet(rrc')) \subseteq IdentitiesOf(ToSet(rrc))
            /\ IdentitiesOf(ToSet(rrc)) \subseteq IdentitiesOf(ToSet(rrc')) \cup Identities(c)
        <4>1. IdentitiesOf(ToSet(rrc') \cup {c}) = IdentitiesOf(ToSet(rrc')) \cup Identities(c)
          BY IdentitiesUnion, IdentitiesOne
        <4> QED BY <3>1, <4>1, IdentitiesUnion
      <3> QED BY <1>1, <1>2, <2>1, <2>4, <3>1, <3>2, <3>3, PassKeeps
    <2>5. CASE rrc' = Aged(rrc, pos) /\ pos' = pos + 1 /\ UNCHANGED report
      <3> DEFINE older == [c EXCEPT !.idleCount = @ + 1]
      <3>1. /\ older \in RrcUeContexts /\ older.rnti = c.rnti
            /\ Identities(older) = Identities(c)
        BY <2>2 DEF RrcUeContexts, Identities
      <3>2. rrc' = [rrc EXCEPT ![pos] = older]
        BY <2>5 DEF Aged
      <3> HIDE DEF older, c
      <3>3. /\ rrc' \in Seq(RrcUeContexts) /\ OneEach(rrc')
            /\ ToSet(rrc') \subseteq ToSet(rrc) \cup {older}
            /\ ToSet(rrc) \subseteq ToSet(rrc') \cup {c}
            /\ older \in ToSet(rrc')
        <4> DEFINE t == [rrc EXCEPT ![pos] = older]
        <4>1. /\ rrc \in Seq(RrcUeContexts) /\ pos \in 1 .. Len(rrc) /\ older \in RrcUeContexts
              /\ older.rnti = rrc[pos].rnti /\ OneEach(rrc)
          BY <1>1, <2>1, <3>1 DEF c
        <4>2. /\ t \in Seq(RrcUeContexts)
              /\ ToSet(t) \subseteq ToSet(rrc) \cup {older}
              /\ ToSet(rrc) \cup {older} \subseteq ToSet(t) \cup {rrc[pos]}
              /\ older \in ToSet(t)
          BY ONLY <4>1, ToSetOfExcept, Zenon
        <4>3. OneEach(t)
          BY ONLY <4>1, OverwriteKeepsOneEach, Zenon
        <4>4. rrc' = t
          BY <3>2
        <4> HIDE DEF t
        <4> QED BY <4>2, <4>3, <4>4 DEF c
      <3>4. IdentitiesOf(ToSet(rrc')) = IdentitiesOf(ToSet(rrc))
        <4>1. \A x : x \in IdentitiesOf(ToSet(rrc')) <=> x \in IdentitiesOf(ToSet(rrc))
          BY <2>2, <3>1, <3>3, InIdentities
        <4> QED BY <4>1
      <3>5. pos' \in Nat /\ pos' >= 1
        BY <2>1, <2>5
      <3> QED BY <1>1, <2>1, <2>5, <3>3, <3>4, <3>5, PassKeeps
    <2> QED BY <1>7, <2>4, <2>5 DEF VisitRrc, Without
  <1>8. ASSUME RrcDone PROVE ReportInv'
    BY <1>1, <1>8, PassKeeps DEF RrcDone
  <1>9. ASSUME VisitMac PROVE ReportInv'
    <2> DEFINE c == mac[pos]
    <2>1. /\ phase = "mac" /\ pos \in 1 .. Len(mac) /\ Len(mac) \in Nat
          /\ UNCHANGED <<rrc, ready, phase, sent, seen, lost, messages>>
      BY <1>1, <1>2, <1>9 DEF VisitMac
    <2>2. c \in MacUeContexts
      BY <1>1, <2>1
    <2>3. CASE /\ Room
               /\ report' = Append(report, Entry(NewContext(c.rnti)))
               /\ mac' = RemoveAt(mac, pos)
               /\ UNCHANGED pos
      <3>1. mac' \in Seq(MacUeContexts) /\ OneEach(mac')
        BY <1>1, <2>1, <2>3, RemoveAtProperties, RemoveKeepsOneEach
      <3>2. Entry(NewContext(c.rnti)) \in Entries
        BY <2>2, NewContextIsEmpty, EntryOfContext DEF MacUeContexts
      <3>3. /\ report' \in Seq(Entries) /\ Len(report') <= MAX_NUM_UE_INFO_REPORT
            /\ ToSet(report') = ToSet(report) \cup {Entry(NewContext(c.rnti))}
        BY <1>1, <2>3, <3>2, ReportGrows
      <3>4. IdentitiesOf(ToSet(report)) \subseteq IdentitiesOf(ToSet(report'))
        BY <3>3, IdentitiesUnion
      <3> QED BY <1>1, <1>2, <2>1, <2>3, <3>1, <3>3, <3>4, PassKeeps
    <2>4. CASE mac' = Aged(mac, pos) /\ pos' = pos + 1 /\ UNCHANGED report
      <3> DEFINE older == [c EXCEPT !.idleCount = @ + 1]
      <3>1. older \in MacUeContexts /\ older.rnti = c.rnti
        BY <2>2 DEF MacUeContexts
      <3>2. mac' = [mac EXCEPT ![pos] = older]
        BY <2>4 DEF Aged
      <3> HIDE DEF older
      <3>3. mac' \in Seq(MacUeContexts) /\ OneEach(mac')
        <4>1. /\ mac \in Seq(MacUeContexts) /\ pos \in 1 .. Len(mac) /\ older \in MacUeContexts
              /\ older.rnti = mac[pos].rnti /\ OneEach(mac)
          BY <1>1, <2>1, <3>1
        <4>2. [mac EXCEPT ![pos] = older] \in Seq(MacUeContexts)
          BY ONLY <4>1, ToSetOfExcept, Zenon
        <4>3. OneEach([mac EXCEPT ![pos] = older])
          BY ONLY <4>1, OverwriteKeepsOneEach, Zenon
        <4> QED BY <3>2, <4>2, <4>3
      <3>4. pos' \in Nat /\ pos' >= 1
        BY <2>1, <2>4
      <3> QED BY <1>1, <2>1, <2>4, <3>3, <3>4, PassKeeps
    <2> QED BY <1>9, <2>3, <2>4 DEF VisitMac, Without
  <1>10. ASSUME SendReport PROVE ReportInv'
    <2>1. /\ sent' = sent \cup ToSet(report) /\ report' = <<>>
          /\ phase' = "packets" /\ pos' = 0
          /\ UNCHANGED <<rrc, ready, mac, seen, lost, messages>>
      BY <1>10 DEF SendReport
    <2>2. ToSet(report) \subseteq Entries
      BY <1>1, LenProperties, ElementOfSeq DEF ToSet
    <2>3. IdentitiesOf(sent') = IdentitiesOf(sent) \cup IdentitiesOf(ToSet(report))
      BY <2>1, IdentitiesUnion
    <2>4. /\ report' \in Seq(Entries) /\ Len(report') <= MAX_NUM_UE_INFO_REPORT
          /\ sent' \subseteq Entries /\ pos' \in Nat
      BY <1>1, <1>3, <2>1, <2>2
    <2>5. IdentitiesOf(ToSet(rrc')) = IdentitiesOf(ToSet(rrc))
          /\ IdentitiesOf(ToSet(ready')) = IdentitiesOf(ToSet(ready))
      BY <2>1
    <2>6. /\ phase' # "ready" /\ phase' \notin {"rrc", "mac"}
          /\ phase' \in {"packets", "ready", "rrc", "mac"}
      BY <2>1
    <2>7. rrc' \in Seq(RrcUeContexts) /\ ready' \in Seq(Entries) /\ mac' \in Seq(MacUeContexts)
          /\ OneEach(rrc') /\ OneEach(mac')
      BY <1>1, <2>1
    <2> QED BY <2>1, <2>3, <2>4, <2>5, <2>6, <2>7, PassKeeps
  <1> QED BY <1>4, <1>5, <1>6, <1>7, <1>8, <1>9, <1>10 DEF Pass

\* The invariants of UeReport and the places of its loops hold in every behaviour.
THEOREM ReportInvariant == Spec => []ReportInv
  <1>1. Init => ReportInv
    <2> SUFFICES ASSUME Init PROVE ReportInv
      OBVIOUS
    <2>1. \A S : <<>> \in Seq(S)
      OBVIOUS
    <2>2. Len(<<>>) = 0 /\ ToSet(<<>>) = {}
      BY DEF ToSet
    <2>3. MAX_NUM_UE_INFO_REPORT \in Nat /\ MaxMessages \in Nat
      BY UeReportAssumption DEF UeReportAssumption
    <2>4. TypeOK
      BY <2>1, <2>2, <2>3 DEF Init, RrcInit, TypeOK
    <2>5. IdentitiesOf(ToSet(rrc)) = {}
      BY <2>2, InIdentities DEF Init, RrcInit
    <2> QED BY <2>2, <2>4, <2>5
            DEF Init, RrcInit, ReportInv, NoIdentityIsDropped, OneContextPerRnti, OneEach, PassInBounds
  <1>2. ReportInv /\ [Next]_vars => ReportInv'
    <2> SUFFICES ASSUME ReportInv, [Next]_vars PROVE ReportInv'
      OBVIOUS
    <2>1. CASE UNCHANGED vars
      <3> USE <2>1 DEF vars, listVars, historyVars, ReportInv
      <3>1. TypeOK'
        BY DEF NoIdentityIsDropped, TypeOK
      <3>2. seen' \subseteq IdentitiesOf(Held)' \cup lost'
        BY HeldIdentities DEF NoIdentityIsDropped
      <3>3. OneContextPerRnti'
        BY DEF OneContextPerRnti, OneEach
      <3>4. IdentitiesOf(ToSet(rrc))' \subseteq seen'
        BY DEF PassInBounds, IdentitiesOf, Identities, ToSet
      <3>5. PassInBounds'
        BY <3>4 DEF PassInBounds, Room
      <3> QED BY <3>1, <3>2, <3>3, <3>5 DEF NoIdentityIsDropped
    <2> QED BY <2>1, PacketStep, PassStep, RrcContextsAssumption, UeReportAssumption DEF Next
  <1> QED BY <1>1, <1>2, PTL DEF Spec

\* An identity RRC stored is in a context, in the ready list, in the datagram being
\* filled or sent, or was counted as lost, whatever the order of packets and passes
\* (RrcUpdateImsi, RrcUpdateMTmsi and UlpRecvAndHandleOamData).
THEOREM IdentitiesAreKept == Spec => []NoIdentityIsDropped
  BY ReportInvariant, PTL DEF ReportInv

\* No RNTI ever has two contexts, neither of RRC nor of MAC.
THEOREM ContextsAreUnique == Spec => []OneContextPerRnti
  BY ReportInvariant, PTL DEF ReportInv

-----------------------------------------------------------------------------
(***************************************************************************)
(* From a message to its context (RrcParse).                               *)
(***************************************************************************)
\* What RRC knows of a message while it works on it.
LEMMA MessageFacts ==
    ASSUME ParseInv
    PROVE  /\ msg \in Messages /\ msg.rnti \in Rntis /\ msg.id \in Imsis \cup MTmsis \cup {NoId}
           /\ msg.kind = "RRC_CON_REQ" => msg.nas = "none"
  BY DEF ParseInv, ParseTypeOK, Messages, Ids

\* A step that leaves the contexts alone keeps what they hold within what was carried.
LEMMA ContextsAlone ==
    ASSUME ParseInv, UNCHANGED rrcVars, carried' \in [Rntis -> SUBSET (Imsis \cup MTmsis)],
           \A r \in Rntis : carried[r] \subseteq carried'[r]
    PROVE  IdentitiesOfTheUe' /\ rrc' \in Seq(RrcUeContexts) /\ ready' \in Seq(Entries)
  <1>1. rrc' = rrc /\ ready' = ready
    BY DEF rrcVars
  <1>2. rrc \in Seq(RrcUeContexts) /\ ready \in Seq(Entries)
    BY DEF ParseInv, ParseTypeOK
  <1>3. ASSUME NEW c \in ToSet(rrc) \cup ToSet(ready)
        PROVE  c.rnti \in Rntis /\ Identities(c) \subseteq carried[c.rnti]
    <2>1. c \in RrcUeContexts \/ c \in Entries
      BY <1>2, <1>3, LenProperties, ElementOfSeq DEF ToSet
    <2> QED BY <2>1 DEF RrcUeContexts, Entries, ParseInv, IdentitiesOfTheUe
  <1>4. \A c \in ToSet(rrc') \cup ToSet(ready') : Identities(c) \subseteq carried'[c.rnti]
    BY <1>1, <1>3
  <1>5. IdentitiesOfTheUe'
    BY <1>4 DEF IdentitiesOfTheUe, Identities, ToSet
  <1> QED BY <1>1, <1>2, <1>5

\* A step that goes on with the same message keeps the invariant when the contexts
\* stay of their UEs and the next step finds the buffers it needs.
LEMMA GoesOn ==
    ASSUME ParseInv, NEW label, Goto(label), label # "idle",
           label \in {"rrc", "asn1", "nas", "nasAsn1", "context", "update", "nasEnd",
                      "rrcEnd", "end"},
           pc # "idle", IdentitiesOfTheUe', rrc' \in Seq(RrcUeContexts), ready' \in Seq(Entries),
           live' \subseteq Buffers,
           label \in {"rrc", "end"} => live' = {"pData"},
           label \in {"asn1", "nas", "rrcEnd"} => live' = {"pData", "rrcMsg"},
           label \in {"nasAsn1", "nasEnd"} => live' = Buffers /\ msg.nas \in NasWithStruct,
           label \in {"context", "update"} =>
              live' = IF msg.nas \in NasWithStruct THEN Buffers ELSE {"pData", "rrcMsg"}
    PROVE  ParseInv'
  <1>1. pc' = label /\ msg' = msg /\ carried' = carried /\ rrcMessages' = rrcMessages
    BY DEF Goto
  <1>2. ParseTypeOK'
    BY <1>1 DEF ParseInv, ParseTypeOK
  <1>3. BuffersOfTheStep'
    BY <1>1 DEF BuffersOfTheStep
  <1> QED BY <1>1, <1>2, <1>3 DEF ParseInv

\* A return with no buffer but what a connection request may leave keeps the invariant.
LEMMA ReturnKeeps ==
    ASSUME RrcParseAssumption, ParseInv, Return, UNCHANGED rrcVars,
           live' \subseteq (IF CcchContextMayFail THEN {"pData"} ELSE {})
    PROVE  ParseInv'
  <1>1. pc' = "idle" /\ msg' = Nothing /\ carried' = carried /\ rrcMessages' = rrcMessages
    BY DEF Return
  <1>2. carried \in [Rntis -> SUBSET (Imsis \cup MTmsis)]
    BY DEF ParseInv, ParseTypeOK
  <1>3. IdentitiesOfTheUe' /\ rrc' \in Seq(RrcUeContexts) /\ ready' \in Seq(Entries)
    BY <1>1, <1>2, ContextsAlone
  <1>4. Nothing \in Messages
    <2>1. (CHOOSE r \in Rntis : TRUE) \in Rntis
      BY DEF RrcParseAssumption
    <2> QED BY <2>1 DEF Nothing, Messages
  <1>5. ParseTypeOK'
    <2>1. live' \subseteq Buffers
      BY DEF Buffers
    <2> QED BY <1>1, <1>3, <1>4, <2>1 DEF ParseInv, ParseTypeOK
  <1>6. BuffersOfTheStep'
    BY <1>1 DEF BuffersOfTheStep
  <1> QED BY <1>1, <1>3, <1>5, <1>6 DEF ParseInv

\* A step that changes nothing keeps the invariant.
LEMMA ParseStutter ==
    ASSUME ParseInv, UNCHANGED parseVars
    PROVE  ParseInv'
  <1> USE DEF parseVars
  <1>1. UNCHANGED rrcVars /\ carried' = carried
    OBVIOUS
  <1>2. IdentitiesOfTheUe' /\ rrc' \in Seq(RrcUeContexts) /\ ready' \in Seq(Entries)
    BY <1>1, ContextsAlone DEF ParseInv, ParseTypeOK
  <1>3. ParseTypeOK' /\ BuffersOfTheStep'
    BY <1>2 DEF ParseInv, ParseTypeOK, BuffersOfTheStep
  <1> QED BY <1>2, <1>3 DEF ParseInv

\* Every step of the parser keeps the invariant.
LEMMA ParseStep ==
    ASSUME RrcContextsAssumption, RrcParseAssumption, ParseInv, ParseNext
    PROVE  ParseInv'
  <1>1. /\ rrc \in Seq(RrcUeContexts) /\ ready \in Seq(Entries)
        /\ carried \in [Rntis -> SUBSET (Imsis \cup MTmsis)]
        /\ rrcMessages \in 0 .. MaxRrcMessages /\ MaxRrcMessages \in Nat
        /\ live \subseteq Buffers
    BY DEF ParseInv, ParseTypeOK, RrcParseAssumption
  <1>2. /\ msg.rnti \in Rntis /\ msg.id \in Imsis \cup MTmsis \cup {NoId}
        /\ msg.kind = "RRC_CON_REQ" => msg.nas = "none"
    BY MessageFacts
  <1>3. BuffersOfTheStep
    BY DEF ParseInv
  <1>4. ASSUME UNCHANGED rrcVars, carried' = carried
        PROVE  IdentitiesOfTheUe' /\ rrc' \in Seq(RrcUeContexts) /\ ready' \in Seq(Entries)
    BY <1>1, <1>4, ContextsAlone
  <1>5. ASSUME NEW m \in Messages, DataInd(m) PROVE ParseInv'
    <2>1. /\ pc' = "rrc" /\ msg' = m /\ pc = "idle" /\ UNCHANGED rrcVars
          /\ carried' = [carried EXCEPT ![m.rnti] = @ \cup ({m.id} \ {NoId})]
          /\ live' = live \cup {"pData"}
      BY <1>5 DEF DataInd
    <2>2. m.rnti \in Rntis /\ m.id \in Imsis \cup MTmsis \cup {NoId}
      BY DEF Messages, Ids
    <2>3. /\ carried' \in [Rntis -> SUBSET (Imsis \cup MTmsis)]
          /\ \A r \in Rntis : carried[r] \subseteq carried'[r]
          /\ m.id \in carried'[m.rnti] \cup {NoId}
      BY <1>1, <2>1, <2>2
    <2>4. IdentitiesOfTheUe' /\ rrc' \in Seq(RrcUeContexts) /\ ready' \in Seq(Entries)
      BY <2>1, <2>3, ContextsAlone
    <2>5. live' = {"pData"}
      BY <1>3, <2>1 DEF BuffersOfTheStep
    <2>6. rrcMessages' \in 0 .. MaxRrcMessages
      BY <1>1, <1>5 DEF DataInd
    <2>7. ParseTypeOK'
      BY <2>1, <2>3, <2>4, <2>5, <2>6 DEF ParseTypeOK, Buffers
    <2>8. BuffersOfTheStep'
      BY <2>1, <2>5 DEF BuffersOfTheStep
    <2> QED BY <2>1, <2>3, <2>4, <2>7, <2>8 DEF ParseInv
  <1>6. ASSUME AllocRrcStruct PROVE ParseInv'
    <2>1. /\ pc = "rrc" /\ live = {"pData"} /\ UNCHANGED rrcVars
          /\ \/ live' = live \cup {"rrcMsg"} /\ Goto("asn1")
             \/ live' = live /\ Goto("end")
      BY <1>3, <1>6 DEF AllocRrcStruct, Allocates, BuffersOfTheStep
    <2>2. carried' = carried
      BY <2>1 DEF Goto
    <2> QED BY <1>4, <2>1, <2>2, GoesOn DEF Buffers
  <1>7. ASSUME ParseRrc PROVE ParseInv'
    <2>1. /\ pc = "asn1" /\ live' = {"pData", "rrcMsg"} /\ UNCHANGED rrcVars
          /\ \/ Goto("rrcEnd") \/ Goto("nas")
             \/ msg.nas = "none" /\ Goto("context")
      BY <1>2, <1>3, <1>7 DEF ParseRrc, BuffersOfTheStep
    <2>2. carried' = carried
      BY <2>1 DEF Goto
    <2> QED BY <1>4, <2>1, <2>2, GoesOn DEF Buffers, NasWithStruct
  <1>8. ASSUME RrcParseNasMsg PROVE ParseInv'
    <2>1. /\ pc = "nas" /\ live = {"pData", "rrcMsg"} /\ UNCHANGED rrcVars
          /\ \/ live' = live /\ Goto("rrcEnd")
             \/ msg.nas \in NasWithStruct /\ live' = live \cup {"nasMsg"} /\ Goto("nasAsn1")
             \/ msg.nas = "SERVICE_REQUEST" /\ live' = live /\ Goto("context")
      BY <1>3, <1>8 DEF RrcParseNasMsg, Allocates, BuffersOfTheStep
    <2>2. carried' = carried
      BY <2>1 DEF Goto
    <2> QED BY <1>4, <2>1, <2>2, GoesOn DEF Buffers, NasWithStruct
  <1>9. ASSUME NEW nas, NEW accepted, Unpack(nas, accepted) PROVE ParseInv'
    <2>1. /\ pc = "nasAsn1" /\ live' = Buffers /\ msg.nas \in NasWithStruct /\ UNCHANGED rrcVars
          /\ \/ Goto("nasEnd") \/ Goto("context")
      BY <1>3, <1>9 DEF Unpack, BuffersOfTheStep
    <2>2. carried' = carried
      BY <2>1 DEF Goto
    <2> QED BY <1>4, <2>1, <2>2, GoesOn
  <1>10. ASSUME FindContext PROVE ParseInv'
    <2>1. /\ pc = "context" /\ live' = live /\ rrc' = WithContext(msg.rnti) /\ ready' = ready
          /\ live = IF msg.nas \in NasWithStruct THEN Buffers ELSE {"pData", "rrcMsg"}
          /\ Goto(AfterContext) \/ Goto("update")
      BY <1>3, <1>10 DEF FindContext, MakeContext, BuffersOfTheStep
    <2>2. carried' = carried
      BY <2>1 DEF Goto
    <2>3. /\ rrc' \in Seq(RrcUeContexts) /\ ready' \in Seq(Entries)
          /\ ToSet(rrc') \subseteq ToSet(rrc) \cup {NewContext(msg.rnti)}
      BY <1>1, <1>2, <2>1, WithContextFacts
    <2>4. Identities(NewContext(msg.rnti)) = {}
      BY <1>2, NewContextIsEmpty
    <2>5. \A c \in ToSet(rrc') \cup ToSet(ready') : Identities(c) \subseteq carried[c.rnti]
      BY <2>1, <2>3, <2>4 DEF ParseInv, IdentitiesOfTheUe
    <2>6. IdentitiesOfTheUe'
      BY <2>2, <2>5 DEF IdentitiesOfTheUe, Identities, ToSet
    <2> QED BY <1>1, <2>1, <2>3, <2>6, GoesOn DEF AfterContext, Buffers
  <1>11. ASSUME NoContext PROVE ParseInv'
    <2>1. /\ pc = "context" /\ UNCHANGED rrcVars
          /\ live = IF msg.nas \in NasWithStruct THEN Buffers ELSE {"pData", "rrcMsg"}
      BY <1>3, <1>11 DEF NoContext, BuffersOfTheStep
    <2>2. CASE Goto(AfterContext) /\ UNCHANGED live
      <3>1. carried' = carried
        BY <2>2 DEF Goto
      <3> QED BY <1>1, <1>4, <2>1, <2>2, <3>1, GoesOn DEF AfterContext, Buffers
    <2>3. CASE msg.kind = "RRC_CON_REQ" /\ CcchContextMayFail /\ Frees("rrcMsg") /\ Return
      <3>1. live' = {"pData"}
        BY <1>2, <2>1, <2>3 DEF Frees, NasWithStruct
      <3> QED BY <2>1, <2>3, <3>1, ReturnKeeps
    <2> QED BY <1>11, <2>2, <2>3 DEF NoContext
  <1>12. ASSUME UpdateIdentity PROVE ParseInv'
    <2>1. /\ pc = "update" /\ live' = live /\ Goto(AfterContext)
          /\ live = IF msg.nas \in NasWithStruct THEN Buffers ELSE {"pData", "rrcMsg"}
          /\ msg.id # NoId
          /\ Stored(msg.rnti, msg.id)
      <3>1. Stored(msg.rnti, msg.id) /\ msg.id \in Imsis \cup MTmsis
        BY <1>1, <1>2, <1>12, ImsiIsStored, MTmsiIsStored DEF UpdateIdentity
      <3> QED BY <1>3, <1>12, <3>1 DEF UpdateIdentity, BuffersOfTheStep, RrcContextsAssumption
    <2>2. carried' = carried
      BY <2>1 DEF Goto
    <2>3. msg.id \in carried[msg.rnti]
      BY <2>1 DEF ParseInv
    <2>4. ASSUME NEW c \in ToSet(rrc') \cup ToSet(ready'), NEW x \in Identities(c)
          PROVE  x \in carried[c.rnti]
      <3>1. CASE x = msg.id /\ c.rnti = msg.rnti
        BY <2>3, <3>1
      <3>2. CASE \E d \in ToSet(rrc) \cup ToSet(ready) : d.rnti = c.rnti /\ x \in Identities(d)
        BY <3>2 DEF ParseInv, IdentitiesOfTheUe
      <3> QED BY <2>1, <2>4, <3>1, <3>2 DEF Stored
    <2>5. IdentitiesOfTheUe'
      <3>1. \A c \in ToSet(rrc') \cup ToSet(ready') : Identities(c) \subseteq carried'[c.rnti]
        BY <2>2, <2>4
      <3> QED BY <3>1 DEF IdentitiesOfTheUe, Identities, ToSet
    <2>6. rrc' \in Seq(RrcUeContexts) /\ ready' \in Seq(Entries)
      BY <2>1 DEF Stored
    <2> QED BY <1>1, <2>1, <2>5, <2>6, GoesOn DEF AfterContext, Buffers
  <1>13. ASSUME FreeNasStruct PROVE ParseInv'
    <2>1. /\ pc = "nasEnd" /\ live' = {"pData", "rrcMsg"} /\ UNCHANGED rrcVars /\ Goto("rrcEnd")
      BY <1>3, <1>13 DEF FreeNasStruct, Frees, BuffersOfTheStep, Buffers
    <2>2. carried' = carried
      BY <2>1 DEF Goto
    <2> QED BY <1>4, <2>1, <2>2, GoesOn DEF Buffers
  <1>14. ASSUME FreeRrcStruct PROVE ParseInv'
    <2>1. /\ pc = "rrcEnd" /\ live' = {"pData"} /\ UNCHANGED rrcVars /\ Goto("end")
      BY <1>3, <1>14 DEF FreeRrcStruct, Frees, BuffersOfTheStep
    <2>2. carried' = carried
      BY <2>1 DEF Goto
    <2> QED BY <1>4, <2>1, <2>2, GoesOn DEF Buffers
  <1>15. ASSUME FreeData PROVE ParseInv'
    <2>1. /\ live' = {} /\ UNCHANGED rrcVars /\ Return
      BY <1>3, <1>15 DEF FreeData, Frees, BuffersOfTheStep
    <2> QED BY <2>1, ReturnKeeps
  <1>16. ASSUME UNCHANGED parseVars PROVE ParseInv'
    BY <1>16, ParseStutter
  <1> QED BY <1>5, <1>6, <1>7, <1>8, <1>9, <1>10, <1>11, <1>12, <1>13, <1>14, <1>15, <1>16
          DEF ParseNext, RrcDecodeIdentityResponse, RrcDecodeAttachReq, RrcDecodeDetachReq,
              RrcDecodeExtServiceReq, RrcDecodeTauReq, Done

\* The invariants of RrcParse and the buffers of each step hold in every behaviour.
THEOREM ParseInvariant == ParseSpec => []ParseInv
  <1>1. ParseInit => ParseInv
    <2> SUFFICES ASSUME ParseInit PROVE ParseInv
      OBVIOUS
    <2>1. (CHOOSE r \in Rntis : TRUE) \in Rntis
      BY RrcParseAssumption DEF RrcParseAssumption
    <2>2. Nothing \in Messages
      BY <2>1 DEF Nothing, Messages
    <2>3. /\ rrc = <<>> /\ ready = <<>> /\ pc = "idle" /\ msg = Nothing /\ live = {}
          /\ carried = [r \in Rntis |-> {}] /\ rrcMessages = 0
      BY DEF ParseInit, RrcInit
    <2>4. /\ \A S : <<>> \in Seq(S)
          /\ ToSet(<<>>) = {}
          /\ 0 \in 0 .. MaxRrcMessages
      BY RrcParseAssumption DEF RrcParseAssumption, ToSet
    <2>5. ParseTypeOK
      BY <2>2, <2>3, <2>4 DEF ParseTypeOK
    <2>6. BuffersOfTheStep
      BY <2>3 DEF BuffersOfTheStep
    <2>7. IdentitiesOfTheUe
      BY <2>3, <2>4 DEF IdentitiesOfTheUe
    <2> QED BY <2>3, <2>5, <2>6, <2>7 DEF ParseInv
  <1>2. ParseInv /\ [ParseNext]_parseVars => ParseInv'
    <2> SUFFICES ASSUME ParseInv, [ParseNext]_parseVars PROVE ParseInv'
      OBVIOUS
    <2>1. CASE ParseNext
      BY <2>1, ParseStep, RrcContextsAssumption, RrcParseAssumption
    <2>2. CASE UNCHANGED parseVars
      BY <2>2, ParseStutter
    <2> QED BY <2>1, <2>2
  <1> QED BY <1>1, <1>2, PTL DEF ParseSpec

\* Whichever decoder refuses a message and whichever allocation fails, the three
\* buffers are there as long as they are used and freed on every way out, but for the
\* message of a connection request without a block for its context
\* (RrcParseUlDcchMsg, RrcParseUlCcchMsg, RrcParseNasMsg and what they call).
THEOREM BuffersAreFreed == ParseSpec => []BuffersLiveAsLongAsUsed
  <1>1. ParseInv => BuffersLiveAsLongAsUsed
    <2> SUFFICES ASSUME ParseInv PROVE BuffersLiveAsLongAsUsed
      OBVIOUS
    <2>1. ParseTypeOK /\ BuffersOfTheStep
      BY DEF ParseInv
    <2>2. pc \in {"idle", "rrc", "asn1", "nas", "nasAsn1", "context", "update", "nasEnd",
                  "rrcEnd", "end"}
      BY <2>1 DEF ParseTypeOK
    <2> QED BY <2>1, <2>2 DEF BuffersLiveAsLongAsUsed, BuffersOfTheStep, Buffers
  <1> QED BY <1>1, ParseInvariant, PTL

\* A context and what is kept of it hold only identities from messages of their own UE.
THEOREM IdentitiesStayOfTheirUe == ParseSpec => []IdentitiesOfTheUe
  BY ParseInvariant, PTL DEF ParseInv

=============================================================================
