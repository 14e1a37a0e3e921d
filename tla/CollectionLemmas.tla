-------------------------- MODULE CollectionLemmas --------------------------
(***************************************************************************)
(* Lemmas about the operators by which the lists and counters of the       *)
(* program are modelled: appending, removing an element from the middle,   *)
(* the least and the greatest of some numbers, remainders, and what comes  *)
(* of joining the sequences of a sequence.  The proofs about the           *)
(* components cite them.                                                   *)
(***************************************************************************)
EXTENDS Integers, Sequences, FiniteSets, SequencesExt,
        SequenceTheorems, FiniteSetTheorems, TLAPS

\* Appending an element that is not there keeps a list free of repetitions and
\* adds exactly this element (ListPushNode).
LEMMA AppendNew ==
    ASSUME NEW S, NEW s \in Seq(S), IsInjective(s), NEW c \in S, c \notin ToSet(s)
    PROVE  /\ Append(s, c) \in Seq(S)
           /\ IsInjective(Append(s, c))
           /\ ToSet(Append(s, c)) = ToSet(s) \cup {c}
  <1>1. /\ Append(s, c) \in Seq(S)
        /\ DOMAIN s = 1 .. Len(s)
        /\ DOMAIN Append(s, c) = 1 .. Len(s) + 1
        /\ \A i \in 1 .. Len(s) : Append(s, c)[i] = s[i]
        /\ Append(s, c)[Len(s) + 1] = c
        /\ Len(s) \in Nat
    BY AppendProperties, LenProperties
  <1>2. \A i \in 1 .. Len(s) + 1 : i \in 1 .. Len(s) \/ i = Len(s) + 1
    BY <1>1
  <1>3. \A i \in 1 .. Len(s) : s[i] # c
    BY <1>1 DEF ToSet
  <1>4. IsInjective(Append(s, c))
    BY <1>1, <1>2, <1>3 DEF IsInjective
  <1>5. ToSet(Append(s, c)) = ToSet(s) \cup {c}
    BY <1>1, <1>2 DEF ToSet
  <1> QED BY <1>1, <1>4, <1>5

\* Removing by position moves the elements behind it one place to the front and
\* changes nothing else.
LEMMA RemoveAtProperties ==
    ASSUME NEW S, NEW s \in Seq(S), NEW k \in 1 .. Len(s)
    PROVE  /\ RemoveAt(s, k) \in Seq(S)
           /\ Len(RemoveAt(s, k)) = Len(s) - 1
           /\ \A i \in 1 .. k - 1 : RemoveAt(s, k)[i] = s[i]
           /\ \A i \in k .. Len(s) - 1 : RemoveAt(s, k)[i] = s[i + 1]
  <1> DEFINE l == SubSeq(s, 1, k - 1)
             r == SubSeq(s, k + 1, Len(s))
  <1>1. l \in Seq(S) /\ Len(l) = k - 1 /\ \A i \in 1 .. k - 1 : l[i] = s[i]
    OBVIOUS
  <1>2. /\ r \in Seq(S)
        /\ Len(r) = Len(s) - k
        /\ \A i \in 1 .. Len(s) - k : r[i] = s[k + i]
    OBVIOUS
  <1>3. RemoveAt(s, k) = l \o r
    BY DEF RemoveAt
  <1>4. k \in Nat /\ Len(s) \in Nat
    OBVIOUS
  <1> HIDE DEF l, r
  <1>5. /\ l \o r \in Seq(S)
        /\ Len(l \o r) = Len(l) + Len(r)
        /\ \A i \in 1 .. Len(l) : (l \o r)[i] = l[i]
        /\ \A i \in 1 .. Len(r) : (l \o r)[Len(l) + i] = r[i]
    <2>1. l \o r \in Seq(S) /\ Len(l \o r) = Len(l) + Len(r)
      BY <1>1, <1>2, ConcatProperties, Zenon
    <2>2. \A i \in 1 .. Len(l) + Len(r) :
             (l \o r)[i] = IF i <= Len(l) THEN l[i] ELSE r[i - Len(l)]
      BY <1>1, <1>2, ConcatProperties, Zenon
    <2>3. Len(l) \in Nat /\ Len(r) \in Nat
      BY <1>1, <1>2, <1>4
    <2>4. \A i \in 1 .. Len(l) : (l \o r)[i] = l[i]
      BY <2>2, <2>3
    <2>5. ASSUME NEW i \in 1 .. Len(r)
          PROVE  (l \o r)[Len(l) + i] = r[i]
      <3>1. Len(l) + i \in 1 .. Len(l) + Len(r) /\ ~(Len(l) + i <= Len(l)) /\ (Len(l) + i) - Len(l) = i
        BY <2>3
      <3> QED BY <3>1, <2>2
    <2> QED BY <2>1, <2>4, <2>5
  <1>6. ASSUME NEW i \in k .. Len(s) - 1
        PROVE  (l \o r)[i] = s[i + 1]
    <2>1. (i - k) + 1 \in 1 .. Len(r) /\ Len(l) + ((i - k) + 1) = i /\ k + ((i - k) + 1) = i + 1
      BY <1>1, <1>2, <1>4
    <2>2. (l \o r)[i] = r[(i - k) + 1]
      BY <2>1, <1>5
    <2>3. r[(i - k) + 1] = s[i + 1]
      BY <2>1, <1>2
    <2> QED BY <2>2, <2>3
  <1> QED BY <1>1, <1>2, <1>3, <1>4, <1>5, <1>6

\* Removing the one occurrence of an element keeps a list free of repetitions
\* and takes out exactly this element (ListDeleteNode).
LEMMA RemoveFirstUnique ==
    ASSUME NEW S, NEW s \in Seq(S), IsInjective(s), NEW c \in ToSet(s)
    PROVE  /\ RemoveFirst(s, c) \in Seq(S)
           /\ IsInjective(RemoveFirst(s, c))
           /\ ToSet(RemoveFirst(s, c)) = ToSet(s) \ {c}
  <1> DEFINE n == Len(s)
  <1>1. n \in Nat /\ DOMAIN s = 1 .. n /\ \A i \in 1 .. n : s[i] \in S
    BY LenProperties, ElementOfSeq
  <1>2. PICK k \in 1 .. n : s[k] = c
    BY <1>1 DEF ToSet
  <1>3. {i \in 1 .. n : s[i] = c} = {k}
    BY <1>1, <1>2 DEF IsInjective
  <1> DEFINE t == RemoveAt(s, k)
  <1>4. RemoveFirst(s, c) = t
    <2>1. Min({k}) = k
      BY <1>2 DEF Min
    <2> QED BY <1>2, <1>3, <2>1 DEF RemoveFirst, SelectInSeq
  <1>5. /\ t \in Seq(S)
        /\ Len(t) = n - 1
        /\ \A i \in 1 .. k - 1 : t[i] = s[i]
        /\ \A i \in k .. n - 1 : t[i] = s[i + 1]
    BY RemoveAtProperties
  <1> HIDE DEF t
  <1>6. DOMAIN t = 1 .. n - 1
    BY <1>5, LenProperties
  <1> DEFINE from(i) == IF i < k THEN i ELSE i + 1
  <1>7. ASSUME NEW i \in 1 .. n - 1
        PROVE  from(i) \in 1 .. n /\ from(i) # k /\ t[i] = s[from(i)]
    <2>1. CASE i < k
      BY <2>1, <1>1, <1>5
    <2>2. CASE ~(i < k)
      <3>1. i \in k .. n - 1
        BY <2>2, <1>1
      <3> QED BY <2>2, <3>1, <1>1, <1>5
    <2> QED BY <2>1, <2>2
  <1>8. IsInjective(t)
    <2> SUFFICES ASSUME NEW i \in 1 .. n - 1, NEW j \in 1 .. n - 1, t[i] = t[j]
                 PROVE  i = j
      BY <1>6 DEF IsInjective
    <2>1. from(i) = from(j)
      <3> HIDE DEF from
      <3> QED BY <1>1, <1>7 DEF IsInjective
    <2> QED BY <2>1, <1>1
  <1>9. ToSet(t) = ToSet(s) \ {c}
    <2>1. ASSUME NEW i \in 1 .. n - 1
          PROVE  t[i] \in ToSet(s) \ {c}
      <3> HIDE DEF from
      <3> QED BY <1>1, <1>2, <1>7 DEF ToSet, IsInjective
    <2>2. ASSUME NEW j \in 1 .. n, j # k
          PROVE  \E i \in 1 .. n - 1 : t[i] = s[j]
      <3>1. CASE j < k
        BY <3>1, <1>1, <1>5
      <3>2. CASE j > k
        <4>1. j - 1 \in k .. n - 1 /\ j - 1 \in 1 .. n - 1 /\ (j - 1) + 1 = j
          BY <3>2, <1>1
        <4> QED BY <4>1, <1>5
      <3> QED BY <2>2, <3>1, <3>2, <1>1
    <2>3. \A x \in ToSet(s) \ {c} : \E j \in 1 .. n : j # k /\ s[j] = x
      BY <1>1, <1>2 DEF ToSet
    <2>4. \A x \in ToSet(t) : x \in ToSet(s) \ {c}
      BY <2>1, <1>6 DEF ToSet
    <2>5. \A x \in ToSet(s) \ {c} : x \in ToSet(t)
      BY <2>2, <2>3, <1>6 DEF ToSet
    <2> QED BY <2>4, <2>5
  <1> QED BY <1>4, <1>5, <1>8, <1>9

-----------------------------------------------------------------------------
\* Appending adds one element to the elements of a list.
LEMMA ToSetOfAppend ==
    ASSUME NEW S, NEW s \in Seq(S), NEW c \in S
    PROVE  /\ Append(s, c) \in Seq(S)
           /\ Len(Append(s, c)) = Len(s) + 1
           /\ ToSet(Append(s, c)) = ToSet(s) \cup {c}
  <1>1. /\ Append(s, c) \in Seq(S)
        /\ Len(Append(s, c)) = Len(s) + 1
        /\ DOMAIN s = 1 .. Len(s)
        /\ DOMAIN Append(s, c) = 1 .. Len(s) + 1
        /\ \A i \in 1 .. Len(s) : Append(s, c)[i] = s[i]
        /\ Append(s, c)[Len(s) + 1] = c
        /\ Len(s) \in Nat
    BY AppendProperties, LenProperties
  <1>2. \A i \in 1 .. Len(s) + 1 : i \in 1 .. Len(s) \/ i = Len(s) + 1
    BY <1>1
  <1> QED BY <1>1, <1>2 DEF ToSet

\* Removing by position takes at most the element of this position out of a list.
LEMMA ToSetOfRemoveAt ==
    ASSUME NEW S, NEW s \in Seq(S), NEW k \in 1 .. Len(s)
    PROVE  /\ ToSet(RemoveAt(s, k)) \subseteq ToSet(s)
           /\ ToSet(s) \subseteq ToSet(RemoveAt(s, k)) \cup {s[k]}
  <1> DEFINE t == RemoveAt(s, k)
  <1>1. /\ t \in Seq(S) /\ Len(t) = Len(s) - 1
        /\ \A i \in 1 .. k - 1 : t[i] = s[i]
        /\ \A i \in k .. Len(s) - 1 : t[i] = s[i + 1]
    BY RemoveAtProperties
  <1> HIDE DEF t
  <1>2. DOMAIN t = 1 .. Len(s) - 1 /\ DOMAIN s = 1 .. Len(s) /\ Len(s) \in Nat
    BY <1>1, LenProperties
  <1>3. ASSUME NEW i \in 1 .. Len(s) - 1
        PROVE  \E j \in 1 .. Len(s) : t[i] = s[j]
    <2>1. i \in 1 .. k - 1 \/ (i \in k .. Len(s) - 1 /\ i + 1 \in 1 .. Len(s))
      BY <1>2
    <2>2. i \in 1 .. Len(s)
      BY <1>2
    <2> QED BY <2>1, <2>2, <1>1
  <1>4. ASSUME NEW j \in 1 .. Len(s), j # k
        PROVE  \E i \in 1 .. Len(s) - 1 : t[i] = s[j]
    <2>1. CASE j < k
      <3>1. j \in 1 .. k - 1 /\ j \in 1 .. Len(s) - 1
        BY <2>1, <1>2
      <3> QED BY <3>1, <1>1
    <2>2. CASE j > k
      <3>1. j - 1 \in k .. Len(s) - 1 /\ j - 1 \in 1 .. Len(s) - 1 /\ (j - 1) + 1 = j
        BY <2>2, <1>2
      <3> QED BY <3>1, <1>1
    <2> QED BY <1>4, <2>1, <2>2
  <1>5. \A x \in ToSet(t) : x \in ToSet(s)
    BY <1>2, <1>3 DEF ToSet
  <1>6. \A x \in ToSet(s) : x \in ToSet(t) \cup {s[k]}
    BY <1>2, <1>4 DEF ToSet
  <1> QED BY <1>5, <1>6 DEF t

\* Popping takes at most the head out of a list (ListPopNode).
LEMMA ToSetOfTail ==
    ASSUME NEW S, NEW s \in Seq(S), Len(s) > 0
    PROVE  /\ Head(s) \in S /\ Head(s) \in ToSet(s)
           /\ Tail(s) \in Seq(S) /\ Len(Tail(s)) = Len(s) - 1
           /\ ToSet(s) = ToSet(Tail(s)) \cup {Head(s)}
  <1>1. /\ Tail(s) \in Seq(S) /\ Len(Tail(s)) = Len(s) - 1 /\ Len(s) \in Nat
        /\ Head(s) = s[1] /\ s[1] \in S
        /\ \A i \in 1 .. Len(s) - 1 : Tail(s)[i] = s[i + 1]
    OBVIOUS
  <1>2. DOMAIN s = 1 .. Len(s) /\ DOMAIN Tail(s) = 1 .. Len(s) - 1
    BY <1>1, LenProperties
  <1>3. ASSUME NEW i \in 1 .. Len(s) - 1
        PROVE  i + 1 \in 1 .. Len(s) /\ Tail(s)[i] = s[i + 1]
    BY <1>1
  <1>4. ASSUME NEW j \in 1 .. Len(s), j # 1
        PROVE  \E i \in 1 .. Len(s) - 1 : Tail(s)[i] = s[j]
    <2>1. j - 1 \in 1 .. Len(s) - 1 /\ (j - 1) + 1 = j
      BY <1>1, <1>4
    <2> QED BY <2>1, <1>1
  <1>5. 1 \in 1 .. Len(s)
    BY <1>1
  <1>6. Head(s) \in ToSet(s)
    BY <1>1, <1>2, <1>5 DEF ToSet
  <1>7. \A x \in ToSet(Tail(s)) : x \in ToSet(s)
    BY <1>2, <1>3 DEF ToSet
  <1>8. ASSUME NEW x \in ToSet(s), x # Head(s)
        PROVE  x \in ToSet(Tail(s))
    <2>1. PICK j \in 1 .. Len(s) : s[j] = x
      BY <1>2 DEF ToSet
    <2>2. j # 1
      BY <2>1, <1>1, <1>8
    <2>3. PICK i \in 1 .. Len(s) - 1 : Tail(s)[i] = x
      BY <2>1, <2>2, <1>4
    <2> QED BY <2>3, <1>2 DEF ToSet
  <1> QED BY <1>1, <1>6, <1>7, <1>8

\* Putting an element in front adds it to the elements of a list (ListPushNodeHead).
LEMMA ToSetOfCons ==
    ASSUME NEW S, NEW s \in Seq(S), NEW c \in S
    PROVE  /\ <<c>> \o s \in Seq(S)
           /\ Len(<<c>> \o s) = Len(s) + 1
           /\ ToSet(<<c>> \o s) = ToSet(s) \cup {c}
           /\ (<<c>> \o s)[1] = c
           /\ \A i \in 1 .. Len(s) : (<<c>> \o s)[i + 1] = s[i]
  <1> DEFINE h == <<c>>
             t == h \o s
  <1>1. h \in Seq(S) /\ Len(h) = 1 /\ h[1] = c /\ Len(s) \in Nat
    OBVIOUS
  <1> HIDE DEF h
  <1>2. /\ t \in Seq(S) /\ Len(t) = Len(h) + Len(s)
        /\ \A i \in 1 .. Len(h) + Len(s) : t[i] = IF i <= Len(h) THEN h[i] ELSE s[i - Len(h)]
    BY <1>1, ConcatProperties, Zenon
  <1> HIDE DEF t
  <1>3. t[1] = c
    BY <1>1, <1>2
  <1>4. ASSUME NEW i \in 1 .. Len(s) PROVE t[i + 1] = s[i]
    <2>1. i + 1 \in 1 .. Len(h) + Len(s) /\ ~(i + 1 <= Len(h)) /\ (i + 1) - Len(h) = i
      BY <1>1
    <2> QED BY <1>2, <2>1
  <1>5. DOMAIN t = 1 .. Len(s) + 1 /\ DOMAIN s = 1 .. Len(s)
    BY <1>1, <1>2, LenProperties
  <1>6. ASSUME NEW j \in 1 .. Len(s) + 1, j # 1
        PROVE  j - 1 \in 1 .. Len(s) /\ t[j] = s[j - 1]
    <2>1. j - 1 \in 1 .. Len(s) /\ (j - 1) + 1 = j
      BY <1>1, <1>6
    <2> QED BY <1>4, <2>1
  <1>7. \A x \in ToSet(t) : x \in ToSet(s) \cup {c}
    BY <1>3, <1>5, <1>6 DEF ToSet
  <1>8. \A x \in ToSet(s) \cup {c} : x \in ToSet(t)
    <2>1. 1 \in 1 .. Len(s) + 1 /\ \A i \in 1 .. Len(s) : i + 1 \in 1 .. Len(s) + 1
      BY <1>1
    <2> QED BY <1>3, <1>4, <1>5, <2>1 DEF ToSet
  <1> QED BY <1>1, <1>2, <1>3, <1>4, <1>7, <1>8 DEF h, t

\* A finite set as a sequence has the members of the set, each once.
LEMMA SetToSeqFacts ==
    ASSUME NEW S, IsFiniteSet(S)
    PROVE  /\ SetToSeq(S) \in Seq(S)
           /\ Len(SetToSeq(S)) = Cardinality(S)
           /\ ToSet(SetToSeq(S)) = S
  <1> DEFINE n == Cardinality(S)
             f == SetToSeq(S)
  <1>1. n \in Nat /\ ExistsBijection(1 .. n, S)
    BY FS_CardinalityType
  <1>2. \E g \in [1 .. n -> S] : IsInjective(g)
    BY <1>1 DEF ExistsBijection, Bijection, Injection
  <1>3. f \in [1 .. n -> S] /\ IsInjective(f)
    BY <1>2 DEF SetToSeq
  <1>4. Cardinality(1 .. n) = n /\ f \in Injection(1 .. n, S)
    <2>1. Cardinality(1 .. n) = IF 1 > n THEN 0 ELSE n - 1 + 1
      BY <1>1, FS_Interval
    <2> QED BY <1>1, <1>3, <2>1 DEF Injection
  <1>5. f \in Surjection(1 .. n, S)
    BY <1>4, FS_Injection
  <1> HIDE DEF f
  <1>6. f \in Seq(S) /\ Len(f) = n /\ DOMAIN f = 1 .. n
    BY <1>1, <1>3, LenProperties
  <1>7. ToSet(f) = S
    BY <1>3, <1>5, <1>6 DEF ToSet, Surjection
  <1> QED BY <1>6, <1>7 DEF f, n

\* Overwriting one place of a list puts the new element in and takes at most the
\* old one out.
LEMMA ToSetOfExcept ==
    ASSUME NEW S, NEW s \in Seq(S), NEW k \in 1 .. Len(s), NEW c \in S
    PROVE  /\ [s EXCEPT ![k] = c] \in Seq(S)
           /\ Len([s EXCEPT ![k] = c]) = Len(s)
           /\ \A i \in 1 .. Len(s) : [s EXCEPT ![k] = c][i] = IF i = k THEN c ELSE s[i]
           /\ ToSet([s EXCEPT ![k] = c]) \subseteq ToSet(s) \cup {c}
           /\ ToSet(s) \cup {c} \subseteq ToSet([s EXCEPT ![k] = c]) \cup {s[k]}
           /\ c \in ToSet([s EXCEPT ![k] = c])
  <1> DEFINE t == [s EXCEPT ![k] = c]
  <1>1. /\ t \in Seq(S) /\ Len(t) = Len(s)
        /\ \A i \in 1 .. Len(s) : t[i] = IF i = k THEN c ELSE s[i]
    BY ExceptSeq
  <1>2. DOMAIN s = 1 .. Len(s) /\ DOMAIN t = 1 .. Len(s)
    BY <1>1, LenProperties
  <1> HIDE DEF t
  <1>3. /\ \A x \in ToSet(t) : x \in ToSet(s) \cup {c}
        /\ \A x \in ToSet(s) : x \in ToSet(t) \cup {s[k]}
        /\ c \in ToSet(t)
    BY <1>1, <1>2 DEF ToSet
  <1> QED BY <1>1, <1>3 DEF t

-----------------------------------------------------------------------------
\* Some natural numbers have a least one.
LEMMA MinOfNats ==
    ASSUME NEW S \in SUBSET Nat, S # {}
    PROVE  Min(S) \in S /\ \A y \in S : Min(S) <= y
  <1>1. PICK x \in S : \A y \in S : <<y, x>> \notin OpToRel(<, Nat)
    BY NatLessThanWellFounded, WFMin
  <1>2. \A y \in S : x <= y
    <2>1. OpToRel(<, Nat) = {ss \in Nat \X Nat : ss[1] < ss[2]}
      BY Zenon DEF OpToRel
    <2>2. ASSUME NEW y \in S, y < x
          PROVE  <<y, x>> \in {ss \in Nat \X Nat : ss[1] < ss[2]}
      BY <2>2
    <2>3. \A y \in S : ~(y < x)
      BY <1>1, <2>1, <2>2, Zenon
    <2> QED BY <2>3
  <1> QED BY <1>1, <1>2 DEF Min

\* The bound of a counter is taken as the least of two.
LEMMA MinOfTwo ==
    ASSUME NEW a \in Int, NEW b \in Int
    PROVE  Min({a, b}) = IF a <= b THEN a ELSE b
  <1>1. \E x \in {a, b} : \A y \in {a, b} : x <= y
    OBVIOUS
  <1>2. Min({a, b}) \in {a, b} /\ \A y \in {a, b} : Min({a, b}) <= y
    BY <1>1 DEF Min
  <1> QED BY <1>2

\* The least of some natural numbers, as Min names it.
LEMMA MinIsIn ==
    ASSUME NEW S \in SUBSET Nat, S # {}
    PROVE  Min(S) \in S /\ \A x \in S : Min(S) <= x
  BY MinOfNats DEF Min

\* The greatest of some numbers up to n.
LEMMA MaxIsIn ==
    ASSUME NEW n \in Nat, NEW S \in SUBSET (1 .. n), S # {}
    PROVE  Max(S) \in S /\ \A x \in S : x <= Max(S)
  <1> DEFINE T == {y \in Nat : n - y \in S}
  <1>1. T \in SUBSET Nat /\ T # {}
    <2>1. PICK x \in S : TRUE
      OBVIOUS
    <2>2. n - x \in Nat /\ n - (n - x) = x
      OBVIOUS
    <2> QED BY <2>1, <2>2
  <1>2. PICK m \in T : \A y \in T : m <= y
    BY <1>1, MinOfNats
  <1>3. PICK x \in S : m = n - x
    <2>1. n - m \in S /\ m \in Nat
      BY <1>2
    <2>2. m = n - (n - m)
      BY <2>1
    <2> QED BY <2>1, <2>2
  <1>4. \A y \in S : y <= x
    <2> SUFFICES ASSUME NEW y \in S PROVE y <= x
      OBVIOUS
    <2>1. x \in 1 .. n /\ y \in 1 .. n
      OBVIOUS
    <2>2. n - y \in Nat /\ n - (n - y) = y
      BY <2>1
    <2>3. n - y \in T
      BY <2>2
    <2>4. n - x <= n - y
      BY <1>2, <1>3, <2>3
    <2> QED BY <2>1, <2>4
  <1> QED BY <1>4 DEF Max

-----------------------------------------------------------------------------
\* A natural number is a multiple of m and a remainder below m.
LEMMA Division ==
    ASSUME NEW m \in Nat \ {0}, NEW n \in Nat
    PROVE  /\ n % m \in 0 .. m - 1
           /\ n \div m \in Int
           /\ n = m * (n \div m) + (n % m)
  OBVIOUS

-----------------------------------------------------------------------------
(***************************************************************************)
(* The concatenation of a sequence of sequences (FlattenSeq).              *)
(***************************************************************************)
\* A function on 1 .. n into a set is a sequence over it.
LEMMA FunctionIsSeq ==
    ASSUME NEW n \in Nat, NEW S, NEW f \in [1 .. n -> S]
    PROVE  f \in Seq(S) /\ Len(f) = n
  <1>1. f \in Seq(S)
    OBVIOUS
  <1> QED BY <1>1, LenProperties

\* Concatenation and appending, for sequences of numbers.
LEMMA ConcatFacts ==
    /\ \A a, b \in Seq(Nat) : a \o b \in Seq(Nat)
    /\ \A a, b, c \in Seq(Nat) : (a \o b) \o c = a \o (b \o c)
    /\ \A a \in Seq(Nat) : a \o <<>> = a /\ <<>> \o a = a
    /\ \A a \in Seq(Nat), x \in Nat :
          /\ Append(a, x) = a \o <<x>>
          /\ <<x>> \in Seq(Nat) /\ Append(a, x) \in Seq(Nat)
  <1>1. \A a, b \in Seq(Nat) : a \o b \in Seq(Nat)
    BY ConcatProperties
  <1>2. ASSUME NEW a \in Seq(Nat), NEW b \in Seq(Nat), NEW c \in Seq(Nat)
        PROVE  (a \o b) \o c = a \o (b \o c)
    BY ONLY a \in Seq(Nat), b \in Seq(Nat), c \in Seq(Nat), ConcatAssociative, SMTT(30)
  <1>3. \A a \in Seq(Nat) : a \o <<>> = a /\ <<>> \o a = a
    BY ConcatEmptySeq
  <1>4. \A a \in Seq(Nat), x \in Nat : Append(a, x) = a \o <<x>>
    BY AppendIsConcat
  <1>5. \A a \in Seq(Nat), x \in Nat : <<x>> \in Seq(Nat) /\ Append(a, x) \in Seq(Nat)
    OBVIOUS
  <1> QED BY <1>1, <1>2, <1>3, <1>4, <1>5

\* A set of numbers that contains 1 and with each number below n the next one contains
\* all numbers up to n.
LEMMA UpTo ==
    ASSUME NEW n \in Nat, NEW T, 1 \in T, \A i \in 1 .. n - 1 : i \in T => i + 1 \in T
    PROVE  1 .. n \subseteq T
  <1> DEFINE Missing == {i \in 1 .. n : i \notin T}
  <1> SUFFICES ASSUME Missing # {} PROVE FALSE
    OBVIOUS
  <1>1. Missing \in SUBSET Nat
    OBVIOUS
  <1>2. PICK m \in Missing : \A i \in Missing : m <= i
    BY <1>1, MinOfNats
  <1>3. m - 1 \in 1 .. n - 1 /\ m - 1 \notin Missing
    BY <1>2
  <1>4. m - 1 \in T
    BY <1>3
  <1> QED BY <1>2, <1>3, <1>4

\* f[i] is the concatenation of the first i sequences of s.
JoinsUpTo(f, s, n) == f = [i \in 1 .. n |-> IF i = 1 THEN s[i] ELSE f[i - 1] \o s[i]]

\* There is such a function: one for a number of sequences makes one for the next number.
LEMMA JoinsExists ==
    ASSUME NEW n \in Nat \ {0}, NEW s
    PROVE  \E f : JoinsUpTo(f, s, n)
  <1> DEFINE Sum(f, k) == f = [i \in 1 .. k |-> IF i = 1 THEN s[i] ELSE f[i - 1] \o s[i]]
             T == {k \in 1 .. n : \E f : Sum(f, k)}
  <1>1. 1 \in T
    <2>1. Sum([i \in 1 .. 1 |-> s[1]], 1)
      OBVIOUS
    <2>2. 1 \in 1 .. n
      OBVIOUS
    <2> HIDE DEF Sum
    <2> QED BY <2>1, <2>2
  <1>2. ASSUME NEW k \in 1 .. n - 1, k \in T PROVE k + 1 \in T
    <2>1. PICK f : Sum(f, k)
      BY <1>2
    <2> DEFINE g == [i \in 1 .. k + 1 |-> IF i = k + 1 THEN f[k] \o s[k + 1] ELSE f[i]]
    <2>2. \A i \in 1 .. k : g[i] = f[i]
      OBVIOUS
    <2>3. \A i \in 1 .. k + 1 : g[i] = IF i = 1 THEN s[i] ELSE g[i - 1] \o s[i]
      <3> SUFFICES ASSUME NEW i \in 1 .. k + 1
                   PROVE  g[i] = IF i = 1 THEN s[i] ELSE g[i - 1] \o s[i]
        OBVIOUS
      <3>1. CASE i = k + 1
        <4>1. i # 1 /\ i - 1 = k /\ k \in 1 .. k
          BY <3>1
        <4>2. g[i] = f[k] \o s[k + 1]
          BY <3>1
        <4> HIDE DEF g
        <4> QED BY <2>2, <3>1, <4>1, <4>2
      <3>2. CASE i # k + 1
        <4>1. i \in 1 .. k /\ g[i] = f[i]
          BY <3>2
        <4>2. f[i] = IF i = 1 THEN s[i] ELSE f[i - 1] \o s[i]
          BY <2>1, <4>1
        <4>3. i # 1 => g[i - 1] = f[i - 1]
          BY <2>2, <4>1
        <4> QED BY <4>1, <4>2, <4>3
      <3> QED BY <3>1, <3>2
    <2>4. Sum(g, k + 1)
      BY <2>3
    <2>5. k + 1 \in 1 .. n
      OBVIOUS
    <2> HIDE DEF Sum, g
    <2> QED BY <2>4, <2>5
  <1>3. n \in T
    <2>1. n \in Nat /\ n \in 1 .. n
      OBVIOUS
    <2> HIDE DEF T
    <2>2. 1 .. n \subseteq T
      BY <1>1, <1>2, <2>1, UpTo
    <2> QED BY <2>1, <2>2
  <1> QED BY <1>3 DEF JoinsUpTo

\* The same said of its values, which are sequences of numbers.
Concats(f, s, n) ==
    /\ \A i \in 1 .. n : f[i] \in Seq(Nat)
    /\ f[1] = s[1]
    /\ \A i \in 1 .. n - 1 : f[i + 1] = f[i] \o s[i + 1]

\* FlattenSeq is its last value.
LEMMA FlattenIs ==
    ASSUME NEW n \in Nat \ {0}, NEW s \in [1 .. n -> Seq(Nat)]
    PROVE  \E f : Concats(f, s, n) /\ FlattenSeq(s) = f[n]
  <1>1. n \in Nat \ {0} /\ \A i \in 1 .. n : s[i] \in Seq(Nat)
    OBVIOUS
  <1> DEFINE f == CHOOSE g : g = [i \in 1 .. n |-> IF i = 1 THEN s[i] ELSE g[i - 1] \o s[i]]
  <1>2. f = [i \in 1 .. n |-> IF i = 1 THEN s[i] ELSE f[i - 1] \o s[i]]
    BY <1>1, JoinsExists DEF JoinsUpTo
  <1>3. FlattenSeq(s) = f[n]
    <2>1. Len(s) = n /\ n # 0
      BY FunctionIsSeq
    <2> QED BY <2>1 DEF FlattenSeq
  <1> HIDE DEF f
  <1>4. f[1] = s[1]
    BY <1>1, <1>2
  <1>5. ASSUME NEW i \in 1 .. n - 1 PROVE f[i + 1] = f[i] \o s[i + 1]
    <2>1. i + 1 \in 1 .. n /\ i + 1 # 1 /\ (i + 1) - 1 = i
      BY <1>1
    <2> QED BY <1>2, <2>1
  <1>6. \A i \in 1 .. n : f[i] \in Seq(Nat)
    <2> DEFINE T == {i \in 1 .. n : f[i] \in Seq(Nat)}
    <2>1. 1 \in T
      BY <1>1, <1>4
    <2>2. ASSUME NEW i \in 1 .. n - 1, i \in T PROVE i + 1 \in T
      <3>1. s[i + 1] \in Seq(Nat) /\ i + 1 \in 1 .. n
        BY <1>1
      <3>2. f[i] \in Seq(Nat) /\ f[i + 1] = f[i] \o s[i + 1]
        BY <1>5, <2>2
      <3>3. \A u, v \in Seq(Nat) : u \o v \in Seq(Nat)
        BY ConcatFacts
      <3>4. f[i + 1] \in Seq(Nat)
        BY ONLY <3>1, <3>2, <3>3
      <3> QED BY <3>1, <3>4
    <2>3. 1 .. n \subseteq T
      <3> HIDE DEF T
      <3> QED BY <1>1, <2>1, <2>2, UpTo
    <2> QED BY <2>3
  <1> QED BY <1>3, <1>4, <1>5, <1>6 DEF Concats

\* Of n sequences of numbers those behind the k-th are empty.
RestIsEmpty(s, n, k) ==
    /\ n \in Nat \ {0} /\ k \in 1 .. n
    /\ s \in [1 .. n -> Seq(Nat)]
    /\ \A i \in k + 1 .. n : s[i] = <<>>

\* Empty sequences at the end add nothing.
LEMMA JoinsRest ==
    ASSUME NEW n, NEW s, NEW k, NEW f, RestIsEmpty(s, n, k), Concats(f, s, n)
    PROVE  f[n] = f[k]
  <1> USE DEF Concats, RestIsEmpty
  <1>1. n \in Nat
    OBVIOUS
  <1> DEFINE T == {i \in 1 .. n : i >= k => f[i] = f[k]}
  <1>2. 1 \in T
    BY <1>1
  <1>3. ASSUME NEW i \in 1 .. n - 1, i \in T PROVE i + 1 \in T
    <2>1. i + 1 \in 1 .. n
      BY <1>1
    <2>2. CASE i < k
      <3>1. i + 1 < k \/ i + 1 = k
        BY <2>2
      <3> QED BY <2>1, <3>1
    <2>3. CASE ~(i < k)
      <3>1. i \in k .. n /\ i + 1 \in k + 1 .. n
        BY <1>1, <2>3
      <3>2. i \in 1 .. n /\ s[i + 1] = <<>> /\ f[i] = f[k]
        BY <1>1, <1>3, <3>1
      <3>3. f[i + 1] = f[i] \o <<>> /\ f[i] \in Seq(Nat)
        BY <3>2
      <3> QED BY <2>1, <3>2, <3>3, ConcatEmptySeq
    <2> QED BY <2>2, <2>3
  <1>4. n \in T
    <2>1. n \in 1 .. n
      BY <1>1
    <2> HIDE DEF T
    <2>2. 1 .. n \subseteq T
      BY <1>1, <1>2, <1>3, UpTo
    <2> QED BY <2>1, <2>2
  <1> QED BY <1>4

\* The n sequences t are s with x appended to the k-th, and s is empty behind that.
AppendsTo(t, s, n, k, x) ==
    /\ RestIsEmpty(s, n, k)
    /\ t \in [1 .. n -> Seq(Nat)] /\ x \in Nat
    /\ t[k] = Append(s[k], x)
    /\ \A i \in 1 .. n : i # k => t[i] = s[i]

\* What is appended to the last sequence that is not empty, is appended to all.
LEMMA FlattenAppend ==
    ASSUME NEW n, NEW s, NEW t, NEW k, NEW x, AppendsTo(t, s, n, k, x)
    PROVE  FlattenSeq(t) = Append(FlattenSeq(s), x)
  <1> USE DEF AppendsTo, RestIsEmpty
  <1>1. n \in Nat \ {0}
    OBVIOUS
  <1>2. PICK f : Concats(f, s, n) /\ FlattenSeq(s) = f[n]
    BY <1>1, FlattenIs
  <1>3. PICK g : Concats(g, t, n) /\ FlattenSeq(t) = g[n]
    BY <1>1, FlattenIs
  <1>4. /\ \A i \in 1 .. n : f[i] \in Seq(Nat)
        /\ f[1] = s[1]
        /\ \A i \in 1 .. n - 1 : f[i + 1] = f[i] \o s[i + 1]
    BY <1>2 DEF Concats
  <1>5. /\ \A i \in 1 .. n : g[i] \in Seq(Nat)
        /\ g[1] = t[1]
        /\ \A i \in 1 .. n - 1 : g[i + 1] = g[i] \o t[i + 1]
        /\ FlattenSeq(t) = g[n]
    BY <1>3 DEF Concats
  <1>6. f[n] = f[k]
    <2> HIDE DEF RestIsEmpty
    <2>1. RestIsEmpty(s, n, k)
      OBVIOUS
    <2> QED BY ONLY <1>2, <2>1, JoinsRest
  <1>7. g[n] = g[k]
    <2>1. ASSUME NEW i \in k + 1 .. n PROVE t[i] = <<>>
      <3>1. i \in k + 1 .. n /\ i \in 1 .. n /\ i # k
        BY <1>1
      <3> QED BY <3>1
    <2>2. RestIsEmpty(t, n, k)
      BY <2>1
    <2> HIDE DEF RestIsEmpty
    <2> QED BY ONLY <1>3, <2>2, JoinsRest
  <1>8. s[k] \in Seq(Nat) /\ <<x>> \in Seq(Nat) /\ t[k] = s[k] \o <<x>>
    <2>1. s[k] \in Seq(Nat)
      OBVIOUS
    <2> QED BY <2>1, ConcatFacts
  <1>9. \A i \in 1 .. n : i < k => g[i] = f[i]
    <2> DEFINE T == {i \in 1 .. n : i < k => g[i] = f[i]}
    <2>1. 1 \in T
      BY <1>1, <1>2, <1>4, <1>5
    <2>2. ASSUME NEW i \in 1 .. n - 1, i \in T PROVE i + 1 \in T
      <3>1. i + 1 \in 1 .. n /\ (i + 1 < k => i < k /\ t[i + 1] = s[i + 1])
        BY <1>1
      <3>2. i + 1 < k => g[i] = f[i]
        BY <2>2, <3>1
      <3>3. g[i + 1] = g[i] \o t[i + 1] /\ f[i + 1] = f[i] \o s[i + 1]
        BY ONLY i \in 1 .. n - 1, <1>4, <1>5
      <3>4. i + 1 < k => g[i + 1] = f[i + 1]
        BY ONLY <3>1, <3>2, <3>3
      <3> QED BY <3>1, <3>4
    <2>3. 1 .. n \subseteq T
      <3> HIDE DEF T
      <3> QED BY <1>1, <2>1, <2>2, UpTo
    <2> QED BY <2>3
  <1>10. g[k] = f[k] \o <<x>>
    <2>1. CASE k = 1
      BY <1>2, <1>4, <1>5, <1>8, <2>1
    <2>2. CASE k # 1
      <3>1. k - 1 \in 1 .. n - 1 /\ k - 1 \in 1 .. n /\ (k - 1) + 1 = k /\ k - 1 < k
        BY <1>1, <2>2
      <3>2. f[k] = f[k - 1] \o s[k] /\ g[k] = g[k - 1] \o t[k] /\ g[k - 1] = f[k - 1]
        <4>1. f[(k - 1) + 1] = f[k - 1] \o s[(k - 1) + 1] /\ g[(k - 1) + 1] = g[k - 1] \o t[(k - 1) + 1]
          BY ONLY <3>1, <1>4, <1>5
        <4>2. g[k - 1] = f[k - 1]
          BY ONLY <3>1, <1>9
        <4> QED BY ONLY <3>1, <4>1, <4>2
      <3>3. f[k - 1] \in Seq(Nat)
        BY <1>2, <1>4, <3>1
      <3>4. (f[k - 1] \o s[k]) \o <<x>> = f[k - 1] \o (s[k] \o <<x>>)
        <4> DEFINE a == f[k - 1]
                   b == s[k]
                   c == <<x>>
        <4>1. a \in Seq(Nat) /\ b \in Seq(Nat) /\ c \in Seq(Nat)
          BY <1>8, <3>3
        <4>2. \A u, v, w \in Seq(Nat) : (u \o v) \o w = u \o (v \o w)
          BY ConcatFacts
        <4> HIDE DEF a, b, c
        <4>3. (a \o b) \o c = a \o (b \o c)
          BY <4>1, <4>2
        <4> QED BY <4>3 DEF a, b, c
      <3> QED BY <1>8, <3>2, <3>4
    <2> QED BY <2>1, <2>2
  <1>11. f[k] \o <<x>> = Append(f[k], x)
    <2>1. f[k] \in Seq(Nat)
      BY <1>4
    <2>2. \A a \in Seq(Nat) : Append(a, x) = a \o <<x>>
      BY ConcatFacts
    <2> QED BY ONLY <2>1, <2>2
  <1>12. FlattenSeq(s) = f[k]
    BY <1>2, <1>6
  <1>13. FlattenSeq(t) = g[k]
    BY <1>5, <1>7
  <1> QED BY <1>10, <1>11, <1>12, <1>13

\* The n sequences t are s without the first, and an empty one.
Shifted(t, s, n) ==
    /\ n \in Nat \ {0} /\ s \in [1 .. n -> Seq(Nat)] /\ t \in [1 .. n -> Seq(Nat)]
    /\ \A i \in 1 .. n - 1 : t[i] = s[i + 1]
    /\ t[n] = <<>>

\* The first sequence, and the others with an empty one in its place at the end.
LEMMA FlattenShift ==
    ASSUME NEW n, NEW s, NEW t, Shifted(t, s, n)
    PROVE  FlattenSeq(s) = s[1] \o FlattenSeq(t)
  <1> USE DEF Shifted
  <1>1. n \in Nat \ {0}
    OBVIOUS
  <1>2. PICK f : Concats(f, s, n) /\ FlattenSeq(s) = f[n]
    BY <1>1, FlattenIs
  <1>3. PICK g : Concats(g, t, n) /\ FlattenSeq(t) = g[n]
    BY <1>1, FlattenIs
  <1>4. /\ \A i \in 1 .. n : f[i] \in Seq(Nat)
        /\ f[1] = s[1]
        /\ \A i \in 1 .. n - 1 : f[i + 1] = f[i] \o s[i + 1]
    BY <1>2 DEF Concats
  <1>5. /\ \A i \in 1 .. n : g[i] \in Seq(Nat)
        /\ g[1] = t[1]
        /\ \A i \in 1 .. n - 1 : g[i + 1] = g[i] \o t[i + 1]
        /\ FlattenSeq(t) = g[n]
    BY <1>3 DEF Concats
  <1>6. s[1] \in Seq(Nat) /\ \A i \in 1 .. n : t[i] \in Seq(Nat)
    BY <1>1
  <1>7. CASE n = 1
    <2>1. FlattenSeq(t) = <<>> /\ FlattenSeq(s) = s[1]
      BY <1>2, <1>4, <1>5, <1>7
    <2> QED BY <1>6, <2>1, ConcatEmptySeq
  <1>8. CASE n # 1
    <2>1. \A i \in 1 .. n - 1 : f[i + 1] = s[1] \o g[i]
      <3> DEFINE T == {i \in 1 .. n - 1 : f[i + 1] = s[1] \o g[i]}
      <3>1. 1 \in T
        <4>1. 1 \in 1 .. n - 1
          BY <1>1, <1>8
        <4> QED BY <1>2, <1>4, <1>5, <4>1
      <3>2. ASSUME NEW i \in 1 .. (n - 1) - 1, i \in T PROVE i + 1 \in T
        <4>1. /\ i \in 1 .. n /\ i \in 1 .. n - 1
              /\ i + 1 \in 1 .. n /\ i + 1 \in 1 .. n - 1
          BY <1>1
        <4>2. /\ f[(i + 1) + 1] = f[i + 1] \o s[(i + 1) + 1]
              /\ s[(i + 1) + 1] = t[i + 1]
              /\ f[i + 1] = s[1] \o g[i]
              /\ g[i + 1] = g[i] \o t[i + 1]
          BY <1>2, <1>4, <1>5, <3>2, <4>1
        <4>3. (s[1] \o g[i]) \o t[i + 1] = s[1] \o (g[i] \o t[i + 1])
          <5> DEFINE a == s[1]
                     b == g[i]
                     c == t[i + 1]
          <5>1. a \in Seq(Nat) /\ b \in Seq(Nat) /\ c \in Seq(Nat)
            BY <1>5, <1>6, <4>1
          <5>2. \A u, v, w \in Seq(Nat) : (u \o v) \o w = u \o (v \o w)
            BY ConcatFacts
          <5> HIDE DEF a, b, c
          <5>3. (a \o b) \o c = a \o (b \o c)
            BY <5>1, <5>2
          <5> QED BY <5>3 DEF a, b, c
        <4> QED BY <4>1, <4>2, <4>3
      <3>3. 1 .. n - 1 \subseteq T
        <4>1. n - 1 \in Nat
          BY <1>1
        <4> HIDE DEF T
        <4> QED BY <3>1, <3>2, <4>1, UpTo
      <3> QED BY <3>3
    <2>2. n - 1 \in 1 .. n - 1 /\ n - 1 \in 1 .. n /\ (n - 1) + 1 = n
      BY <1>1, <1>8
    <2>3. f[n] = s[1] \o g[n - 1]
      BY <2>1, <2>2
    <2>4. g[n] = g[n - 1] \o <<>>
      BY <1>5, <2>2
    <2>5. g[n] = g[n - 1]
      BY <1>5, <2>2, <2>4, ConcatEmptySeq
    <2> QED BY <1>2, <1>4, <1>5, <2>3, <2>5
  <1> QED BY <1>7, <1>8

\* When all but the first are empty the first is all.
LEMMA FlattenOne ==
    ASSUME NEW n \in Nat \ {0}, NEW s \in [1 .. n -> Seq(Nat)], \A i \in 2 .. n : s[i] = <<>>
    PROVE  FlattenSeq(s) = s[1]
  <1>1. n \in Nat \ {0} /\ 1 \in 1 .. n /\ 1 + 1 = 2
    OBVIOUS
  <1>2. PICK f : Concats(f, s, n) /\ FlattenSeq(s) = f[n]
    BY FlattenIs
  <1>3. f[n] = f[1]
    <2>1. RestIsEmpty(s, n, 1)
      BY <1>1 DEF RestIsEmpty
    <2> QED BY ONLY <1>2, <2>1, JoinsRest
  <1>4. f[1] = s[1]
    BY <1>2 DEF Concats
  <1> QED BY <1>2, <1>3, <1>4

\* The concatenation has the elements of its parts.
LEMMA FlattenType ==
    ASSUME NEW n \in Nat \ {0}, NEW s \in [1 .. n -> Seq(Nat)]
    PROVE  FlattenSeq(s) \in Seq(Nat)
  <1>1. PICK f : Concats(f, s, n) /\ FlattenSeq(s) = f[n]
    BY FlattenIs
  <1>2. n \in 1 .. n
    OBVIOUS
  <1> QED BY <1>1, <1>2 DEF Concats
=============================================================================
