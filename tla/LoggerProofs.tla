---------------------------- MODULE LoggerProofs ----------------------------
(***************************************************************************)
(* Proofs about the asynchronous logger: how the ring fills and empties,   *)
(* where the items of the queues are, and in which order the lines go      *)
(* through both to the output.                                             *)
(***************************************************************************)
EXTENDS AsyncLogger, CollectionLemmas

N == MAX_NUM_LOG_BUFFER_BLOCK

-----------------------------------------------------------------------------
(***************************************************************************)
(* The ring.                                                               *)
(***************************************************************************)
\* The next buffer, without the modulo.
LEMMA NextBufferIs ==
    ASSUME AsyncLoggerAssumption, NEW b \in Buffers
    PROVE  NextBuffer(b) = (IF b = N - 1 THEN 0 ELSE b + 1) /\ NextBuffer(b) \in Buffers
  <1>1. N \in Nat \ {0} /\ b \in 0 .. N - 1
    BY DEF AsyncLoggerAssumption, N, Buffers
  <1>2. ASSUME NEW x \in 0 .. N - 1 PROVE x % N = x
    BY <1>1
  <1>3. N % N = 0
    BY <1>1
  <1>4. NextBuffer(b) = (b + 1) % N
    BY DEF NextBuffer, N
  <1>5. CASE b = N - 1
    <2>1. b + 1 = N
      BY <1>1, <1>5
    <2> QED BY <1>1, <1>3, <1>4, <1>5, <2>1 DEF Buffers, N
  <1>6. CASE b # N - 1
    <2>1. b + 1 \in 0 .. N - 1
      BY <1>1, <1>6
    <2> QED BY <1>1, <1>2, <1>4, <1>6, <2>1 DEF Buffers, N
  <1> QED BY <1>5, <1>6

\* The distance numbers the buffers from the reader's on.
LEMMA DistanceFacts ==
    ASSUME AsyncLoggerAssumption, read \in Buffers, NEW b \in Buffers
    PROVE  /\ Distance(b) \in 0 .. N - 1
           /\ Distance(b) = 0 <=> b = read
           /\ \A c \in Buffers : Distance(b) = Distance(c) => b = c
           /\ Distance(NextBuffer(b)) = IF Distance(b) = N - 1 THEN 0 ELSE Distance(b) + 1
  <1>1. N \in Nat \ {0} /\ b \in 0 .. N - 1 /\ read \in 0 .. N - 1 /\ Buffers = 0 .. N - 1
    BY DEF AsyncLoggerAssumption, N, Buffers
  <1>2. NextBuffer(b) = IF b = N - 1 THEN 0 ELSE b + 1
    BY NextBufferIs
  <1>3. \A c : Distance(c) = IF c >= read THEN c - read ELSE c - read + N
    BY DEF Distance, N
  <1>4. Distance(b) \in 0 .. N - 1 /\ (Distance(b) = 0 <=> b = read)
    BY <1>1, <1>3
  <1>5. ASSUME NEW c \in Buffers, Distance(b) = Distance(c) PROVE b = c
    <2>1. c \in 0 .. N - 1
      BY <1>1
    <2> QED BY ONLY <1>1, <1>3, <1>5, <2>1
  <1>6. Distance(NextBuffer(b)) = IF Distance(b) = N - 1 THEN 0 ELSE Distance(b) + 1
    <2>1. CASE b = N - 1
      <3>1. Distance(NextBuffer(b)) = IF 0 >= read THEN 0 - read ELSE 0 - read + N
        BY <1>2, <1>3, <2>1
      <3>2. Distance(b) = N - 1 - read
        BY <1>1, <1>3, <2>1
      <3>3. N \in Nat \ {0} /\ read \in 0 .. N - 1
        BY <1>1
      <3> QED BY ONLY <2>1, <3>1, <3>2, <3>3
    <2>2. CASE b # N - 1
      <3>1. Distance(NextBuffer(b)) = IF b + 1 >= read THEN (b + 1) - read ELSE (b + 1) - read + N
        <4>1. NextBuffer(b) = b + 1
          BY <1>2, <2>2
        <4>2. Distance(b + 1) = IF b + 1 >= read THEN (b + 1) - read ELSE (b + 1) - read + N
          BY DEF Distance, N
        <4> QED BY ONLY <4>1, <4>2
      <3>2. Distance(b) = IF b >= read THEN b - read ELSE b - read + N
        BY <1>3
      <3>3. N \in Nat \ {0} /\ b \in 0 .. N - 1 /\ read \in 0 .. N - 1
        BY <1>1
      <3>4. CASE b >= read
        <4>1. b + 1 >= read /\ b - read # N - 1
          BY ONLY <2>2, <3>3, <3>4
        <4> QED BY ONLY <3>1, <3>2, <3>3, <3>4, <4>1
      <3>5. CASE ~(b >= read) /\ b + 1 >= read
        <4>1. b + 1 = read
          BY ONLY <3>3, <3>5
        <4> QED BY ONLY <3>1, <3>2, <3>3, <3>5, <4>1
      <3>6. CASE ~(b + 1 >= read)
        <4>1. ~(b >= read) /\ b - read + N # N - 1
          BY ONLY <3>3, <3>6
        <4> QED BY ONLY <3>1, <3>2, <3>3, <3>6, <4>1
      <3> QED BY <3>4, <3>5, <3>6
    <2> QED BY <2>1, <2>2
  <1> QED BY <1>4, <1>5, <1>6

\* A line takes no more of its buffer than there is.
LEMMA StoredFacts ==
    ASSUME AsyncLoggerAssumption, config \in Configs, NEW l \in Lines, NEW length \in Nat,
           config.size # 0 => length < config.size
    PROVE  /\ Stored(l, length) \in Nat
           /\ config.size # 0 => length + Stored(l, length) < config.size
           /\ config.size = 0 => Stored(l, length) > 0
  <1>1. config.size \in Nat /\ l.len \in Nat \ {0}
    BY DEF AsyncLoggerAssumption
  <1> QED BY <1>1 DEF Stored

\* A line makes its buffer longer and changes nothing else of it.
LEMMA LongerBuffer ==
    ASSUME NEW x \in BufferContents, NEW l, Stored(l, x.length) \in Nat, lines + 1 \in 1 .. MaxLines
    PROVE  /\ Longer(x, l) \in BufferContents
           /\ Longer(x, l).full = x.full
           /\ Longer(x, l).length = x.length + Stored(l, x.length)
  <1> DEFINE n == x.length + Stored(l, x.length)
             t == Append(x.lines, lines + 1)
  <1>1. n \in Nat /\ t \in Seq(1 .. MaxLines) /\ x.full \in BOOLEAN
    BY DEF BufferContents
  <1>2. Longer(x, l) = [full |-> x.full, length |-> n, lines |-> t]
    BY DEF Longer
  <1> HIDE DEF n, t
  <1>3. [full |-> x.full, length |-> n, lines |-> t] \in BufferContents
    BY <1>1 DEF BufferContents
  <1>4. Longer(x, l).full = x.full /\ Longer(x, l).length = n
    BY <1>2
  <1> QED BY <1>2, <1>3, <1>4 DEF n

\* The buffer after a full one takes its place in the order.
LEMMA MarkedIsOrdered ==
    ASSUME AsyncLoggerAssumption, read \in Buffers, NEW r \in [Buffers -> BufferContents],
           NEW w \in Buffers, RingOrdered(r, w), ~r[w].full, r[w].length > 0
    PROVE  /\ [r EXCEPT ![w].full = TRUE] \in [Buffers -> BufferContents]
           /\ RingOrdered([r EXCEPT ![w].full = TRUE], NextBuffer(w))
  <1> DEFINE m == [r EXCEPT ![w].full = TRUE]
             next == NextBuffer(w)
  <1>1. /\ m \in [Buffers -> BufferContents]
        /\ \A b \in Buffers : m[b].length = r[b].length
        /\ m[w].full
        /\ \A b \in Buffers : b # w => m[b] = r[b]
    BY DEF BufferContents
  <1>2. /\ N \in Nat \ {0} /\ next \in Buffers
        /\ \A b \in Buffers : Distance(b) \in 0 .. N - 1
        /\ \A b, c \in Buffers : Distance(b) = Distance(c) => b = c
        /\ Distance(next) = IF Distance(w) = N - 1 THEN 0 ELSE Distance(w) + 1
        /\ Distance(next) = 0 <=> next = read
    BY NextBufferIs, DistanceFacts DEF AsyncLoggerAssumption, N
  <1>3. /\ \A b \in Buffers : r[b].full => r[b].length > 0
        /\ \A b \in Buffers : config.size # 0 => r[b].length < config.size
        /\ \A b \in Buffers : Distance(b) < Distance(w) => r[b].full
        /\ \A b \in Buffers : Distance(b) > Distance(w) => ~r[b].full /\ r[b].length = 0
    BY DEF RingOrdered
  <1> HIDE DEF m, next
  <1>4. \A b \in Buffers :
           /\ m[b].full => m[b].length > 0
           /\ config.size # 0 => m[b].length < config.size
    BY <1>1, <1>3
  <1>5. \A b \in Buffers : Distance(b) <= Distance(w) => m[b].full
    <2> SUFFICES ASSUME NEW b \in Buffers, Distance(b) <= Distance(w) PROVE m[b].full
      OBVIOUS
    <2>1. b = w \/ Distance(b) < Distance(w)
      BY <1>2
    <2> QED BY <1>1, <1>3, <2>1
  <1>6. CASE Distance(w) = N - 1
    <2>1. next = read /\ \A b \in Buffers : m[b].full
      BY <1>2, <1>5, <1>6
    <2> QED BY <1>1, <1>4, <2>1 DEF RingOrdered, m, next
  <1>7. CASE Distance(w) # N - 1
    <2>1. Distance(next) = Distance(w) + 1
      BY <1>2, <1>7
    <2>2. /\ \A b \in Buffers : Distance(b) < Distance(next) => Distance(b) <= Distance(w)
          /\ \A b \in Buffers : Distance(b) > Distance(next) => Distance(b) > Distance(w) /\ b # w
          /\ Distance(next) > Distance(w) /\ next # w
      BY <1>2, <2>1
    <2>3. /\ \A b \in Buffers : Distance(b) < Distance(next) => m[b].full
          /\ \A b \in Buffers : Distance(b) > Distance(next) => ~m[b].full /\ m[b].length = 0
          /\ ~m[next].full
      BY <1>1, <1>2, <1>3, <1>5, <2>2
    <2> QED BY <1>1, <1>4, <2>3 DEF RingOrdered, m, next
  <1> QED BY <1>6, <1>7

\* A line added to the writer's buffer keeps the ring in order, and so does leaving the
\* buffer when it is full (AsyncWriteMsg, LoggerWriteMem).
LEMMA WriteLineKeepsOrder ==
    ASSUME AsyncLoggerAssumption, config \in Configs, read \in Buffers, lines + 1 \in 1 .. MaxLines,
           NEW r \in [Buffers -> BufferContents], NEW b \in Buffers, RingOrdered(r, b), ~r[b].full,
           NEW l \in Lines, NEW moved \in BOOLEAN, WriteLine(r, b, l, moved)
    PROVE  /\ ring' \in [Buffers -> BufferContents]
           /\ write' \in Buffers
           /\ RingOrdered(ring', write')
  <1> DEFINE added == WithLine(r, b, l)
             s == Stored(l, r[b].length)
  <1>1. /\ r[b].length \in Nat /\ r[b].lines \in Seq(1 .. MaxLines)
        /\ config.size # 0 => r[b].length < config.size
    BY DEF RingOrdered, BufferContents
  <1>2. /\ s \in Nat
        /\ config.size # 0 => r[b].length + s < config.size
        /\ config.size = 0 => s > 0
        /\ config.size \in Nat
    BY <1>1, StoredFacts DEF AsyncLoggerAssumption
  <1> HIDE DEF s
  <1>3. /\ added \in [Buffers -> BufferContents]
        /\ \A c \in Buffers : added[c].full = r[c].full
        /\ \A c \in Buffers : c # b => added[c] = r[c]
        /\ added[b].length = r[b].length + s
    <2> DEFINE buffer == Longer(r[b], l)
    <2>2. /\ buffer \in BufferContents
          /\ buffer.full = r[b].full /\ buffer.length = r[b].length + s
      BY <1>2, LongerBuffer DEF s
    <2> HIDE DEF buffer
    <2>3. added = [r EXCEPT ![b] = buffer]
      BY DEF WithLine, buffer
    <2> QED BY <2>2, <2>3
  <1> HIDE DEF added
  <1>4. RingOrdered(added, b)
    BY <1>1, <1>2, <1>3 DEF RingOrdered
  <1>5. CASE added[b].length >= config.size
    <2>1. ring' = [added EXCEPT ![b].full = TRUE] /\ write' = NextBuffer(b)
      BY <1>5 DEF WriteLine, added
    <2>2. added[b].length > 0 /\ ~added[b].full
      BY <1>1, <1>2, <1>3, <1>5
    <2> QED BY <1>3, <1>4, <2>1, <2>2, MarkedIsOrdered, NextBufferIs
  <1>6. CASE ~(added[b].length >= config.size)
    <2>1. ring' = added /\ write' = b
      BY <1>6 DEF WriteLine, added
    <2> QED BY <1>3, <1>4, <2>1
  <1> QED BY <1>5, <1>6

\* The writer's step keeps the ring in order: it adds its line to the buffer, or leaves
\* the buffer first, or finds the ring full.
LEMMA LogToRingKeepsOrder ==
    ASSUME AsyncLoggerAssumption, TypeOK, RingInv, lines + 1 \in 1 .. MaxLines, LogToRing
    PROVE  /\ ring' \in [Buffers -> BufferContents] /\ write' \in Buffers
           /\ RingInv'
  <1>1. /\ config \in Configs /\ read \in Buffers /\ write \in Buffers
        /\ ring \in [Buffers -> BufferContents] /\ RingOrdered(ring, write)
    BY DEF TypeOK, RingInv
  <1>2. PICK l \in Lines : WriteToFullRing(l) \/ WriteToSameBuffer(l) \/ WriteToNextBuffer(l)
    BY DEF LogToRing
  <1>3. config' = config /\ read' = read
    BY <1>2 DEF WriteToFullRing, WriteToSameBuffer, WriteToNextBuffer
  <1> SUFFICES /\ ring' \in [Buffers -> BufferContents] /\ write' \in Buffers
               /\ RingOrdered(ring', write')
    BY <1>3 DEF RingInv, RingOrdered, Distance
  <1>4. CASE WriteToFullRing(l)
    BY <1>1, <1>4 DEF WriteToFullRing
  <1>5. CASE WriteToSameBuffer(l)
    <2>1. ~ring[write].full /\ WriteLine(ring, write, l, FALSE)
      BY <1>5 DEF WriteToSameBuffer
    <2> QED BY <1>1, <2>1, WriteLineKeepsOrder
  <1>6. CASE WriteToNextBuffer(l)
    <2> DEFINE marked == [ring EXCEPT ![write].full = TRUE]
               next == NextBuffer(write)
    <2>1. /\ ~ring[write].full /\ NeedsNextBuffer(l)
          /\ \/ marked[next].full /\ ring' = marked /\ write' = next
             \/ ~marked[next].full /\ WriteLine(marked, next, l, TRUE)
      BY <1>6 DEF WriteToNextBuffer
    <2>2. ring[write].length > 0
      BY <1>1, <2>1 DEF NeedsNextBuffer, BufferContents
    <2>3. marked \in [Buffers -> BufferContents] /\ RingOrdered(marked, next) /\ next \in Buffers
      BY <1>1, <2>1, <2>2, MarkedIsOrdered, NextBufferIs
    <2> HIDE DEF marked, next
    <2> QED BY <1>1, <2>1, <2>3, WriteLineKeepsOrder
  <1> QED BY <1>2, <1>4, <1>5, <1>6

\* The reader's step keeps the ring in order: what it leaves is empty and comes behind
\* all others.
LEMMA WriteReadBufferKeepsOrder ==
    ASSUME AsyncLoggerAssumption, TypeOK, RingInv, WriteReadBuffer
    PROVE  /\ ring' \in [Buffers -> BufferContents] /\ read' \in Buffers
           /\ RingInv'
  <1>1. /\ config \in Configs /\ read \in Buffers /\ write \in Buffers
        /\ ring \in [Buffers -> BufferContents] /\ RingOrdered(ring, write)
        /\ N \in Nat \ {0} /\ Buffers = 0 .. N - 1
    BY DEF TypeOK, RingInv, AsyncLoggerAssumption, N, Buffers
  <1>2. /\ ring' = [ring EXCEPT ![read] = EmptyBuffer]
        /\ read' = IF ring[read].full THEN NextBuffer(read) ELSE read
        /\ write' = write /\ config' = config
    BY DEF WriteReadBuffer
  <1>3. /\ EmptyBuffer \in BufferContents /\ ~EmptyBuffer.full /\ EmptyBuffer.length = 0
    BY DEF EmptyBuffer, BufferContents
  <1>4. /\ ring' \in [Buffers -> BufferContents]
        /\ ring'[read] = EmptyBuffer /\ \A b \in Buffers : b # read => ring'[b] = ring[b]
    BY <1>1, <1>2, <1>3
  <1>5. read' \in Buffers
    BY <1>1, <1>2, NextBufferIs
  <1> DEFINE d(b) == IF b >= read' THEN b - read' ELSE b - read' + N
  <1>6. \A b : Distance(b) = (IF b >= read THEN b - read ELSE b - read + N) /\ Distance(b)' = d(b)
    BY DEF Distance, N
  <1>7. \A b \in Buffers :
           /\ ring'[b].full => ring'[b].length > 0
           /\ config'.size # 0 => ring'[b].length < config'.size
    <2>1. config.size \in Nat
      BY <1>1 DEF AsyncLoggerAssumption
    <2> QED BY <1>1, <1>2, <1>3, <1>4, <2>1 DEF RingOrdered
  <1>8. NextBuffer(read) = IF read = N - 1 THEN 0 ELSE read + 1
    BY <1>1, NextBufferIs
  <1>9. ~ring'[write].full /\ \A b \in Buffers :
           /\ d(b) < d(write) => ring'[b].full
           /\ d(b) > d(write) => ~ring'[b].full /\ ring'[b].length = 0
    <2>1. CASE write = read /\ \A b \in Buffers : ring[b].full
      <3>1. d(write) = N - 1 /\ \A b \in Buffers : d(b) <= N - 1 /\ (d(b) = N - 1 => b = read)
        BY <1>1, <1>2, <1>8, <2>1
      <3>2. ~ring'[write].full
        BY <1>3, <1>4, <2>1
      <3>3. ASSUME NEW b \in Buffers
            PROVE  /\ d(b) < d(write) => ring'[b].full
                   /\ ~(d(b) > d(write))
        <4>1. ~(d(b) > d(write)) /\ (d(b) < d(write) => b # read)
          <5>1. d(b) \in Int /\ d(b) <= N - 1 /\ d(write) = N - 1 /\ d(read) = N - 1
            BY <1>1, <1>2, <1>5, <2>1, <3>1
          <5> HIDE DEF d
          <5> QED BY <1>1, <5>1
        <4> QED BY <1>4, <2>1, <4>1
      <3> HIDE DEF d
      <3> QED BY <3>2, <3>3
    <2>2. CASE /\ ~ring[write].full
               /\ \A b \in Buffers :
                     /\ Distance(b) < Distance(write) => ring[b].full
                     /\ Distance(b) > Distance(write) => ~ring[b].full /\ ring[b].length = 0
      <3>1. CASE ring[read].full
        <4>1. read # write /\ read' = NextBuffer(read)
          BY <1>2, <2>2, <3>1
        <4>2. \A b \in Buffers : b # read => d(b) = Distance(b) - 1
          <5> SUFFICES ASSUME NEW b \in Buffers, b # read PROVE d(b) = Distance(b) - 1
            OBVIOUS
          <5>1. Distance(b) = IF b >= read THEN b - read ELSE b - read + N
            BY <1>6
          <5>2. /\ N \in Nat \ {0} /\ b \in 0 .. N - 1 /\ read \in 0 .. N - 1
                /\ read' = IF read = N - 1 THEN 0 ELSE read + 1
            BY <1>1, <1>8, <4>1
          <5> QED BY ONLY b # read, <5>1, <5>2
        <4>3. d(read) = N - 1 /\ Distance(write) \in 1 .. N - 1
          <5>1. d(read) = N - 1
            BY <1>1, <1>8, <4>1
          <5>2. Distance(write) \in 1 .. N - 1
            BY <1>1, <1>6, <4>1
          <5> QED BY <5>1, <5>2
        <4>4. \A b \in Buffers : Distance(b) \in 0 .. N - 1
          BY <1>1, <1>6
        <4> HIDE DEF d
        <4>5. ~ring'[write].full
          BY <1>1, <1>4, <2>2, <4>1
        <4>6. ASSUME NEW b \in Buffers, b # read
              PROVE  /\ d(b) < d(write) => ring'[b].full
                     /\ d(b) > d(write) => ~ring'[b].full /\ ring'[b].length = 0
          <5>1. d(b) = Distance(b) - 1 /\ d(write) = Distance(write) - 1
            BY <1>1, <4>1, <4>2, <4>6
          <5>2. ring'[b] = ring[b]
            BY <1>4, <4>6
          <5>3. (d(b) < d(write) => Distance(b) < Distance(write))
                /\ (d(b) > d(write) => Distance(b) > Distance(write))
            <6>1. Distance(b) \in Int /\ Distance(write) \in Int
              BY <1>1, <4>4
            <6> QED BY <5>1, <6>1
          <5> QED BY <2>2, <5>2, <5>3
        <4>7. ~(d(read) < d(write)) /\ ~ring'[read].full /\ ring'[read].length = 0
          <5>1. d(write) = Distance(write) - 1
            BY <1>1, <4>1, <4>2
          <5> QED BY <1>1, <1>3, <1>4, <4>3, <5>1
        <4> QED BY <4>5, <4>6, <4>7
      <3>2. CASE ~ring[read].full
        <4>1. read' = read /\ \A b : d(b) = Distance(b)
          BY <1>2, <1>6, <3>2
        <4>2. Distance(read) = 0 /\ \A b \in Buffers : Distance(b) \in 0 .. N - 1
          BY <1>1, <1>6
        <4>3. read = write
          <5>1. ~(Distance(read) < Distance(write))
            BY <1>1, <2>2, <3>2
          <5> QED BY <1>1, <4>2, <5>1, DistanceFacts
        <4> HIDE DEF d
        <4> QED BY <1>1, <1>3, <1>4, <2>2, <4>1, <4>2, <4>3
      <3> QED BY <3>1, <3>2
    <2> QED BY <1>1, <2>1, <2>2 DEF RingOrdered
  <1>10. RingOrdered(ring, write)'
    <2> HIDE DEF d
    <2> QED BY <1>2, <1>6, <1>7, <1>9 DEF RingOrdered, Buffers
  <1> QED BY <1>4, <1>5, <1>10 DEF RingInv

\* When the reader's buffer is empty so is the ring: no waiting text is overlooked.
LEMMA OrderedRingIsSeen ==
    ASSUME AsyncLoggerAssumption, TypeOK, RingInv
    PROVE  ReaderStandsAtTheOldest
  <1>1. /\ read \in Buffers /\ write \in Buffers /\ RingOrdered(ring, write)
        /\ ring \in [Buffers -> BufferContents]
    BY DEF TypeOK, RingInv
  <1>2. ASSUME ring[read].length = 0, NEW b \in Buffers PROVE ring[b].length = 0
    <2>1. ~ring[read].full
      BY <1>1, <1>2 DEF RingOrdered
    <2>2. /\ Distance(read) = 0
          /\ Distance(write) \in 0 .. N - 1
          /\ Distance(b) \in 0 .. N - 1
          /\ Distance(b) = 0 <=> b = read
      BY <1>1, DistanceFacts
    <2>3. Distance(write) = 0 /\ ~(write = read /\ \A c \in Buffers : ring[c].full)
      <3>1. ~(Distance(read) < Distance(write)) \/ (\A c \in Buffers : ring[c].full)
        BY <1>1, <2>1 DEF RingOrdered
      <3> QED BY <1>1, <2>1, <2>2, <3>1
    <2>4. CASE b = read
      BY <1>2, <2>4
    <2>5. CASE b # read
      <3>1. Distance(b) > Distance(write)
        BY <2>2, <2>3, <2>5
      <3> QED BY <1>1, <2>3, <3>1 DEF RingOrdered
    <2> QED BY <2>4, <2>5
  <1> QED BY <1>2 DEF ReaderStandsAtTheOldest


-----------------------------------------------------------------------------
(***************************************************************************)
(* The items.                                                              *)
(***************************************************************************)
\* the invariants of the run that are proved here, with what makes them inductive
LoggerInv == ItemsAreConserved /\ RingInv /\ HandsInv

\* all items, place by place, and their number
Places == ToSet(idle) \cup ItemsOf(busy) \cup InHand \cup BeingFilled
Total == Len(idle) + Len(busy) + Cardinality(InHand) + Cardinality(FillingWriters)

\* The items of a queue of lines.
LEMMA ItemsOfQueue ==
    ASSUME NEW s \in Seq(BusyItems)
    PROVE  ItemsOf(s) = {e.item : e \in ToSet(s)}
  BY LenProperties DEF ItemsOf, ToSet

\* The logger thread has no item in hand or one.
LEMMA HandFacts ==
    ASSUME NoItem \notin Items, NEW h \in BusyItems \cup {Nothing}
    PROVE  /\ h = Nothing => {h.item} \ {NoItem} = {} /\ Cardinality({h.item} \ {NoItem}) = 0
           /\ h # Nothing => /\ {h.item} \ {NoItem} = {h.item}
                             /\ Cardinality({h.item} \ {NoItem}) = 1
                             /\ h \in BusyItems /\ h.item \in Items
  <1>1. CASE h = Nothing
    <2>1. {h.item} \ {NoItem} = {}
      BY <1>1 DEF Nothing
    <2> QED BY <1>1, <2>1, FS_EmptySet
  <1>2. CASE h # Nothing
    <2>1. h \in BusyItems /\ h.item \in Items
      BY <1>2 DEF BusyItems
    <2>2. {h.item} \ {NoItem} = {h.item}
      BY <2>1
    <2> QED BY <1>2, <2>1, <2>2, FS_Singleton
  <1> QED BY <1>1, <1>2

\* The writers with an item are as many as a natural number says.
LEMMA FillingIsFinite ==
    ASSUME AsyncLoggerAssumption
    PROVE  IsFiniteSet(FillingWriters) /\ Cardinality(FillingWriters) \in Nat
  <1>1. FillingWriters \subseteq Writers
    BY DEF FillingWriters
  <1> QED BY <1>1, FS_Subset, FS_CardinalityType DEF AsyncLoggerAssumption

\* A writer takes an item.
LEMMA WriterTakes ==
    ASSUME AsyncLoggerAssumption, filling \in [Writers -> Items \cup {NoItem}],
           NEW t \in Writers, NEW x \in Items, filling[t] = NoItem,
           filling' = [filling EXCEPT ![t] = x]
    PROVE  /\ Cardinality(FillingWriters)' = Cardinality(FillingWriters) + 1
           /\ BeingFilled' = BeingFilled \cup {x}
  <1>1. /\ filling'[t] = x /\ x # NoItem
        /\ \A u \in Writers : u # t => filling'[u] = filling[u]
    BY DEF AsyncLoggerAssumption
  <1>2. FillingWriters' = FillingWriters \cup {t} /\ t \notin FillingWriters
    BY <1>1 DEF FillingWriters
  <1>3. Cardinality(FillingWriters)' = Cardinality(FillingWriters')
    OBVIOUS
  <1>4. \A y : y \in BeingFilled' <=> y \in BeingFilled \cup {x}
    BY <1>1 DEF BeingFilled
  <1> QED BY <1>2, <1>3, <1>4, FillingIsFinite, FS_AddElement

\* A writer gives its item away.
LEMMA WriterGives ==
    ASSUME AsyncLoggerAssumption, filling \in [Writers -> Items \cup {NoItem}],
           NEW t \in Writers, filling[t] # NoItem, filling' = [filling EXCEPT ![t] = NoItem]
    PROVE  /\ Cardinality(FillingWriters)' = Cardinality(FillingWriters) - 1
           /\ BeingFilled' \cup {filling[t]} = BeingFilled
  <1>1. /\ filling'[t] = NoItem
        /\ \A u \in Writers : u # t => filling'[u] = filling[u]
    OBVIOUS
  <1>2. FillingWriters' = FillingWriters \ {t} /\ t \in FillingWriters
    BY <1>1 DEF FillingWriters
  <1>3. Cardinality(FillingWriters)' = Cardinality(FillingWriters) - 1
    BY <1>2, FillingIsFinite, FS_RemoveElement
  <1>4. \A y : y \in BeingFilled' \cup {filling[t]} <=> y \in BeingFilled
    BY <1>1 DEF BeingFilled
  <1> QED BY <1>3, <1>4

\* The facts of the invariant that the proofs of the steps use.
LEMMA InvFacts ==
    ASSUME AsyncLoggerAssumption, LoggerInv
    PROVE  /\ TypeOK
           /\ Places = Items /\ Total = Cardinality(Items) /\ Cardinality(Items) \in Nat
           /\ Len(idle) \in Nat /\ Len(busy) \in Nat
           /\ Cardinality(InHand) \in Nat /\ Cardinality(FillingWriters) \in Nat
           /\ IsFiniteSet(FillingWriters)
           /\ RingInv /\ HandsInv
           /\ lines \in Nat /\ tries \in 0 .. MaxLines /\ tries \in Nat /\ MaxLines \in Nat
  <1>1. TypeOK /\ Places = Items /\ Total = Cardinality(Items)
    BY DEF LoggerInv, ItemsAreConserved, Places, Total
  <1>2. Cardinality(Items) \in Nat
    BY FS_CardinalityType DEF AsyncLoggerAssumption
  <1>3. Len(idle) \in Nat /\ Len(busy) \in Nat
    BY <1>1 DEF TypeOK
  <1>4. Cardinality(InHand) \in Nat
    <2>1. inHand \in BusyItems \cup {Nothing} /\ NoItem \notin Items
      BY <1>1 DEF TypeOK, AsyncLoggerAssumption
    <2>2. Cardinality({inHand.item} \ {NoItem}) \in {0, 1}
      BY <2>1, HandFacts
    <2> QED BY <2>2 DEF InHand
  <1>5. IsFiniteSet(FillingWriters) /\ Cardinality(FillingWriters) \in Nat
    BY FillingIsFinite
  <1>6. RingInv /\ HandsInv
    BY DEF LoggerInv
  <1>7. lines \in Nat /\ tries \in 0 .. MaxLines /\ tries \in Nat /\ MaxLines \in Nat
    <2>1. MaxLines \in Nat
      BY DEF AsyncLoggerAssumption
    <2>2. lines \in 0 .. MaxLines /\ tries \in 0 .. MaxLines
      BY <1>1 DEF TypeOK
    <2> QED BY ONLY <2>1, <2>2
  <1> QED BY <1>1, <1>2, <1>3, <1>4, <1>5, <1>6, <1>7

\* A step that moves no item keeps them conserved.
LEMMA NoItemMoves ==
    ASSUME AsyncLoggerAssumption, LoggerInv, UNCHANGED <<queueVars, inHand>>
    PROVE  Places' = Items /\ Total' = Cardinality(Items)
  <1>1. Places = Items /\ Total = Cardinality(Items)
    BY InvFacts
  <1>2. idle' = idle /\ busy' = busy /\ filling' = filling /\ inHand' = inHand
    BY DEF queueVars
  <1> QED BY <1>1, <1>2 DEF Places, Total, ItemsOf, InHand, BeingFilled, FillingWriters, ToSet

\* A step that leaves the ring alone keeps it in order.
LEMMA RingAlone ==
    ASSUME RingInv, UNCHANGED <<config, ring, write, read>>
    PROVE  RingInv'
  BY DEF RingInv, RingOrdered, Distance

\* An invariant of the next state, from its parts.
LEMMA NextInv ==
    ASSUME TypeOK', RingInv', HandsInv', Places' = Items, Total' = Cardinality(Items)
    PROVE  LoggerInv'
  BY DEF LoggerInv, ItemsAreConserved, Places, Total


-----------------------------------------------------------------------------
(***************************************************************************)
(* The steps.                                                              *)
(***************************************************************************)
\* where the logger thread may be
Labels == {"check", "asleep", "pop", "pushBack", "recycle", "flush"}

\* A signal wakes a sleeping logger thread and does not disturb another.
LEMMA SignalFacts ==
    ASSUME pc \in Labels, Signal \/ UNCHANGED pc
    PROVE  /\ pc' \in Labels
           /\ pc' \in {"pushBack", "recycle"} <=> pc \in {"pushBack", "recycle"}
           /\ pc' = "recycle" <=> pc = "recycle"
  BY DEF Signal, Labels

\* A line for the ring.
LEMMA LogToRingStep ==
    ASSUME AsyncLoggerAssumption, LoggerInv, LogToRing
    PROVE  LoggerInv'
  <1>1. /\ TypeOK /\ RingInv /\ HandsInv
        /\ Cardinality(FillingWriters) \in Nat /\ lines \in Nat /\ tries \in Nat /\ MaxLines \in Nat
    BY InvFacts
  <1>2. PICK l \in Lines : WriteToFullRing(l) \/ WriteToSameBuffer(l) \/ WriteToNextBuffer(l)
    BY DEF LogToRing
  <1>3. /\ UNCHANGED <<config, read, queueVars, processVars, output>>
        /\ tries < MaxLines /\ tries' = tries + 1
        /\ lines' \in {lines, lines + 1}
        /\ cut' \subseteq cut \cup {l}
        /\ Signal \/ UNCHANGED pc
    BY <1>2 DEF WriteToFullRing, WriteToSameBuffer, WriteToNextBuffer, WriteLine, DropLine, Try
  <1>4. lines + 1 \in 1 .. MaxLines
    BY <1>1, <1>3 DEF HandsInv
  <1>5. ring' \in [Buffers -> BufferContents] /\ write' \in Buffers /\ RingInv'
    BY <1>1, <1>4, LogToRingKeepsOrder
  <1>6. Places' = Items /\ Total' = Cardinality(Items)
    BY <1>3, NoItemMoves DEF processVars
  <1>7. /\ pc' \in Labels
        /\ pc' \in {"pushBack", "recycle"} <=> pc \in {"pushBack", "recycle"}
        /\ pc' = "recycle" <=> pc = "recycle"
    BY <1>1, <1>3, SignalFacts DEF TypeOK, Labels
  <1>8. TypeOK'
    BY <1>1, <1>3, <1>4, <1>5, <1>7 DEF TypeOK, queueVars, processVars, Labels
  <1>9. HandsInv'
    <2>1. FillingWriters' = FillingWriters
      BY <1>3 DEF queueVars, FillingWriters
    <2>2. lines' + Cardinality(FillingWriters)' <= tries'
      BY <1>1, <1>3, <2>1 DEF HandsInv
    <2> QED BY <1>1, <1>3, <1>7, <2>2 DEF HandsInv, processVars
  <1> QED BY <1>5, <1>6, <1>8, <1>9, NextInv

\* A writer takes an idle item, or finds none.
LEMMA PopIdleItemStep ==
    ASSUME AsyncLoggerAssumption, LoggerInv, NEW t \in Writers, PopIdleItem(t)
    PROVE  LoggerInv'
  <1>1. /\ TypeOK /\ RingInv /\ HandsInv
        /\ Places = Items /\ Total = Cardinality(Items) /\ Cardinality(Items) \in Nat
        /\ Len(idle) \in Nat /\ Len(busy) \in Nat
        /\ Cardinality(InHand) \in Nat /\ Cardinality(FillingWriters) \in Nat
        /\ lines \in Nat /\ tries \in Nat /\ MaxLines \in Nat
    BY InvFacts
  <1>2. /\ UNCHANGED <<config, ringVars, busy, processVars, lines, output>>
        /\ tries < MaxLines /\ tries' = tries + 1 /\ filling[t] = NoItem
    BY DEF PopIdleItem, Try
  <1>3. RingInv'
    BY <1>1, <1>2, RingAlone DEF ringVars
  <1>4. CASE /\ idle # <<>>
             /\ filling' = [filling EXCEPT ![t] = Head(idle)]
             /\ idle' = Tail(idle)
             /\ UNCHANGED pc
    <2>1. /\ Head(idle) \in Items /\ idle' \in Seq(Items) /\ Len(idle') = Len(idle) - 1
          /\ ToSet(idle) = ToSet(idle') \cup {Head(idle)}
      <3>1. idle \in Seq(Items) /\ Len(idle) > 0
        BY <1>1, <1>4 DEF TypeOK
      <3> QED BY <1>4, <3>1, ToSetOfTail
    <2>2. /\ Cardinality(FillingWriters)' = Cardinality(FillingWriters) + 1
          /\ BeingFilled' = BeingFilled \cup {Head(idle)}
      BY <1>1, <1>2, <1>4, <2>1, WriterTakes DEF TypeOK
    <2>3. InHand' = InHand /\ ItemsOf(busy)' = ItemsOf(busy)
      BY <1>2 DEF InHand, ItemsOf, processVars
    <2>4. Places' = Items
      <3>1. ToSet(idle)' = ToSet(idle')
        BY DEF ToSet
      <3> QED BY <1>1, <2>1, <2>2, <2>3, <3>1 DEF Places
    <2>5. Total' = Cardinality(Items)
      <3>1. Total' = Len(idle') + Len(busy') + Cardinality(InHand') + Cardinality(FillingWriters)'
        BY DEF Total
      <3> QED BY <1>1, <1>2, <2>1, <2>2, <2>3, <3>1 DEF Total
    <2>6. TypeOK'
      BY <1>1, <1>2, <1>4, <2>1 DEF TypeOK, ringVars, processVars
    <2>7. HandsInv'
      BY <1>1, <1>2, <1>4, <2>2 DEF HandsInv, processVars
    <2> QED BY <1>3, <2>4, <2>5, <2>6, <2>7, NextInv
  <1>5. CASE idle = <<>> /\ Signal /\ UNCHANGED <<idle, filling>>
    <2>1. Places' = Items /\ Total' = Cardinality(Items)
      BY <1>2, <1>5, NoItemMoves DEF queueVars, processVars
    <2>2. /\ pc' \in Labels
          /\ pc' \in {"pushBack", "recycle"} <=> pc \in {"pushBack", "recycle"}
          /\ pc' = "recycle" <=> pc = "recycle"
      BY <1>1, <1>5, SignalFacts DEF TypeOK, Labels
    <2>3. TypeOK'
      BY <1>1, <1>2, <1>5, <2>2 DEF TypeOK, ringVars, processVars, Labels
    <2>4. HandsInv'
      <3>1. FillingWriters' = FillingWriters
        BY <1>5 DEF FillingWriters
      <3> QED BY <1>1, <1>2, <2>2, <3>1 DEF HandsInv, processVars
    <2> QED BY <1>3, <2>1, <2>3, <2>4, NextInv
  <1> QED BY <1>4, <1>5 DEF PopIdleItem

\* A writer gives its filled item to the queue.
LEMMA PushBusyItemStep ==
    ASSUME AsyncLoggerAssumption, LoggerInv, NEW t \in Writers, NEW l \in Lines, PushBusyItem(t, l)
    PROVE  LoggerInv'
  <1>1. /\ TypeOK /\ RingInv /\ HandsInv
        /\ Places = Items /\ Total = Cardinality(Items) /\ Cardinality(Items) \in Nat
        /\ Len(idle) \in Nat /\ Len(busy) \in Nat
        /\ Cardinality(InHand) \in Nat /\ Cardinality(FillingWriters) \in Nat
        /\ lines \in Nat /\ tries \in 0 .. MaxLines /\ MaxLines \in Nat
    BY InvFacts
  <1> DEFINE x == [item |-> filling[t], line |-> lines + 1, kind |-> l.kind, len |-> l.len]
  <1>2. /\ UNCHANGED <<config, ringVars, idle, pc, processVars, tries, output>>
        /\ filling[t] # NoItem
        /\ lines' = lines + 1
        /\ busy' = Append(busy, x)
        /\ filling' = [filling EXCEPT ![t] = NoItem]
    BY DEF PushBusyItem
  <1>3. /\ Cardinality(FillingWriters)' = Cardinality(FillingWriters) - 1
        /\ BeingFilled' \cup {filling[t]} = BeingFilled
        /\ Cardinality(FillingWriters)' \in Nat
    <2>1. /\ Cardinality(FillingWriters)' = Cardinality(FillingWriters) - 1
          /\ BeingFilled' \cup {filling[t]} = BeingFilled
      BY <1>1, <1>2, WriterGives DEF TypeOK
    <2>2. Cardinality(FillingWriters) # 0
      <3>1. t \in FillingWriters
        BY <1>2 DEF FillingWriters
      <3> QED BY <3>1, FillingIsFinite, FS_EmptySet
    <2> QED BY <1>1, <2>1, <2>2
  <1>4. x \in BusyItems
    <2>1. lines + 1 \in 1 .. MaxLines
      BY <1>1, <1>3 DEF HandsInv
    <2>2. filling[t] \in Items
      BY <1>1, <1>2 DEF TypeOK
    <2>3. l.kind \in Kinds /\ l.len \in Nat
      BY DEF AsyncLoggerAssumption, Kinds
    <2> QED BY <2>1, <2>2, <2>3 DEF BusyItems
  <1> HIDE DEF x
  <1>5. /\ busy' \in Seq(BusyItems) /\ Len(busy') = Len(busy) + 1
        /\ ToSet(busy') = ToSet(busy) \cup {x}
    BY <1>1, <1>2, <1>4, ToSetOfAppend DEF TypeOK
  <1>6. ItemsOf(busy)' = ItemsOf(busy) \cup {filling[t]}
    <2>1. ItemsOf(busy') = {e.item : e \in ToSet(busy) \cup {x}} /\ ItemsOf(busy) = {e.item : e \in ToSet(busy)}
      BY <1>1, <1>5, ItemsOfQueue DEF TypeOK
    <2>2. x.item = filling[t]
      BY DEF x
    <2>3. ItemsOf(busy)' = ItemsOf(busy')
      BY DEF ItemsOf
    <2> QED BY <2>1, <2>2, <2>3
  <1>7. InHand' = InHand /\ ToSet(idle)' = ToSet(idle)
    BY <1>2 DEF InHand, ToSet, processVars
  <1>8. Places' = Items
    BY <1>1, <1>3, <1>6, <1>7 DEF Places
  <1>9. Total' = Cardinality(Items)
    <2>1. Total' = Len(idle') + Len(busy') + Cardinality(InHand') + Cardinality(FillingWriters)'
      BY DEF Total
    <2> QED BY <1>1, <1>2, <1>3, <1>5, <1>7, <2>1 DEF Total
  <1>10. TypeOK'
    <2>1. lines' \in 0 .. MaxLines
      BY <1>1, <1>2, <1>3 DEF HandsInv
    <2> QED BY <1>1, <1>2, <1>5, <2>1 DEF TypeOK, ringVars, processVars
  <1>11. HandsInv'
    BY <1>1, <1>2, <1>3 DEF HandsInv, processVars
  <1>12. RingInv'
    BY <1>1, <1>2, RingAlone DEF ringVars
  <1> QED BY <1>8, <1>9, <1>10, <1>11, <1>12, NextInv


\* The steps of the logger thread that move no item.
LEMMA ThreadStep ==
    ASSUME AsyncLoggerAssumption, LoggerInv,
           Sleep \/ TimeOut \/ WriteReadBuffer \/ ProcessLogQueue \/ LoggerOutputLog
    PROVE  LoggerInv'
  <1>1. /\ TypeOK /\ RingInv /\ HandsInv /\ MaxLines \in Nat
    BY InvFacts DEF LoggerInv, AsyncLoggerAssumption
  <1>2. UNCHANGED <<config, write, cut, queueVars, inHand, lines, tries>>
    BY DEF Sleep, TimeOut, WriteReadBuffer, ProcessLogQueue, LoggerOutputLog, ringVars, processVars
  <1>3. Places' = Items /\ Total' = Cardinality(Items)
    BY <1>2, NoItemMoves
  <1>4. /\ ring' \in [Buffers -> BufferContents] /\ read' \in Buffers
        /\ RingInv'
    <2>1. CASE WriteReadBuffer
      BY <1>1, <2>1, WriteReadBufferKeepsOrder
    <2>2. CASE Sleep \/ TimeOut \/ ProcessLogQueue \/ LoggerOutputLog
      <3>1. UNCHANGED <<config, ring, write, read>>
        BY <2>2 DEF Sleep, TimeOut, ProcessLogQueue, LoggerOutputLog, ringVars
      <3> QED BY <1>1, <3>1, RingAlone DEF TypeOK
    <2> QED BY <2>1, <2>2
  <1>5. /\ pc \notin {"pushBack", "recycle"} /\ pc' \in Labels \ {"pushBack", "recycle"}
        /\ count' \in Nat /\ logBuff' \in [lines : Seq(1 .. MaxLines), offset : Nat]
        /\ output' \in Seq(1 .. MaxLines)
    <2>1. CASE Sleep \/ TimeOut
      BY <1>1, <2>1 DEF Sleep, TimeOut, TypeOK, processVars, Labels
    <2>2. CASE WriteReadBuffer
      <3>1. ring[read].lines \in Seq(1 .. MaxLines) /\ output \in Seq(1 .. MaxLines)
        BY <1>1 DEF TypeOK, BufferContents
      <3>2. output \o ring[read].lines \in Seq(1 .. MaxLines)
        BY <3>1, ConcatProperties
      <3> QED BY <1>1, <2>2, <3>2 DEF WriteReadBuffer, TypeOK, processVars, Labels
    <2>3. CASE ProcessLogQueue
      <3>1. Len(busy) \in Nat
        BY <1>1 DEF TypeOK
      <3> QED BY <1>1, <2>3, <3>1 DEF ProcessLogQueue, TypeOK, Labels
    <2>4. CASE LoggerOutputLog
      <3>1. logBuff.lines \in Seq(1 .. MaxLines) /\ output \in Seq(1 .. MaxLines)
        BY <1>1 DEF TypeOK
      <3>2. output \o logBuff.lines \in Seq(1 .. MaxLines)
        BY <3>1, ConcatProperties
      <3>3. EmptyLogBuff \in [lines : Seq(1 .. MaxLines), offset : Nat]
        BY DEF EmptyLogBuff
      <3> QED BY <2>4, <3>2, <3>3 DEF LoggerOutputLog, Labels
    <2> QED BY <2>1, <2>2, <2>3, <2>4
  <1>6. TypeOK'
    BY <1>1, <1>2, <1>4, <1>5 DEF TypeOK, queueVars, Labels
  <1>7. HandsInv'
    <2>1. FillingWriters' = FillingWriters
      BY <1>2 DEF queueVars, FillingWriters
    <2> QED BY <1>1, <1>2, <1>5, <2>1 DEF HandsInv, Labels
  <1> QED BY <1>3, <1>4, <1>6, <1>7, NextInv

\* The steps of the logger thread that move an item leave all else alone.
LEMMA ItemStepFacts ==
    ASSUME AsyncLoggerAssumption, LoggerInv, PopBusyItem \/ PushBack \/ RecycleItem
    PROVE  /\ UNCHANGED <<config, ringVars, filling, lines, tries, output>>
           /\ RingInv'
           /\ BeingFilled' = BeingFilled /\ FillingWriters' = FillingWriters
           /\ InHand' = {inHand'.item} \ {NoItem}
           /\ ToSet(idle)' = ToSet(idle') /\ ItemsOf(busy)' = ItemsOf(busy')
           /\ Total' = Len(idle') + Len(busy') + Cardinality(InHand') + Cardinality(FillingWriters')
  <1>1. UNCHANGED <<config, ringVars, filling, lines, tries, output>>
    BY DEF PopBusyItem, PushBack, RecycleItem
  <1>2. RingInv'
    BY <1>1, RingAlone DEF ringVars, LoggerInv
  <1>3. BeingFilled' = BeingFilled /\ FillingWriters' = FillingWriters
    BY <1>1 DEF BeingFilled, FillingWriters
  <1> QED BY <1>1, <1>2, <1>3 DEF InHand, ToSet, ItemsOf, Total

\* The logger thread takes a busy item in hand.
LEMMA PopBusyItemStep ==
    ASSUME AsyncLoggerAssumption, LoggerInv, PopBusyItem
    PROVE  LoggerInv'
  <1>1. /\ TypeOK /\ RingInv /\ HandsInv /\ NoItem \notin Items
        /\ Places = Items /\ Total = Cardinality(Items) /\ Cardinality(Items) \in Nat
        /\ Len(idle) \in Nat /\ Len(busy) \in Nat
        /\ Cardinality(InHand) \in Nat /\ Cardinality(FillingWriters) \in Nat
    BY InvFacts DEF LoggerInv, AsyncLoggerAssumption
  <1> DEFINE i == Head(busy)
  <1>2. /\ pc = "pop" /\ count > 0 /\ busy # <<>>
        /\ \/ pc' = "pushBack" /\ UNCHANGED logBuff
           \/ pc' = "recycle" /\ logBuff' = WithItem(logBuff, i)
        /\ inHand' = i /\ busy' = Tail(busy)
        /\ UNCHANGED <<idle, count>>
    BY DEF PopBusyItem
  <1>3. /\ i \in BusyItems /\ busy' \in Seq(BusyItems) /\ Len(busy') = Len(busy) - 1
        /\ ToSet(busy) = ToSet(busy') \cup {i}
    <2>1. busy \in Seq(BusyItems) /\ Len(busy) > 0
      BY <1>1, <1>2 DEF TypeOK
    <2> QED BY <1>2, <2>1, ToSetOfTail
  <1> HIDE DEF i
  <1>4. inHand = Nothing /\ InHand = {} /\ Cardinality(InHand) = 0
    <2>1. inHand = Nothing
      BY <1>1, <1>2 DEF HandsInv
    <2> QED BY <1>1, <2>1, HandFacts DEF InHand
  <1>5. i # Nothing /\ {i.item} \ {NoItem} = {i.item} /\ Cardinality({i.item} \ {NoItem}) = 1
    <2>1. i # Nothing
      BY <1>1, <1>3 DEF BusyItems, Nothing
    <2> QED BY <1>1, <1>3, <2>1, HandFacts
  <1>6. InHand' = {i.item} /\ Cardinality(InHand') = 1
    BY <1>2, <1>5, ItemStepFacts
  <1>7. ItemsOf(busy) = ItemsOf(busy') \cup {i.item}
    BY <1>1, <1>3, ItemsOfQueue DEF TypeOK
  <1>8. Places' = Items
    BY <1>1, <1>2, <1>4, <1>6, <1>7, ItemStepFacts DEF Places
  <1>9. Total' = Cardinality(Items)
    BY <1>1, <1>2, <1>3, <1>4, <1>6, ItemStepFacts DEF Total
  <1>10. TypeOK'
    <2>1. logBuff' \in [lines : Seq(1 .. MaxLines), offset : Nat]
      <3>1. logBuff.lines \in Seq(1 .. MaxLines) /\ logBuff.offset \in Nat
            /\ i.line \in 1 .. MaxLines /\ i.len \in Nat
        BY <1>1, <1>3 DEF TypeOK, BusyItems
      <3>2. Append(logBuff.lines, i.line) \in Seq(1 .. MaxLines) /\ logBuff.offset + i.len \in Nat
        BY <3>1
      <3>3. WithItem(logBuff, i) \in [lines : Seq(1 .. MaxLines), offset : Nat]
        BY <3>2 DEF WithItem
      <3> QED BY <1>1, <1>2, <3>3 DEF TypeOK
    <2>2. UNCHANGED <<config, ring, write, read, cut, filling, lines, tries, output>>
      BY ItemStepFacts DEF ringVars
    <2> QED BY <1>1, <1>2, <1>3, <2>1, <2>2 DEF TypeOK
  <1>11. HandsInv'
    <2>1. lines' = lines /\ tries' = tries /\ FillingWriters' = FillingWriters
      BY ItemStepFacts
    <2> QED BY <1>1, <1>2, <1>5, <2>1 DEF HandsInv
  <1> QED BY <1>8, <1>9, <1>10, <1>11, ItemStepFacts, NextInv


\* The item in hand goes back to the head of the queue, or to the idle ones.
LEMMA GiveBackStep ==
    ASSUME AsyncLoggerAssumption, LoggerInv, PushBack \/ RecycleItem
    PROVE  LoggerInv'
  <1>1. /\ TypeOK /\ RingInv /\ HandsInv /\ NoItem \notin Items
        /\ Places = Items /\ Total = Cardinality(Items) /\ Cardinality(Items) \in Nat
        /\ Len(idle) \in Nat /\ Len(busy) \in Nat
        /\ Cardinality(InHand) \in Nat /\ Cardinality(FillingWriters) \in Nat
    BY InvFacts DEF LoggerInv, AsyncLoggerAssumption
  <1>2. /\ inHand # Nothing /\ inHand \in BusyItems /\ inHand.item \in Items
        /\ InHand = {inHand.item} /\ Cardinality(InHand) = 1
    <2>1. inHand # Nothing
      BY <1>1 DEF HandsInv, PushBack, RecycleItem
    <2> QED BY <1>1, <2>1, HandFacts DEF InHand, TypeOK
  <1>3. inHand' = Nothing /\ InHand' = {} /\ Cardinality(InHand') = 0
    <2>1. inHand' = Nothing
      BY DEF PushBack, RecycleItem
    <2> QED BY <1>1, <2>1, HandFacts, ItemStepFacts
  <1>4. UNCHANGED <<config, ring, write, read, cut, filling, lines, tries, output, logBuff>>
    BY ItemStepFacts DEF ringVars, PushBack, RecycleItem
  <1>5. CASE PushBack
    <2>1. /\ busy' = <<inHand>> \o busy /\ pc' = "flush" /\ UNCHANGED <<idle, count>>
      BY <1>5 DEF PushBack
    <2>2. /\ busy' \in Seq(BusyItems) /\ Len(busy') = Len(busy) + 1
          /\ ToSet(busy') = ToSet(busy) \cup {inHand}
      BY <1>1, <1>2, <2>1, ToSetOfCons DEF TypeOK
    <2>3. ItemsOf(busy') = ItemsOf(busy) \cup {inHand.item}
      BY <1>1, <2>2, ItemsOfQueue DEF TypeOK
    <2>4. Places' = Items
      BY <1>1, <1>2, <1>3, <2>1, <2>3, ItemStepFacts DEF Places
    <2>5. Total' = Cardinality(Items)
      BY <1>1, <1>2, <1>3, <2>1, <2>2, ItemStepFacts DEF Total
    <2>6. TypeOK'
      BY <1>1, <1>3, <1>4, <2>1, <2>2 DEF TypeOK
    <2>7. HandsInv'
      <3>1. FillingWriters' = FillingWriters
        BY ItemStepFacts
      <3> QED BY <1>1, <1>3, <1>4, <2>1, <3>1 DEF HandsInv
    <2> QED BY <2>4, <2>5, <2>6, <2>7, ItemStepFacts, NextInv
  <1>6. CASE RecycleItem
    <2>1. /\ idle' = Append(idle, inHand.item) /\ UNCHANGED busy
          /\ pc = "recycle" /\ pc' \in {"flush", "pop"} /\ count' = count - 1
      BY <1>6 DEF RecycleItem
    <2>2. /\ idle' \in Seq(Items) /\ Len(idle') = Len(idle) + 1
          /\ ToSet(idle') = ToSet(idle) \cup {inHand.item}
      BY <1>1, <1>2, <2>1, ToSetOfAppend DEF TypeOK
    <2>3. count' \in Nat
      BY <1>1, <2>1 DEF HandsInv, TypeOK
    <2>4. Places' = Items
      BY <1>1, <1>2, <1>3, <2>1, <2>2, ItemStepFacts DEF Places
    <2>5. Total' = Cardinality(Items)
      BY <1>1, <1>2, <1>3, <2>1, <2>2, ItemStepFacts DEF Total
    <2>6. TypeOK'
      BY <1>1, <1>3, <1>4, <2>1, <2>2, <2>3 DEF TypeOK
    <2>7. HandsInv'
      <3>1. FillingWriters' = FillingWriters
        BY ItemStepFacts
      <3> QED BY <1>1, <1>3, <1>4, <2>1, <3>1 DEF HandsInv
    <2> QED BY <2>4, <2>5, <2>6, <2>7, ItemStepFacts, NextInv
  <1> QED BY <1>5, <1>6

-----------------------------------------------------------------------------
\* A logger that starts has all its items idle and an empty ring.
LEMMA InitLoggerInv ==
    ASSUME Init
    PROVE  LoggerInv
  <1>1. /\ MAX_NUM_LOG_BUFFER_BLOCK \in Nat \ {0} /\ MaxLines \in Nat
        /\ Configs \subseteq [logType : {1, 2}, size : Nat, timed : BOOLEAN]
        /\ NoItem \notin Items /\ IsFiniteSet(Items) /\ Cardinality(Items) \in Nat
    BY AsyncLoggerAssumption, FS_CardinalityType DEF AsyncLoggerAssumption
  <1>2. /\ config \in Configs /\ ring = [b \in Buffers |-> EmptyBuffer]
        /\ write = 0 /\ read = 0 /\ cut = {} /\ busy = <<>>
        /\ filling = [t \in Writers |-> NoItem] /\ pc = "check"
        /\ count = 0 /\ logBuff = EmptyLogBuff /\ inHand = Nothing
        /\ lines = 0 /\ tries = 0 /\ output = <<>> /\ idle = SetToSeq(Items)
    BY DEF Init
  <1>3. idle \in Seq(Items) /\ Len(idle) = Cardinality(Items) /\ ToSet(idle) = Items
    BY <1>1, <1>2, SetToSeqFacts
  <1>4. 0 \in Buffers
    BY <1>1 DEF Buffers
  <1>5. \A S : <<>> \in Seq(S) /\ Len(<<>>) = 0
    OBVIOUS
  <1>6. EmptyBuffer \in BufferContents /\ EmptyLogBuff \in [lines : Seq(1 .. MaxLines), offset : Nat]
    BY DEF EmptyBuffer, BufferContents, EmptyLogBuff
  <1>7. TypeOK
    BY <1>1, <1>2, <1>3, <1>4, <1>5, <1>6 DEF TypeOK
  <1>8. RingInv
    <2>1. /\ ~EmptyBuffer.full /\ EmptyBuffer.length = 0 /\ config.size \in Nat
          /\ \A b \in Buffers : ring[b] = EmptyBuffer
      BY <1>1, <1>2 DEF EmptyBuffer
    <2>2. Distance(0) = 0 /\ \A b \in Buffers : Distance(b) \in Nat
      BY <1>1, <1>2 DEF Distance, Buffers
    <2>3. RingOrdered(ring, 0)
      BY <1>4, <2>1, <2>2 DEF RingOrdered
    <2> QED BY <1>2, <2>3 DEF RingInv
  <1>9. FillingWriters = {} /\ BeingFilled = {} /\ InHand = {} /\ ItemsOf(busy) = {}
    BY <1>2 DEF FillingWriters, BeingFilled, InHand, ItemsOf, Nothing
  <1>10. Cardinality({}) = 0
    BY FS_EmptySet
  <1>11. Places = Items /\ Total = Cardinality(Items)
    BY <1>1, <1>2, <1>3, <1>5, <1>9, <1>10 DEF Places, Total
  <1>12. HandsInv
    BY <1>2, <1>9, <1>10 DEF HandsInv
  <1> QED BY <1>7, <1>8, <1>11, <1>12 DEF LoggerInv, ItemsAreConserved, Places, Total

\* The invariant of the ring and that of the items hold in every behaviour.
THEOREM LoggerInvariant == Spec => []LoggerInv
  <1>1. Init => LoggerInv
    BY InitLoggerInv
  <1>2. LoggerInv /\ [Next]_vars => LoggerInv'
    <2> SUFFICES ASSUME LoggerInv, [Next]_vars PROVE LoggerInv'
      OBVIOUS
    <2> USE AsyncLoggerAssumption
    <2>1. CASE LogToRing
      BY <2>1, LogToRingStep
    <2>2. CASE \E t \in Writers : Log(t)
      BY <2>2, PopIdleItemStep, PushBusyItemStep DEF Log
    <2>3. CASE LoggerThread
      BY <2>3, ThreadStep, PopBusyItemStep, GiveBackStep DEF LoggerThread
    <2>4. ASSUME UNCHANGED vars PROVE LoggerInv'
      <3>1. UNCHANGED <<config, ring, write, read, cut, queueVars, inHand, pc, count, logBuff,
                        lines, tries, output>>
        BY <2>4 DEF vars, ringVars, processVars
      <3>2. TypeOK /\ RingInv /\ HandsInv
        BY DEF LoggerInv, ItemsAreConserved
      <3>3. Places' = Items /\ Total' = Cardinality(Items)
        BY <3>1, NoItemMoves
      <3>4. TypeOK'
        BY <3>1, <3>2 DEF TypeOK, queueVars
      <3>5. RingInv'
        BY <3>1, <3>2, RingAlone
      <3>6. HandsInv'
        BY <3>1, <3>2 DEF HandsInv, FillingWriters, queueVars
      <3> QED BY <3>3, <3>4, <3>5, <3>6, NextInv
    <2> QED BY <2>1, <2>2, <2>3, <2>4 DEF Next, Done
  <1> QED BY <1>1, <1>2, PTL DEF Spec

\* Every LogInfo item is in one queue, with one writer or with the logger thread, for any
\* number of items, writers and lines (gIdleLogInfoQueue, gBusyLogInfoQueue).
THEOREM ItemsAreNeverLost == Spec => []ItemsAreConserved
  BY LoggerInvariant, PTL DEF LoggerInv

\* The logger thread, which looks only at the reader's buffer, finds text there whenever
\* there is any, for any number and size of buffers (gpReadBuffer, gpWriteBuffer).
THEOREM NoTextIsOverlooked == Spec => []ReaderStandsAtTheOldest
  <1>1. LoggerInv => ReaderStandsAtTheOldest
    BY OrderedRingIsSeen, AsyncLoggerAssumption DEF LoggerInv, ItemsAreConserved
  <1> QED BY <1>1, LoggerInvariant, PTL

-----------------------------------------------------------------------------
(***************************************************************************)
(* The lines, in the order they were accepted.                             *)
(***************************************************************************)
RingLines(r) == [i \in 1 .. N |-> r[(read + i - 1) % N].lines]
LinesOf(items) == [i \in 1 .. Len(items) |-> items[i].line]
PushedBack == IF pc = "pushBack" THEN <<inHand.line>> ELSE <<>>

\* Buffers that are not full are empty, except the writer's.
Quiet(r, w) == \A b \in Buffers : ~r[b].full /\ b # w => r[b].lines = <<>>

\* The lines are in the ring or in the queue, as the log type says.
OneWay ==
    /\ config.logType = 1 =>
          /\ busy = <<>> /\ logBuff.lines = <<>> /\ pc \in {"check", "asleep"}
          /\ \A t \in Writers : filling[t] = NoItem
    /\ config.logType = 2 => \A b \in Buffers : ring[b].lines = <<>>

OrderInv == Quiet(ring, write) /\ OneWay /\ EachLineOnceInOrder

\* The same in the operators of the proofs.
LEMMA LinesAre ==
    /\ LinesInRing = FlattenSeq(RingLines(ring))
    /\ LinesInQueue = (logBuff.lines \o PushedBack) \o LinesOf(busy)
  BY DEF LinesInRing, LinesInQueue, RingLines, LinesOf, PushedBack, N

\* The i-th buffer from the reader's on.
LEMMA PlaceFacts ==
    ASSUME AsyncLoggerAssumption, read \in Buffers, NEW i \in 1 .. N
    PROVE  (read + i - 1) % N \in Buffers /\ Distance((read + i - 1) % N) = i - 1
  <1>1. N \in Nat \ {0} /\ read \in 0 .. N - 1 /\ Buffers = 0 .. N - 1
    BY DEF AsyncLoggerAssumption, N, Buffers
  <1>2. \A x \in 0 .. N - 1 : x % N = x
    BY <1>1
  <1>3. \A x \in 0 .. N - 1 : (x + N) % N = x
    BY <1>1
  <1>4. \A c : Distance(c) = IF c >= read THEN c - read ELSE c - read + N
    BY DEF Distance, N
  <1>5. CASE read + i - 1 < N
    <2>1. read + i - 1 \in 0 .. N - 1
      BY <1>1, <1>5
    <2>2. (read + i - 1) % N = read + i - 1
      BY <1>2, <2>1
    <2> QED BY <1>1, <1>4, <2>1, <2>2
  <1>6. CASE ~(read + i - 1 < N)
    <2> DEFINE x == read + i - 1 - N
    <2>1. x \in 0 .. N - 1 /\ x + N = read + i - 1 /\ x < read
      BY <1>1, <1>6
    <2>2. (read + i - 1) % N = x
      BY <1>3, <2>1
    <2> QED BY <1>1, <1>4, <2>1, <2>2
  <1> QED BY <1>5, <1>6

\* The place of a buffer is its distance and one.
LEMMA PlaceOf ==
    ASSUME AsyncLoggerAssumption, read \in Buffers, NEW b \in Buffers
    PROVE  Distance(b) + 1 \in 1 .. N /\ (read + (Distance(b) + 1) - 1) % N = b
  <1>1. N \in Nat \ {0} /\ Distance(b) \in 0 .. N - 1
    BY DistanceFacts DEF AsyncLoggerAssumption, N
  <1> DEFINE i == Distance(b) + 1
             c == (read + i - 1) % N
  <1>2. i \in 1 .. N /\ i - 1 = Distance(b)
    BY <1>1
  <1> HIDE DEF i
  <1>3. c \in Buffers /\ Distance(c) = Distance(b)
    BY <1>2, PlaceFacts
  <1> HIDE DEF c
  <1>4. b = c
    BY <1>3, DistanceFacts
  <1> QED BY <1>2, <1>4 DEF i, c

\* The lines of the buffers are sequences of numbers.
LEMMA RingLinesType ==
    ASSUME AsyncLoggerAssumption, read \in Buffers, NEW r \in [Buffers -> BufferContents]
    PROVE  /\ RingLines(r) \in [1 .. N -> Seq(Nat)] /\ N \in Nat \ {0}
           /\ \A b \in Buffers : r[b].lines \in Seq(Nat)
  <1>1. N \in Nat \ {0} /\ MaxLines \in Nat
    BY DEF AsyncLoggerAssumption, N
  <1>2. Seq(1 .. MaxLines) \subseteq Seq(Nat)
    BY <1>1
  <1>3. \A b \in Buffers : r[b].lines \in Seq(Nat)
    BY <1>2 DEF BufferContents
  <1>4. \A i \in 1 .. N : (read + i - 1) % N \in Buffers
    BY PlaceFacts
  <1> QED BY <1>1, <1>3, <1>4 DEF RingLines

\* The ring q is the ring r with the line x added to the buffer b, and the buffers behind
\* b are empty.
AddedLast(q, r, b, x) ==
    /\ q[b].lines = Append(r[b].lines, x)
    /\ \A c \in Buffers : c # b => q[c].lines = r[c].lines
    /\ \A c \in Buffers : Distance(c) > Distance(b) => r[c].lines = <<>>

\* A line added to a buffer behind which all are empty is the last one in the ring.
LEMMA LineIsLast ==
    ASSUME AsyncLoggerAssumption, read \in Buffers, NEW r \in [Buffers -> BufferContents],
           NEW q \in [Buffers -> BufferContents], NEW b \in Buffers, NEW x \in Nat,
           AddedLast(q, r, b, x)
    PROVE  FlattenSeq(RingLines(q)) = Append(FlattenSeq(RingLines(r)), x)
  <1> USE DEF AddedLast
  <1> DEFINE s == RingLines(r)
             t == RingLines(q)
             k == Distance(b) + 1
  <1>1. s \in [1 .. N -> Seq(Nat)] /\ t \in [1 .. N -> Seq(Nat)] /\ N \in Nat \ {0}
    BY RingLinesType
  <1>2. Distance(b) \in 0 .. N - 1
    BY DistanceFacts
  <1>3. k \in 1 .. N /\ (read + k - 1) % N = b
    BY PlaceOf
  <1>4. s[k] = r[b].lines /\ t[k] = q[b].lines
    BY <1>3 DEF RingLines
  <1>5. \A i \in 1 .. N : i # k => t[i] = s[i]
    <2> SUFFICES ASSUME NEW i \in 1 .. N, i # k PROVE t[i] = s[i]
      OBVIOUS
    <2> DEFINE c == (read + i - 1) % N
    <2>1. c \in Buffers /\ Distance(c) = i - 1
      BY PlaceFacts
    <2>2. s[i] = r[c].lines /\ t[i] = q[c].lines
      BY DEF RingLines
    <2> HIDE DEF c, s, t
    <2>3. c # b
      BY <1>2, <2>1
    <2> QED BY <2>1, <2>2, <2>3
  <1>6. \A i \in k + 1 .. N : s[i] = <<>>
    <2> SUFFICES ASSUME NEW i \in k + 1 .. N PROVE s[i] = <<>>
      OBVIOUS
    <2> DEFINE c == (read + i - 1) % N
    <2>1. i \in 1 .. N /\ i - 1 > Distance(b)
      BY <1>1, <1>2
    <2>2. c \in Buffers /\ Distance(c) = i - 1
      BY <2>1, PlaceFacts
    <2>3. s[i] = r[c].lines
      BY <2>1 DEF RingLines
    <2> HIDE DEF c, s
    <2> QED BY <2>1, <2>2, <2>3
  <1> HIDE DEF s, t, k
  <1>7. AppendsTo(t, s, N, k, x)
    BY <1>1, <1>3, <1>4, <1>5, <1>6 DEF AppendsTo, RestIsEmpty
  <1> HIDE DEF AddedLast
  <1>8. FlattenSeq(t) = Append(FlattenSeq(s), x)
    BY ONLY <1>7, FlattenAppend
  <1> QED BY <1>8 DEF s, t

\* What the reader writes out are the first lines of the ring, whether its buffer is full
\* and the ring moves on, or not and it stays: then there are no others.
LEMMA FirstLinesGo ==
    ASSUME AsyncLoggerAssumption, TypeOK, RingInv, Quiet(ring, write), WriteReadBuffer
    PROVE  /\ ring[read].lines \in Seq(Nat)
           /\ LinesInRing \in Seq(Nat) /\ LinesInRing' \in Seq(Nat)
           /\ LinesInRing = ring[read].lines \o LinesInRing'
  <1> DEFINE s == RingLines(ring)
             t == [i \in 1 .. N |-> ring'[(read' + i - 1) % N].lines]
  <1>1. /\ read \in Buffers /\ write \in Buffers /\ ring \in [Buffers -> BufferContents]
        /\ RingOrdered(ring, write) /\ N \in Nat \ {0}
    BY DEF TypeOK, RingInv, AsyncLoggerAssumption, N
  <1>2. read' \in Buffers /\ ring' \in [Buffers -> BufferContents]
    BY WriteReadBufferKeepsOrder
  <1>3. /\ ring' = [ring EXCEPT ![read] = EmptyBuffer]
        /\ read' = IF ring[read].full THEN NextBuffer(read) ELSE read
    BY DEF WriteReadBuffer
  <1>4. /\ ring'[read].lines = <<>>
        /\ \A c \in Buffers : c # read => ring'[c] = ring[c]
    BY <1>1, <1>3 DEF EmptyBuffer
  <1>5. s \in [1 .. N -> Seq(Nat)] /\ ring[read].lines \in Seq(Nat)
    BY <1>1, RingLinesType
  <1>6. LinesInRing = FlattenSeq(s) /\ LinesInRing' = FlattenSeq(t)
    BY LinesAre DEF LinesInRing, N
  <1>7. /\ \A i \in 1 .. N : (read + i - 1) % N \in Buffers /\ Distance((read + i - 1) % N) = i - 1
        /\ \A c \in Buffers : Distance(c) \in 0 .. N - 1 /\ (Distance(c) = 0 <=> c = read)
    BY <1>1, PlaceFacts, DistanceFacts
  <1>8. \A i \in 1 .. N : s[i] = ring[(read + i - 1) % N].lines /\ t[i] = ring'[(read' + i - 1) % N].lines
    BY DEF RingLines
  <1>9. s[1] = ring[read].lines
    <2>1. 1 \in 1 .. N /\ 1 - 1 = 0
      BY <1>1
    <2>2. (read + 1 - 1) % N = read
      BY <1>7, <2>1
    <2> QED BY <1>8, <2>1, <2>2
  <1>10. CASE ~ring[read].full
    <2>1. read' = read
      BY <1>3, <1>10
    <2>2. read = write /\ \A c \in Buffers : c # read => ring[c].lines = <<>>
      <3>1. ~(Distance(read) < Distance(write)) /\ Distance(read) = 0 /\ Distance(write) \in 0 .. N - 1
        BY <1>1, <1>7, <1>10 DEF RingOrdered
      <3>2. read = write
        BY <1>1, <1>7, <3>1
      <3>3. \A c \in Buffers : Distance(c) > Distance(write) => ~ring[c].full
        BY <1>1, <1>10, <3>2 DEF RingOrdered
      <3>4. \A c \in Buffers : c # read => ~ring[c].full
        BY <1>1, <1>7, <3>2, <3>3
      <3> QED BY <3>2, <3>4 DEF Quiet
    <2>3. \A i \in 2 .. N : s[i] = <<>>
      <3> SUFFICES ASSUME NEW i \in 2 .. N PROVE s[i] = <<>>
        OBVIOUS
      <3> DEFINE c == (read + i - 1) % N
      <3>1. i \in 1 .. N /\ i - 1 # 0
        BY <1>1
      <3>2. c \in Buffers /\ Distance(c) = i - 1 /\ s[i] = ring[c].lines
        BY <1>7, <1>8, <3>1
      <3> HIDE DEF c, s
      <3>3. c # read
        BY <1>7, <3>1, <3>2
      <3> QED BY <2>2, <3>2, <3>3
    <2>4. t \in [1 .. N -> Seq(Nat)] /\ t[1] = <<>> /\ \A i \in 2 .. N : t[i] = <<>>
      <3>1. \A c \in Buffers : ring'[c].lines = <<>>
        BY <1>4, <2>2
      <3>2. \A i \in 1 .. N : t[i] = <<>>
        BY <1>7, <1>8, <2>1, <3>1
      <3>3. t = [i \in 1 .. N |-> t[i]]
        OBVIOUS
      <3> HIDE DEF t
      <3>4. 1 \in 1 .. N /\ \A i \in 2 .. N : i \in 1 .. N
        BY <1>1
      <3>5. \A i \in 1 .. N : t[i] \in Seq(Nat)
        <4>1. <<>> \in Seq(Nat)
          OBVIOUS
        <4> QED BY <3>2, <4>1, ZenonT(40)
      <3>6. t \in [1 .. N -> Seq(Nat)]
        BY <3>3, <3>5
      <3> QED BY <3>2, <3>4, <3>6
    <2> HIDE DEF s, t
    <2>5. FlattenSeq(s) = s[1]
      BY <1>1, <1>5, <2>3, FlattenOne
    <2>6. FlattenSeq(t) = <<>>
      <3>1. FlattenSeq(t) = t[1]
        BY <1>1, <2>4, FlattenOne
      <3> QED BY <2>4, <3>1
    <2> QED BY <1>5, <1>6, <1>9, <2>5, <2>6, ConcatFacts
  <1>11. CASE ring[read].full
    <2>1. read' = NextBuffer(read) /\ read' = IF read = N - 1 THEN 0 ELSE read + 1
      BY <1>1, <1>3, <1>11, NextBufferIs
    <2>2. ASSUME NEW i \in 1 .. N
          PROVE  (read' + i - 1) % N = IF i = N THEN read ELSE (read + (i + 1) - 1) % N
      <3>1. /\ read \in 0 .. N - 1 /\ \A x \in 0 .. N - 1 : x % N = x /\ (x + N) % N = x
        BY <1>1 DEF Buffers, N
      <3>2. CASE read = N - 1
        <4>1. read' + i - 1 = i - 1 /\ i - 1 \in 0 .. N - 1
          BY <1>1, <2>1, <3>2
        <4>2. (read' + i - 1) % N = i - 1
          BY <3>1, <4>1
        <4>3. i # N => (read + (i + 1) - 1) = i - 1 + N
          BY <1>1, <3>2
        <4>4. i # N => (read + (i + 1) - 1) % N = i - 1
          BY <3>1, <4>1, <4>3
        <4> QED BY <1>1, <3>2, <4>2, <4>4
      <3>3. CASE read # N - 1
        <4>1. read' + i - 1 = read + (i + 1) - 1
          BY <1>1, <2>1, <3>1, <3>3
        <4>2. i = N => read' + i - 1 = read + N
          BY <1>1, <2>1, <3>1, <3>3
        <4>3. i = N => (read' + i - 1) % N = read
          BY <3>1, <4>2
        <4> QED BY <4>1, <4>3
      <3> QED BY <3>2, <3>3
    <2>3. t[N] = <<>>
      <3>1. N \in 1 .. N
        BY <1>1
      <3>2. (read' + N - 1) % N = read
        BY <2>2, <3>1
      <3> QED BY <1>4, <1>8, <3>1, <3>2
    <2>4. \A i \in 1 .. N - 1 : t[i] = s[i + 1]
      <3> SUFFICES ASSUME NEW i \in 1 .. N - 1 PROVE t[i] = s[i + 1]
        OBVIOUS
      <3> DEFINE c == (read + (i + 1) - 1) % N
      <3>1. i \in 1 .. N /\ i # N /\ i + 1 \in 1 .. N /\ (i + 1) - 1 # 0
        BY <1>1
      <3>2. c \in Buffers /\ Distance(c) = (i + 1) - 1 /\ s[i + 1] = ring[c].lines
        BY <1>7, <1>8, <3>1
      <3>3. t[i] = ring'[c].lines
        BY <1>8, <2>2, <3>1
      <3> HIDE DEF c, s, t
      <3>4. c # read
        BY <1>7, <3>1, <3>2
      <3> QED BY <1>4, <3>2, <3>3, <3>4
    <2>5. t \in [1 .. N -> Seq(Nat)]
      <3>1. \A c \in Buffers : ring'[c].lines \in Seq(Nat)
        BY <1>2, <1>1, RingLinesType
      <3>2. \A i \in 1 .. N : (read' + i - 1) % N \in Buffers
        <4> SUFFICES ASSUME NEW i \in 1 .. N PROVE (read' + i - 1) % N \in Buffers
          OBVIOUS
        <4>1. i # N => i + 1 \in 1 .. N
          BY <1>1
        <4> QED BY <1>1, <1>7, <2>2, <4>1
      <3> QED BY <3>1, <3>2
    <2> HIDE DEF s, t
    <2>6. Shifted(t, s, N)
      BY <1>1, <1>5, <2>3, <2>4, <2>5 DEF Shifted
    <2>7. FlattenSeq(s) = s[1] \o FlattenSeq(t)
      BY ONLY <2>6, FlattenShift
    <2>8. FlattenSeq(s) \in Seq(Nat) /\ FlattenSeq(t) \in Seq(Nat)
      BY ONLY <1>1, <1>5, <2>5, FlattenType, ZenonT(40)
    <2> QED BY <1>5, <1>6, <1>9, <2>7, <2>8
  <1> QED BY <1>10, <1>11

\* The numbers of the accepted lines, with one more line.
LEMMA OneMoreNumber ==
    ASSUME NEW n \in Nat
    PROVE  Append([i \in 1 .. n |-> i], n + 1) = [i \in 1 .. n + 1 |-> i]
  <1> DEFINE s == [i \in 1 .. n |-> i]
             t == [i \in 1 .. n + 1 |-> i]
  <1>1. s \in Seq(Nat) /\ Len(s) = n
    <2>1. s \in [1 .. n -> Nat]
      OBVIOUS
    <2> HIDE DEF s
    <2> QED BY <2>1, FunctionIsSeq
  <1>2. t \in Seq(Nat) /\ Len(t) = n + 1
    <2>1. t \in [1 .. n + 1 -> Nat] /\ n + 1 \in Nat
      OBVIOUS
    <2> HIDE DEF t
    <2> QED BY <2>1, FunctionIsSeq
  <1>3. \A i \in 1 .. n + 1 : Append(s, n + 1)[i] = t[i]
    OBVIOUS
  <1>4. Append(s, n + 1) \in Seq(Nat) /\ Len(Append(s, n + 1)) = n + 1
    <2> HIDE DEF s
    <2> QED BY <1>1
  <1> HIDE DEF s, t
  <1>5. Append(s, n + 1) = t
    BY <1>2, <1>3, <1>4, SeqEqual
  <1> QED BY <1>5 DEF s, t

\* The lines of items: of one more, of one less and of one put back.
LEMMA LinesOfItems ==
    ASSUME MaxLines \in Nat, NEW s \in Seq(BusyItems)
    PROVE  /\ LinesOf(s) \in Seq(Nat)
           /\ s = <<>> => LinesOf(s) = <<>>
           /\ \A e \in BusyItems : LinesOf(Append(s, e)) = Append(LinesOf(s), e.line)
           /\ \A e \in BusyItems : LinesOf(<<e>> \o s) = <<e.line>> \o LinesOf(s)
           /\ s # <<>> => LinesOf(s) = <<Head(s).line>> \o LinesOf(Tail(s))
  <1>1. ASSUME NEW q \in Seq(BusyItems)
        PROVE  /\ LinesOf(q) \in Seq(Nat) /\ Len(LinesOf(q)) = Len(q)
               /\ \A i \in 1 .. Len(q) : LinesOf(q)[i] = q[i].line
    <2>1. Len(q) \in Nat /\ \A i \in 1 .. Len(q) : q[i].line \in Nat
      <3>1. Len(q) \in Nat /\ \A i \in 1 .. Len(q) : q[i] \in BusyItems
        BY LenProperties
      <3>2. \A e \in BusyItems : e.line \in Nat
        BY DEF BusyItems
      <3> QED BY <3>1, <3>2
    <2>2. LinesOf(q) \in [1 .. Len(q) -> Nat]
      BY <2>1 DEF LinesOf
    <2>3. \A i \in 1 .. Len(q) : LinesOf(q)[i] = q[i].line
      BY DEF LinesOf
    <2> QED BY <2>1, <2>2, <2>3, FunctionIsSeq
  <1>2. Len(s) \in Nat /\ Len(LinesOf(s)) = Len(s) /\ LinesOf(s) \in Seq(Nat)
    BY <1>1, LenProperties
  <1>3. ASSUME NEW e \in BusyItems PROVE LinesOf(Append(s, e)) = Append(LinesOf(s), e.line)
    <2> DEFINE q == Append(s, e)
    <2>1. /\ q \in Seq(BusyItems) /\ Len(q) = Len(s) + 1 /\ e.line \in Nat
          /\ \A i \in 1 .. Len(q) : q[i] = IF i = Len(s) + 1 THEN e ELSE s[i]
      BY LenProperties DEF BusyItems
    <2> HIDE DEF q
    <2>2. /\ LinesOf(q) \in Seq(Nat) /\ Len(LinesOf(q)) = Len(s) + 1
          /\ \A i \in 1 .. Len(s) + 1 : LinesOf(q)[i] = q[i].line
      BY <1>1, <2>1
    <2> DEFINE a == LinesOf(q)
               b == LinesOf(s)
               c == Append(b, e.line)
    <2>3. /\ c \in Seq(Nat) /\ Len(c) = Len(s) + 1
          /\ \A i \in 1 .. Len(s) + 1 : c[i] = IF i = Len(s) + 1 THEN e.line ELSE b[i]
      BY <1>2, <2>1
    <2>4. \A i \in 1 .. Len(s) + 1 : a[i] = c[i]
      <3> SUFFICES ASSUME NEW i \in 1 .. Len(s) + 1 PROVE a[i] = c[i]
        OBVIOUS
      <3> HIDE DEF c
      <3>1. CASE i = Len(s) + 1
        BY <2>1, <2>2, <2>3, <3>1
      <3>2. CASE i # Len(s) + 1
        <4>1. i \in 1 .. Len(s)
          BY <1>2, <3>2
        <4>2. b[i] = s[i].line
          BY <1>1, <4>1
        <4> QED BY <2>1, <2>2, <2>3, <3>2, <4>2
      <3> QED BY <3>1, <3>2
    <2> HIDE DEF a, c
    <2>5. a = c
      BY <2>2, <2>3, <2>4, SeqEqual DEF a
    <2> QED BY <2>5 DEF a, c, q
  <1>4. ASSUME NEW q \in Seq(BusyItems), NEW e \in BusyItems
        PROVE  LinesOf(<<e>> \o q) = <<e.line>> \o LinesOf(q)
    <2> DEFINE p == <<e>> \o q
               a == LinesOf(p)
               b == LinesOf(q)
               c == <<e.line>> \o b
    <2>1. Len(q) \in Nat /\ b \in Seq(Nat) /\ Len(b) = Len(q) /\ \A i \in 1 .. Len(q) : b[i] = q[i].line
      BY <1>1, LenProperties
    <2>2. e.line \in Nat /\ <<e>> \in Seq(BusyItems) /\ Len(<<e>>) = 1 /\ <<e>>[1] = e
      BY DEF BusyItems
    <2>3. /\ p \in Seq(BusyItems) /\ Len(p) = Len(q) + 1
          /\ \A i \in 1 .. Len(q) + 1 : p[i] = IF i = 1 THEN e ELSE q[i - 1]
      BY <2>1, <2>2, ConcatProperties
    <2>4. /\ c \in Seq(Nat) /\ Len(c) = Len(q) + 1
          /\ \A i \in 1 .. Len(q) + 1 : c[i] = IF i = 1 THEN e.line ELSE b[i - 1]
      <3> HIDE DEF b
      <3>1. <<e.line>> \in Seq(Nat) /\ Len(<<e.line>>) = 1 /\ <<e.line>>[1] = e.line
        BY <2>2
      <3> QED BY <2>1, <3>1, ConcatProperties
    <2> HIDE DEF p, b, c
    <2>5. a \in Seq(Nat) /\ Len(a) = Len(q) + 1 /\ \A i \in 1 .. Len(q) + 1 : a[i] = p[i].line
      BY <1>1, <2>3
    <2> HIDE DEF a
    <2>6. \A i \in 1 .. Len(q) + 1 : a[i] = c[i]
      <3> SUFFICES ASSUME NEW i \in 1 .. Len(q) + 1 PROVE a[i] = c[i]
        OBVIOUS
      <3>1. CASE i = 1
        <4>1. p[i] = e /\ c[i] = e.line
          BY <2>3, <2>4, <3>1
        <4> QED BY <2>5, <4>1
      <3>2. CASE i # 1
        <4>1. i - 1 \in 1 .. Len(q)
          BY <2>1, <3>2
        <4>2. p[i] = q[i - 1] /\ c[i] = b[i - 1]
          BY <2>3, <2>4, <3>2
        <4> QED BY <2>1, <2>5, <4>1, <4>2
      <3> QED BY <3>1, <3>2
    <2>7. a = c
      BY <2>4, <2>5, <2>6, SeqEqual
    <2> QED BY <2>7 DEF a, c, p, b
  <1>5. s # <<>> => LinesOf(s) = <<Head(s).line>> \o LinesOf(Tail(s))
    <2> SUFFICES ASSUME s # <<>> PROVE LinesOf(s) = <<Head(s).line>> \o LinesOf(Tail(s))
      OBVIOUS
    <2>1. Head(s) \in BusyItems /\ Tail(s) \in Seq(BusyItems) /\ s = <<Head(s)>> \o Tail(s)
      BY HeadTailProperties
    <2> QED BY <1>4, <2>1
  <1>6. s = <<>> => LinesOf(s) = <<>>
    BY DEF LinesOf
  <1> QED BY <1>2, <1>3, <1>4, <1>5, <1>6

\* What is known of the lines between two steps.
LEMMA OrderFacts ==
    ASSUME AsyncLoggerAssumption, LoggerInv, OrderInv
    PROVE  /\ TypeOK /\ RingInv /\ HandsInv /\ OneWay /\ Quiet(ring, write)
           /\ MaxLines \in Nat /\ lines \in Nat /\ output \in Seq(Nat)
           /\ LinesInRing \in Seq(Nat) /\ LinesInQueue \in Seq(Nat)
           /\ logBuff.lines \in Seq(Nat) /\ PushedBack \in Seq(Nat) /\ LinesOf(busy) \in Seq(Nat)
           /\ LinesInQueue = (logBuff.lines \o PushedBack) \o LinesOf(busy)
           /\ (output \o LinesInRing) \o LinesInQueue = [n \in 1 .. lines |-> n]
  <1>1. TypeOK /\ RingInv /\ HandsInv /\ OneWay /\ Quiet(ring, write) /\ MaxLines \in Nat
    BY InvFacts DEF LoggerInv, OrderInv, AsyncLoggerAssumption
  <1>2. Seq(1 .. MaxLines) \subseteq Seq(Nat)
    BY <1>1
  <1>3. lines \in Nat /\ output \in Seq(Nat) /\ logBuff.lines \in Seq(Nat) /\ busy \in Seq(BusyItems)
    BY <1>1, <1>2 DEF TypeOK
  <1>4. LinesOf(busy) \in Seq(Nat)
    BY <1>1, <1>3, LinesOfItems
  <1>5. PushedBack \in Seq(Nat)
    <2>1. pc = "pushBack" => inHand \in BusyItems
      BY <1>1 DEF TypeOK, HandsInv
    <2>2. pc = "pushBack" => inHand.line \in Nat
      BY <1>1, <2>1 DEF BusyItems
    <2> QED BY <2>2 DEF PushedBack
  <1>6. LinesInRing \in Seq(Nat)
    <2>1. read \in Buffers /\ ring \in [Buffers -> BufferContents]
      BY <1>1 DEF TypeOK
    <2>2. RingLines(ring) \in [1 .. N -> Seq(Nat)] /\ N \in Nat \ {0}
      BY <2>1, RingLinesType
    <2>3. FlattenSeq(RingLines(ring)) \in Seq(Nat)
      BY <2>2, FlattenType
    <2> QED BY <2>3, LinesAre
  <1>7. LinesInQueue = (logBuff.lines \o PushedBack) \o LinesOf(busy)
    BY LinesAre
  <1>8. LinesInQueue \in Seq(Nat)
    <2>1. logBuff.lines \o PushedBack \in Seq(Nat)
      BY <1>3, <1>5, ConcatFacts
    <2> QED BY <1>4, <1>7, <2>1, ConcatFacts
  <1>9. (output \o LinesInRing) \o LinesInQueue = [n \in 1 .. lines |-> n]
    BY DEF OrderInv, EachLineOnceInOrder
  <1> QED BY <1>1, <1>3, <1>4, <1>5, <1>6, <1>7, <1>8, <1>9

\* With log type 1 no line is in the queue.
LEMMA NoneInQueue ==
    ASSUME busy = <<>>, logBuff.lines = <<>>, pc \in {"check", "asleep"}
    PROVE  LinesInQueue = <<>>
  <1>1. LinesOf(busy) = <<>> /\ PushedBack = <<>>
    BY DEF LinesOf, PushedBack
  <1> QED BY <1>1, LinesAre

\* With log type 2 none is in the ring.
LEMMA NoneInRing ==
    ASSUME AsyncLoggerAssumption, TypeOK, \A b \in Buffers : ring[b].lines = <<>>
    PROVE  LinesInRing = <<>>
  <1>1. read \in Buffers /\ ring \in [Buffers -> BufferContents]
    BY DEF TypeOK
  <1> DEFINE s == RingLines(ring)
  <1>2. s \in [1 .. N -> Seq(Nat)] /\ N \in Nat \ {0}
    BY <1>1, RingLinesType
  <1>3. \A i \in 1 .. N : s[i] = <<>>
    BY <1>1, PlaceFacts DEF RingLines
  <1> HIDE DEF s
  <1>4. s[1] = <<>> /\ \A i \in 2 .. N : s[i] = <<>>
    BY <1>2, <1>3
  <1>5. FlattenSeq(s) = s[1]
    BY <1>2, <1>4, FlattenOne
  <1> QED BY <1>4, <1>5, LinesAre DEF s

\* A line that does not fit behind the others, and loses its end.
DoesNotFit(l, length) == config.size # 0 /\ length + l.len >= config.size

\* A line added to the writer's buffer is the last one in the ring.
LEMMA WriteLineAddsLast ==
    ASSUME AsyncLoggerAssumption, config \in Configs, read \in Buffers, lines + 1 \in 1 .. MaxLines,
           NEW r \in [Buffers -> BufferContents], NEW b \in Buffers, RingOrdered(r, b), ~r[b].full,
           Quiet(r, b), NEW l \in Lines, NEW moved \in BOOLEAN, WriteLine(r, b, l, moved)
    PROVE  /\ FlattenSeq(RingLines(ring')) = Append(FlattenSeq(RingLines(r)), lines + 1)
           /\ Quiet(ring', write')
           /\ lines' = lines + 1
           /\ cut' = cut \/ (cut' = cut \cup {l} /\ DoesNotFit(l, r[b].length))
  <1>1. ring' \in [Buffers -> BufferContents]
    BY WriteLineKeepsOrder
  <1> DEFINE added == WithLine(r, b, l)
             longer == Longer(r[b], l)
  <1>2. longer.lines = Append(r[b].lines, lines + 1) /\ longer.full = r[b].full
    BY DEF Longer
  <1> HIDE DEF longer
  <1>3. added = [r EXCEPT ![b] = longer]
    BY DEF WithLine, longer
  <1> HIDE DEF added
  <1>4. /\ added[b] = longer /\ \A c \in Buffers : c # b => added[c] = r[c]
        /\ DOMAIN added = Buffers
    BY <1>3
  <1>5. \/ ring' = [added EXCEPT ![b].full = TRUE] /\ write' = NextBuffer(b)
        \/ ring' = added /\ write' = b
    BY DEF WriteLine, added
  <1>6. /\ \A c \in Buffers : c # b => ring'[c] = r[c]
        /\ write' # b => ring'[b].full
        /\ ring'[b].lines = longer.lines
    <2>1. CASE ring' = [added EXCEPT ![b].full = TRUE]
      <3>1. ring'[b] = [added[b] EXCEPT !.full = TRUE] /\ \A c \in Buffers : c # b => ring'[c] = added[c]
        BY <1>4, <2>1
      <3>2. longer = [full |-> r[b].full, length |-> r[b].length + Stored(l, r[b].length),
                      lines |-> Append(r[b].lines, lines + 1)]
        BY DEF longer, Longer
      <3> QED BY <1>2, <1>4, <3>1, <3>2
    <2>2. CASE ring' = added /\ write' = b
      BY <1>4, <2>2
    <2> QED BY <1>5, <2>1, <2>2
  <1>7. Quiet(ring', write')
    BY <1>6 DEF Quiet
  <1>8. \A c \in Buffers : Distance(c) > Distance(b) => r[c].lines = <<>>
    <2> SUFFICES ASSUME NEW c \in Buffers, Distance(c) > Distance(b) PROVE r[c].lines = <<>>
      OBVIOUS
    <2>1. ~r[c].full
      BY DEF RingOrdered
    <2>2. c # b
      <3>1. Distance(b) \in Int
        BY DistanceFacts
      <3> QED BY <3>1
    <2> QED BY <2>1, <2>2 DEF Quiet
  <1>9. lines + 1 \in Nat
    BY DEF AsyncLoggerAssumption
  <1>10. /\ ring'[b].lines = Append(r[b].lines, lines + 1)
         /\ \A c \in Buffers : c # b => ring'[c].lines = r[c].lines
    BY <1>2, <1>6
  <1>11. FlattenSeq(RingLines(ring')) = Append(FlattenSeq(RingLines(r)), lines + 1)
    <2>1. AddedLast(ring', r, b, lines + 1)
      BY <1>8, <1>10 DEF AddedLast
    <2>2. AsyncLoggerAssumption /\ read \in Buffers /\ b \in Buffers /\ r \in [Buffers -> BufferContents]
      OBVIOUS
    <2> QED BY ONLY <1>1, <1>9, <2>1, <2>2, LineIsLast, ZenonT(40)
  <1>12. /\ lines' = lines + 1
         /\ cut' = cut \/ (cut' = cut \cup {l} /\ Stored(l, r[b].length) < l.len)
    BY DEF WriteLine
  <1>13. Stored(l, r[b].length) < l.len => DoesNotFit(l, r[b].length)
    <2>1. l.len \in Nat
      BY DEF AsyncLoggerAssumption
    <2> QED BY <2>1 DEF Stored, DoesNotFit
  <1> QED BY <1>7, <1>11, <1>12, <1>13

\* The invariant of the next state, from its parts.
LEMMA NextOrder ==
    ASSUME Quiet(ring', write'), OneWay',
           (output' \o LinesInRing') \o LinesInQueue' = [n \in 1 .. lines' |-> n],
           \A l \in cut' : l.len >= config'.size \/ (l.kind = "msg" /\ l.len > MSG_RESERVE)
    PROVE  OrderInv'
  <1>1. Quiet(ring, write)'
    BY DEF Quiet
  <1>2. EachLineOnceInOrder'
    BY DEF EachLineOnceInOrder
  <1> QED BY <1>1, <1>2 DEF OrderInv

\* The buffer behind one that is not full is full or empty.
LEMMA NextIsEmpty ==
    ASSUME AsyncLoggerAssumption, read \in Buffers, NEW r \in [Buffers -> BufferContents],
           NEW w \in Buffers, RingOrdered(r, w), ~r[w].full,
           NextBuffer(w) # w, ~r[NextBuffer(w)].full
    PROVE  r[NextBuffer(w)].length = 0
  <1> DEFINE next == NextBuffer(w)
  <1>1. /\ N \in Nat \ {0} /\ next \in Buffers
        /\ \A b \in Buffers : Distance(b) \in 0 .. N - 1
        /\ \A b, c \in Buffers : Distance(b) = Distance(c) => b = c
        /\ Distance(next) = IF Distance(w) = N - 1 THEN 0 ELSE Distance(w) + 1
    BY NextBufferIs, DistanceFacts DEF AsyncLoggerAssumption, N
  <1>2. /\ \A b \in Buffers : Distance(b) < Distance(w) => r[b].full
        /\ \A b \in Buffers : Distance(b) > Distance(w) => ~r[b].full /\ r[b].length = 0
    BY DEF RingOrdered
  <1> HIDE DEF next
  <1>3. ~(Distance(next) < Distance(w))
    BY <1>1, <1>2 DEF next
  <1>4. Distance(next) # Distance(w)
    BY <1>1 DEF next
  <1>5. Distance(next) > Distance(w)
    BY <1>1, <1>3, <1>4
  <1> QED BY <1>1, <1>2, <1>5 DEF next

\* The room a writer looks for is enough: a line that loses its end does not fit in an
\* empty buffer, or is a text longer than the reserve.
LEMMA ReserveIsEnough ==
    ASSUME AsyncLoggerAssumption, config \in Configs, NEW l \in Lines, NEW length \in Nat,
           DoesNotFit(l, length),
           length = 0 \/ ~(Reserve(l) + length >= config.size)
    PROVE  l.len >= config.size \/ (l.kind = "msg" /\ l.len > MSG_RESERVE)
  <1>1. /\ config.size \in Nat /\ l.len \in Nat /\ l.kind \in {"msg", "mem"}
        /\ MSG_RESERVE \in Nat /\ MEM_RESERVE \in Nat
    BY DEF AsyncLoggerAssumption
  <1>2. length + l.len >= config.size
    BY DEF DoesNotFit
  <1>3. Reserve(l) \in Nat /\ (l.kind = "mem" => Reserve(l) >= l.len) /\ (l.kind = "msg" => Reserve(l) = MSG_RESERVE)
    BY <1>1 DEF Reserve
  <1> QED BY <1>1, <1>2, <1>3

\* What a writer of the ring does to its lines: none or one more, and that one the last.
LEMMA LogToRingLines ==
    ASSUME AsyncLoggerAssumption, LoggerInv, OrderInv, lines + 1 \in 1 .. MaxLines,
           NEW l \in Lines, WriteToFullRing(l) \/ WriteToSameBuffer(l) \/ WriteToNextBuffer(l)
    PROVE  /\ Quiet(ring', write')
           /\ \/ /\ FlattenSeq(RingLines(ring')) = FlattenSeq(RingLines(ring))
                 /\ lines' = lines /\ cut' = cut
              \/ /\ FlattenSeq(RingLines(ring')) = Append(FlattenSeq(RingLines(ring)), lines + 1)
                 /\ lines' = lines + 1
                 /\ \/ cut' = cut
                    \/ /\ cut' = cut \cup {l}
                       /\ l.len >= config.size \/ (l.kind = "msg" /\ l.len > MSG_RESERVE)
  <1>1. /\ TypeOK /\ RingOrdered(ring, write) /\ Quiet(ring, write)
        /\ config \in Configs /\ read \in Buffers /\ write \in Buffers
        /\ ring \in [Buffers -> BufferContents]
    BY OrderFacts DEF RingInv, TypeOK
  <1>2. CASE WriteToFullRing(l)
    BY <1>1, <1>2 DEF WriteToFullRing, DropLine
  <1>3. CASE WriteToSameBuffer(l)
    <2>1. ~ring[write].full /\ ~NeedsNextBuffer(l) /\ WriteLine(ring, write, l, FALSE)
      BY <1>3 DEF WriteToSameBuffer
    <2>2. /\ FlattenSeq(RingLines(ring')) = Append(FlattenSeq(RingLines(ring)), lines + 1)
          /\ Quiet(ring', write') /\ lines' = lines + 1
          /\ cut' = cut \/ (cut' = cut \cup {l} /\ DoesNotFit(l, ring[write].length))
      BY <1>1, <2>1, WriteLineAddsLast
    <2>3. ring[write].length \in Nat
      BY <1>1 DEF BufferContents
    <2>4. DoesNotFit(l, ring[write].length) => l.len >= config.size \/ (l.kind = "msg" /\ l.len > MSG_RESERVE)
      <3> SUFFICES ASSUME DoesNotFit(l, ring[write].length)
                   PROVE  l.len >= config.size \/ (l.kind = "msg" /\ l.len > MSG_RESERVE)
        OBVIOUS
      <3>1. ring[write].length = 0 \/ ~(Reserve(l) + ring[write].length >= config.size)
        BY <2>1 DEF NeedsNextBuffer, DoesNotFit
      <3> QED BY <1>1, <2>3, <3>1, ReserveIsEnough
    <2> QED BY <2>2, <2>4
  <1>4. CASE WriteToNextBuffer(l)
    <2> DEFINE marked == [ring EXCEPT ![write].full = TRUE]
               next == NextBuffer(write)
    <2>1. /\ ~ring[write].full /\ NeedsNextBuffer(l)
          /\ \/ marked[next].full /\ ring' = marked /\ write' = next /\ DropLine
             \/ ~marked[next].full /\ WriteLine(marked, next, l, TRUE)
      BY <1>4 DEF WriteToNextBuffer
    <2>2. ring[write].length > 0
      BY <1>1, <2>1 DEF NeedsNextBuffer, BufferContents
    <2>3. marked \in [Buffers -> BufferContents] /\ RingOrdered(marked, next) /\ next \in Buffers
      BY <1>1, <2>1, <2>2, MarkedIsOrdered, NextBufferIs
    <2>4. /\ \A b \in Buffers : marked[b].lines = ring[b].lines
          /\ \A b \in Buffers : b # write => marked[b] = ring[b]
          /\ marked[write].full
      BY <1>1 DEF BufferContents
    <2> HIDE DEF marked
    <2>5. RingLines(marked) = RingLines(ring)
      <3>1. \A i \in 1 .. N : (read + i - 1) % N \in Buffers
        BY <1>1, PlaceFacts
      <3> QED BY <2>4, <3>1 DEF RingLines
    <2>6. Quiet(marked, next)
      BY <1>1, <2>4 DEF Quiet
    <2>7. CASE marked[next].full /\ ring' = marked /\ write' = next /\ DropLine
      BY <2>5, <2>6, <2>7 DEF DropLine
    <2>8. CASE ~marked[next].full /\ WriteLine(marked, next, l, TRUE)
      <3>1. marked[next].length = 0
        <4>1. next # write /\ marked[next] = ring[next]
          BY <2>3, <2>4, <2>8
        <4> QED BY <1>1, <2>1, <2>8, <4>1, NextIsEmpty
      <3> HIDE DEF next
      <3>2. /\ FlattenSeq(RingLines(ring')) = Append(FlattenSeq(RingLines(marked)), lines + 1)
            /\ Quiet(ring', write') /\ lines' = lines + 1
            /\ cut' = cut \/ (cut' = cut \cup {l} /\ DoesNotFit(l, marked[next].length))
        BY <1>1, <2>3, <2>6, <2>8, WriteLineAddsLast
      <3>3. DoesNotFit(l, marked[next].length) => l.len >= config.size \/ (l.kind = "msg" /\ l.len > MSG_RESERVE)
        <4>1. 0 \in Nat
          OBVIOUS
        <4> QED BY <1>1, <3>1, <4>1, ReserveIsEnough
      <3> QED BY <2>5, <3>2, <3>3
    <2> QED BY <2>1, <2>7, <2>8
  <1> QED BY <1>2, <1>3, <1>4

\* A writer of the ring keeps the lines in order.
LEMMA LogToRingOrder ==
    ASSUME AsyncLoggerAssumption, LoggerInv, OrderInv, LogToRing
    PROVE  OrderInv'
  <1>1. /\ TypeOK /\ HandsInv /\ OneWay /\ MaxLines \in Nat /\ lines \in Nat /\ output \in Seq(Nat)
        /\ LinesInRing \in Seq(Nat)
        /\ (output \o LinesInRing) \o LinesInQueue = [n \in 1 .. lines |-> n]
    BY OrderFacts
  <1>2. PICK l \in Lines : WriteToFullRing(l) \/ WriteToSameBuffer(l) \/ WriteToNextBuffer(l)
    BY DEF LogToRing
  <1>3. /\ UNCHANGED <<config, read, queueVars, processVars, output>>
        /\ config.logType = 1 /\ tries < MaxLines
        /\ Signal \/ UNCHANGED pc
    BY <1>2 DEF WriteToFullRing, WriteToSameBuffer, WriteToNextBuffer, WriteLine, DropLine, Try
  <1>4. lines + 1 \in 1 .. MaxLines
    <2>1. Cardinality(FillingWriters) \in Nat /\ tries \in Nat
      BY <1>1, InvFacts DEF TypeOK
    <2> QED BY <1>1, <1>3, <2>1 DEF HandsInv
  <1>5. /\ busy = <<>> /\ logBuff.lines = <<>> /\ pc \in {"check", "asleep"}
        /\ busy' = <<>> /\ logBuff'.lines = <<>> /\ pc' \in {"check", "asleep"}
        /\ \A t \in Writers : filling'[t] = NoItem
    BY <1>1, <1>3 DEF OneWay, Signal, queueVars, processVars
  <1>6. OneWay'
    BY <1>3, <1>5 DEF OneWay
  <1>7. LinesInQueue = <<>> /\ LinesInQueue' = <<>>
    <2>1. LinesInQueue' = LinesInQueue
      BY <1>3, <1>5 DEF LinesInQueue, queueVars, processVars
    <2> QED BY <1>5, <2>1, NoneInQueue
  <1>8. /\ Quiet(ring', write')
        /\ \/ /\ FlattenSeq(RingLines(ring')) = FlattenSeq(RingLines(ring))
              /\ lines' = lines /\ cut' = cut
           \/ /\ FlattenSeq(RingLines(ring')) = Append(FlattenSeq(RingLines(ring)), lines + 1)
              /\ lines' = lines + 1
              /\ \/ cut' = cut
                 \/ /\ cut' = cut \cup {l}
                    /\ l.len >= config.size \/ (l.kind = "msg" /\ l.len > MSG_RESERVE)
    BY <1>2, <1>4, LogToRingLines
  <1>9. LinesInRing = FlattenSeq(RingLines(ring)) /\ LinesInRing' = FlattenSeq(RingLines(ring'))
    BY <1>3, LinesAre DEF LinesInRing, RingLines, N
  <1>10. (output' \o LinesInRing') \o LinesInQueue' = [n \in 1 .. lines' |-> n]
    <2> DEFINE a == LinesInRing
               b == LinesInRing'
               c == [n \in 1 .. lines |-> n]
    <2>1. a \in Seq(Nat) /\ output \o a = c /\ output' = output
      <3>1. output \o a \in Seq(Nat)
        BY <1>1, ConcatFacts
      <3> QED BY <1>1, <1>3, <1>7, <3>1, ConcatFacts
    <2>2. CASE b = a /\ lines' = lines
      BY <1>1, <1>3, <1>7, <2>2
    <2>3. CASE b = Append(a, lines + 1) /\ lines' = lines + 1
      <3> HIDE DEF a, b, c
      <3>1. lines + 1 \in Nat
        BY <1>1
      <3>2. /\ b = a \o <<lines + 1>> /\ <<lines + 1>> \in Seq(Nat) /\ b \in Seq(Nat)
            /\ output \o a \in Seq(Nat)
            /\ Append(output \o a, lines + 1) = (output \o a) \o <<lines + 1>>
        BY <1>1, <2>1, <2>3, <3>1, ConcatFacts
      <3>3. output \o b = Append(output \o a, lines + 1) /\ output \o b \in Seq(Nat)
        <4> DEFINE d == <<lines + 1>>
        <4>1. output \in Seq(Nat) /\ a \in Seq(Nat) /\ d \in Seq(Nat) /\ b = a \o d
          BY <1>1, <2>1, <3>2
        <4>2. Append(output \o a, lines + 1) = (output \o a) \o d
          BY <3>2
        <4> HIDE DEF d
        <4>3. \A u, v, w \in Seq(Nat) : (u \o v) \o w = u \o (v \o w)
          BY ConcatFacts
        <4>4. (output \o a) \o d = output \o (a \o d)
          BY ONLY <4>1, <4>3, ZenonT(40)
        <4>5. output \o b \in Seq(Nat)
          BY <1>1, <3>2, ConcatFacts
        <4> QED BY <4>1, <4>2, <4>4, <4>5
      <3>4. (output \o b) \o <<>> = Append(c, lines + 1)
        BY <2>1, <3>3, ConcatFacts
      <3>5. Append(c, lines + 1) = [n \in 1 .. lines' |-> n]
        BY <1>1, <2>3, OneMoreNumber DEF c
      <3> QED BY <1>3, <1>7, <3>4, <3>5 DEF b
    <2> HIDE DEF c
    <2> QED BY <1>8, <1>9, <2>2, <2>3
  <1>11. \A m \in cut' : m.len >= config'.size \/ (m.kind = "msg" /\ m.len > MSG_RESERVE)
    <2>1. \A m \in cut : m.len >= config.size \/ (m.kind = "msg" /\ m.len > MSG_RESERVE)
      BY DEF OrderInv, EachLineOnceInOrder
    <2> QED BY <1>3, <1>8, <2>1
  <1> QED BY <1>6, <1>8, <1>10, <1>11, NextOrder

\* The steps of the writers and of the logger thread that leave the lines where they are,
\* or wake the thread.
LEMMA NothingMovesOrder ==
    ASSUME AsyncLoggerAssumption, LoggerInv, OrderInv,
           UNCHANGED <<config, ringVars, busy, logBuff, lines, output>>,
           pc # "pushBack", pc' # "pushBack",
           config.logType = 1 => pc' \in {"check", "asleep"},
           config.logType = 1 => \A t \in Writers : filling'[t] = NoItem
    PROVE  OrderInv'
  <1>1. OneWay /\ Quiet(ring, write)
    BY DEF OrderInv
  <1>2. OneWay'
    BY <1>1 DEF OneWay, ringVars
  <1>3. Quiet(ring', write')
    BY <1>1 DEF Quiet, ringVars
  <1>4. LinesInRing' = LinesInRing /\ LinesInQueue' = LinesInQueue
    BY DEF LinesInRing, LinesInQueue, ringVars
  <1>5. (output' \o LinesInRing') \o LinesInQueue' = [n \in 1 .. lines' |-> n]
    BY <1>4 DEF OrderInv, EachLineOnceInOrder
  <1>6. \A l \in cut' : l.len >= config'.size \/ (l.kind = "msg" /\ l.len > MSG_RESERVE)
    BY DEF OrderInv, EachLineOnceInOrder, ringVars
  <1> QED BY <1>2, <1>3, <1>5, <1>6, NextOrder

\* What every step with the log type 2 keeps.
LEMMA QueueOrder ==
    ASSUME OrderInv, UNCHANGED <<config, ringVars>>, config.logType = 2,
           (output' \o LinesInRing') \o LinesInQueue' = [n \in 1 .. lines' |-> n]
    PROVE  OrderInv'
  <1>1. OneWay'
    BY DEF OrderInv, OneWay, ringVars
  <1>2. Quiet(ring', write')
    BY DEF OrderInv, Quiet, ringVars
  <1>3. \A l \in cut' : l.len >= config'.size \/ (l.kind = "msg" /\ l.len > MSG_RESERVE)
    BY DEF OrderInv, EachLineOnceInOrder, ringVars
  <1> QED BY <1>1, <1>2, <1>3, NextOrder

\* An item that is pushed is the last one of the queue.
LEMMA PushBusyItemOrder ==
    ASSUME AsyncLoggerAssumption, LoggerInv, OrderInv,
           NEW t \in Writers, NEW l \in Lines, PushBusyItem(t, l)
    PROVE  OrderInv'
  <1>1. /\ TypeOK /\ HandsInv /\ OneWay /\ MaxLines \in Nat /\ lines \in Nat /\ output \in Seq(Nat)
        /\ LinesInRing \in Seq(Nat) /\ LinesInQueue \in Seq(Nat)
        /\ logBuff.lines \in Seq(Nat) /\ PushedBack \in Seq(Nat) /\ LinesOf(busy) \in Seq(Nat)
        /\ LinesInQueue = (logBuff.lines \o PushedBack) \o LinesOf(busy)
        /\ (output \o LinesInRing) \o LinesInQueue = [n \in 1 .. lines |-> n]
    BY OrderFacts
  <1> DEFINE e == [item |-> filling[t], line |-> lines + 1, kind |-> l.kind, len |-> l.len]
  <1>2. /\ UNCHANGED <<config, ringVars, idle, pc, processVars, tries, output>>
        /\ filling[t] # NoItem /\ lines' = lines + 1 /\ busy' = Append(busy, e)
    BY DEF PushBusyItem
  <1>3. config \in Configs /\ config.logType = 2
    BY <1>1, <1>2 DEF OneWay, TypeOK, AsyncLoggerAssumption
  <1>4. e \in BusyItems /\ e.line = lines + 1 /\ busy \in Seq(BusyItems)
    <2>1. lines + 1 \in 1 .. MaxLines
      <3>1. t \in FillingWriters
        BY <1>2 DEF FillingWriters
      <3>2. Cardinality(FillingWriters) \in Nat /\ Cardinality(FillingWriters) # 0
        BY <3>1, FillingIsFinite, FS_EmptySet
      <3>3. lines + Cardinality(FillingWriters) <= tries /\ tries \in 0 .. MaxLines
        BY <1>1 DEF HandsInv, TypeOK
      <3>4. lines \in Nat /\ MaxLines \in Nat
        BY <1>1
      <3> QED BY ONLY <3>2, <3>3, <3>4
    <2>2. filling[t] \in Items
      BY <1>1, <1>2 DEF TypeOK
    <2>3. l.kind \in Kinds /\ l.len \in Nat
      BY DEF AsyncLoggerAssumption, Kinds
    <2> QED BY <1>1, <2>1, <2>2, <2>3 DEF BusyItems, TypeOK
  <1> HIDE DEF e
  <1> DEFINE a == output \o LinesInRing
             b == logBuff.lines \o PushedBack
             c == LinesOf(busy)
             x == lines + 1
  <1>5. LinesOf(busy') = Append(c, x)
    <2>1. LinesOf(Append(busy, e)) = Append(LinesOf(busy), e.line)
      <3> HIDE DEF a, b, c, x
      <3> QED BY <1>1, <1>4, LinesOfItems
    <2> QED BY <1>2, <1>4, <2>1
  <1>6. LinesInRing' = LinesInRing /\ LinesInQueue' = b \o LinesOf(busy')
    BY <1>2 DEF LinesInRing, LinesInQueue, PushedBack, LinesOf, ringVars, processVars
  <1>7. a \in Seq(Nat) /\ b \in Seq(Nat) /\ c \in Seq(Nat) /\ x \in Nat
    BY <1>1, ConcatFacts
  <1>8. a \o (b \o c) = [n \in 1 .. lines |-> n]
    BY <1>1
  <1>9. output' \o LinesInRing' = a /\ lines' = x
    BY <1>2, <1>6
  <1>10. Append([n \in 1 .. lines |-> n], x) = [n \in 1 .. lines' |-> n]
    BY <1>1, <1>2, OneMoreNumber
  <1> HIDE DEF a, b, c, x
  <1>11. a \o (b \o Append(c, x)) = Append(a \o (b \o c), x)
    <2> DEFINE d == <<x>>
    <2>1. d \in Seq(Nat) /\ Append(c, x) = c \o d
      BY <1>7, ConcatFacts
    <2>2. \A u, v \in Seq(Nat) : u \o v \in Seq(Nat)
      BY ConcatFacts
    <2>3. \A u \in Seq(Nat) : Append(u, x) = u \o d
      BY <1>7, ConcatFacts
    <2> HIDE DEF d
    <2>4. \A u, v, w \in Seq(Nat) : (u \o v) \o w = u \o (v \o w)
      BY ConcatFacts
    <2>5. b \o c \in Seq(Nat) /\ a \o (b \o c) \in Seq(Nat)
      BY ONLY <1>7, <2>2, ZenonT(40)
    <2>6. b \o (c \o d) = (b \o c) \o d
      BY ONLY <1>7, <2>1, <2>4, ZenonT(40)
    <2>7. a \o ((b \o c) \o d) = (a \o (b \o c)) \o d
      BY ONLY <1>7, <2>1, <2>4, <2>5, ZenonT(40)
    <2> QED BY <2>1, <2>3, <2>5, <2>6, <2>7
  <1>12. (output' \o LinesInRing') \o LinesInQueue' = [n \in 1 .. lines' |-> n]
    BY <1>5, <1>6, <1>8, <1>9, <1>10, <1>11
  <1> QED BY <1>2, <1>3, <1>12, QueueOrder

\* What the reader of the ring writes out.
LEMMA WriteReadBufferOrder ==
    ASSUME AsyncLoggerAssumption, LoggerInv, OrderInv, WriteReadBuffer
    PROVE  OrderInv'
  <1>1. /\ TypeOK /\ RingInv /\ OneWay /\ Quiet(ring, write) /\ output \in Seq(Nat)
        /\ LinesInQueue \in Seq(Nat)
        /\ (output \o LinesInRing) \o LinesInQueue = [n \in 1 .. lines |-> n]
    BY OrderFacts
  <1>2. /\ UNCHANGED <<config, write, cut, queueVars, pc, processVars, lines>>
        /\ output' = output \o ring[read].lines
        /\ ring' = [ring EXCEPT ![read] = EmptyBuffer]
        /\ config.logType = 1
    BY DEF WriteReadBuffer
  <1>3. /\ ring[read].lines \in Seq(Nat)
        /\ LinesInRing' \in Seq(Nat)
        /\ LinesInRing = ring[read].lines \o LinesInRing'
    BY <1>1, FirstLinesGo
  <1>4. OneWay'
    BY <1>1, <1>2 DEF OneWay, queueVars, processVars
  <1>5. Quiet(ring', write')
    <2>1. ring \in [Buffers -> BufferContents] /\ read \in Buffers
      BY <1>1 DEF TypeOK
    <2>2. /\ ring'[read] = EmptyBuffer /\ EmptyBuffer.lines = <<>>
          /\ \A b \in Buffers : b # read => ring'[b] = ring[b]
      BY <1>2, <2>1 DEF EmptyBuffer
    <2> QED BY <1>1, <1>2, <2>2 DEF Quiet
  <1>6. LinesInQueue' = LinesInQueue
    BY <1>2 DEF LinesInQueue, queueVars, processVars
  <1>7. output' \o LinesInRing' = output \o LinesInRing
    <2> DEFINE r == LinesInRing
               s == LinesInRing'
               q == ring[read].lines
    <2>1. q \in Seq(Nat) /\ s \in Seq(Nat) /\ r = q \o s /\ output' = output \o q
      BY <1>2, <1>3
    <2> HIDE DEF r, s, q
    <2>2. \A u, v, w \in Seq(Nat) : (u \o v) \o w = u \o (v \o w)
      BY ConcatFacts
    <2>3. output \in Seq(Nat)
      BY <1>1
    <2>4. (output \o q) \o s = output \o (q \o s)
      BY ONLY <2>1, <2>2, <2>3, ZenonT(40)
    <2>5. output' \o s = output \o r
      BY ONLY <2>1, <2>4
    <2> QED BY <2>5 DEF r, s
  <1>8. (output' \o LinesInRing') \o LinesInQueue' = [n \in 1 .. lines' |-> n]
    BY <1>1, <1>2, <1>6, <1>7
  <1>9. \A l \in cut' : l.len >= config'.size \/ (l.kind = "msg" /\ l.len > MSG_RESERVE)
    BY <1>2 DEF OrderInv, EachLineOnceInOrder
  <1> QED BY <1>4, <1>5, <1>8, <1>9, NextOrder

\* The steps of the logger thread at the queue leave the lines and their order alone: an
\* item in hand is one whose line was copied, or the one that goes back.
LEMMA ItemStepOrder ==
    ASSUME AsyncLoggerAssumption, LoggerInv, OrderInv, PopBusyItem \/ PushBack \/ RecycleItem
    PROVE  OrderInv'
  <1>1. /\ TypeOK /\ HandsInv /\ OneWay /\ MaxLines \in Nat /\ output \in Seq(Nat)
        /\ LinesInRing \in Seq(Nat) /\ LinesInQueue \in Seq(Nat)
        /\ logBuff.lines \in Seq(Nat) /\ PushedBack \in Seq(Nat) /\ LinesOf(busy) \in Seq(Nat)
        /\ LinesInQueue = (logBuff.lines \o PushedBack) \o LinesOf(busy)
        /\ (output \o LinesInRing) \o LinesInQueue = [n \in 1 .. lines |-> n]
    BY OrderFacts
  <1>2. /\ UNCHANGED <<config, ringVars, lines, output>>
        /\ pc \notin {"check", "asleep"}
    BY DEF PopBusyItem, PushBack, RecycleItem
  <1>3. config \in Configs /\ config.logType = 2 /\ busy \in Seq(BusyItems)
    BY <1>1, <1>2 DEF OneWay, TypeOK, AsyncLoggerAssumption
  <1>4. LinesInRing' = LinesInRing
    BY <1>2 DEF LinesInRing, ringVars
  <1>5. LinesInQueue' = (logBuff'.lines \o (IF pc' = "pushBack" THEN <<inHand'.line>> ELSE <<>>))
                          \o LinesOf(busy')
    BY DEF LinesInQueue, LinesOf
  <1> DEFINE a == logBuff.lines
             c == LinesOf(busy)
  <1>6. a \o <<>> = a /\ <<>> \in Seq(Nat)
    BY <1>1, ConcatFacts
  <1>7. CASE PopBusyItem
    <2> DEFINE i == Head(busy)
               d == LinesOf(Tail(busy))
    <2>1. /\ pc = "pop" /\ busy # <<>> /\ inHand' = i /\ busy' = Tail(busy)
          /\ \/ pc' = "pushBack" /\ UNCHANGED logBuff
             \/ pc' = "recycle" /\ logBuff' = WithItem(logBuff, i)
      BY <1>7 DEF PopBusyItem
    <2>2. i \in BusyItems /\ i.line \in Nat /\ Tail(busy) \in Seq(BusyItems)
      <3>1. i \in BusyItems /\ Tail(busy) \in Seq(BusyItems)
        BY <1>3, <2>1, HeadTailProperties
      <3>2. \A e \in BusyItems : e.line \in Nat
        BY <1>1 DEF BusyItems
      <3> QED BY <3>1, <3>2
    <2>3. c = <<i.line>> \o d /\ d \in Seq(Nat)
      BY <1>1, <1>3, <2>1, <2>2, LinesOfItems
    <2>4. LinesInQueue = a \o c
      BY <1>1, <1>6, <2>1 DEF PushedBack
    <2> HIDE DEF i, d, a, c
    <2> DEFINE h == <<i.line>>
    <2>5. h \in Seq(Nat) /\ Append(a, i.line) = a \o h /\ a \o h \in Seq(Nat) /\ a \in Seq(Nat)
      BY <1>1, <2>2, ConcatFacts DEF a
    <2>6. LinesInQueue' = (a \o h) \o d
      <3>1. CASE pc' = "pushBack" /\ UNCHANGED logBuff
        BY <1>5, <2>1, <3>1 DEF a, d
      <3>2. CASE pc' = "recycle" /\ logBuff' = WithItem(logBuff, i)
        <4>1. logBuff'.lines = a \o h
          BY <2>5, <3>2 DEF WithItem, a
        <4>2. (a \o h) \o <<>> = a \o h
          BY <2>5, ConcatFacts
        <4> HIDE DEF h
        <4> QED BY <1>5, <2>1, <3>2, <4>1, <4>2 DEF d
      <3> QED BY <2>1, <3>1, <3>2
    <2> HIDE DEF h
    <2>7. \A u, v, w \in Seq(Nat) : (u \o v) \o w = u \o (v \o w)
      BY ConcatFacts
    <2>8. (a \o h) \o d = a \o (h \o d)
      BY <2>3, <2>5, <2>7
    <2>9. LinesInQueue' = LinesInQueue
      BY <2>3, <2>4, <2>6, <2>8 DEF h
    <2> QED BY <1>1, <1>2, <1>3, <1>4, <2>9, QueueOrder
  <1>8. CASE PushBack
    <2>1. /\ pc = "pushBack" /\ busy' = <<inHand>> \o busy /\ pc' = "flush" /\ UNCHANGED logBuff
      BY <1>8 DEF PushBack
    <2> DEFINE h == <<inHand.line>>
    <2>2. inHand \in BusyItems /\ h \in Seq(Nat) /\ PushedBack = h
      BY <1>1, <2>1 DEF TypeOK, HandsInv, PushedBack
    <2>3. LinesOf(busy') = h \o c
      BY <1>1, <1>3, <2>1, <2>2, LinesOfItems
    <2>4. LinesInQueue' = a \o (h \o c) /\ LinesInQueue = (a \o h) \o c
      BY <1>1, <1>5, <1>6, <2>1, <2>2, <2>3
    <2>5. a \in Seq(Nat) /\ c \in Seq(Nat)
      BY <1>1
    <2> HIDE DEF a, h, c
    <2>6. \A u, v, w \in Seq(Nat) : (u \o v) \o w = u \o (v \o w)
      BY ConcatFacts
    <2>7. LinesInQueue' = LinesInQueue
      BY <2>2, <2>4, <2>5, <2>6
    <2> QED BY <1>1, <1>2, <1>3, <1>4, <2>7, QueueOrder
  <1>9. CASE RecycleItem
    <2>1. pc = "recycle" /\ pc' \in {"flush", "pop"} /\ UNCHANGED <<busy, logBuff>>
      BY <1>9 DEF RecycleItem
    <2>2. LinesInQueue' = LinesInQueue
      BY <2>1 DEF LinesInQueue
    <2> QED BY <1>1, <1>2, <1>3, <1>4, <2>2, QueueOrder
  <1> QED BY <1>7, <1>8, <1>9

\* What the logger thread collected comes before what is in the queue, and with the log
\* type 2 nothing is in the ring.
LEMMA OutputOrder ==
    ASSUME AsyncLoggerAssumption, LoggerInv, OrderInv, LoggerOutputLog
    PROVE  OrderInv'
  <1>1. /\ TypeOK /\ OneWay /\ output \in Seq(Nat)
        /\ logBuff.lines \in Seq(Nat) /\ LinesOf(busy) \in Seq(Nat)
        /\ LinesInQueue = (logBuff.lines \o PushedBack) \o LinesOf(busy)
        /\ (output \o LinesInRing) \o LinesInQueue = [n \in 1 .. lines |-> n]
    BY OrderFacts
  <1>2. /\ UNCHANGED <<config, ringVars, queueVars, inHand, lines>>
        /\ pc \in {"flush", "pop"} /\ pc' = "check"
        /\ output' = output \o logBuff.lines /\ logBuff' = EmptyLogBuff
    BY DEF LoggerOutputLog
  <1>3. config \in Configs /\ config.logType = 2
    BY <1>1, <1>2 DEF OneWay, TypeOK, AsyncLoggerAssumption
  <1>4. LinesInRing = <<>> /\ LinesInRing' = <<>>
    <2>1. LinesInRing = <<>>
      BY <1>1, <1>3, NoneInRing DEF OneWay
    <2>2. LinesInRing' = LinesInRing
      BY <1>2 DEF LinesInRing, ringVars
    <2> QED BY <2>1, <2>2
  <1>5. /\ LinesInQueue' = (<<>> \o <<>>) \o LinesOf(busy)
        /\ PushedBack = <<>>
    BY <1>2 DEF LinesInQueue, LinesOf, PushedBack, EmptyLogBuff, queueVars
  <1> DEFINE a == logBuff.lines
             c == LinesOf(busy)
  <1>6. a \in Seq(Nat) /\ c \in Seq(Nat)
    BY <1>1
  <1>7. LinesInQueue = (a \o <<>>) \o c
    BY <1>1, <1>5
  <1> HIDE DEF a, c
  <1>8. /\ \A u \in Seq(Nat) : u \o <<>> = u /\ <<>> \o u = u
        /\ \A u, v \in Seq(Nat) : u \o v \in Seq(Nat)
        /\ \A u, v, w \in Seq(Nat) : (u \o v) \o w = u \o (v \o w)
        /\ <<>> \in Seq(Nat)
    BY ConcatFacts
  <1>9. output \o (a \o c) = [n \in 1 .. lines |-> n]
    BY <1>1, <1>4, <1>6, <1>7, <1>8
  <1>10. output' = output \o a /\ LinesInQueue' = c /\ lines' = lines
    BY <1>2, <1>5, <1>6, <1>8 DEF a, c
  <1>11. (output \o a) \o c = [n \in 1 .. lines |-> n] /\ (output \o a) \o <<>> = output \o a
    <2>1. output \in Seq(Nat)
      BY <1>1
    <2>2. (output \o a) \o c = output \o (a \o c) /\ output \o a \in Seq(Nat)
      BY ONLY <1>6, <1>8, <2>1, ZenonT(40)
    <2>3. (output \o a) \o <<>> = output \o a
      BY ONLY <1>8, <2>2, ZenonT(40)
    <2> QED BY <1>9, <2>2, <2>3
  <1>12. (output' \o LinesInRing') \o LinesInQueue' = [n \in 1 .. lines' |-> n]
    BY <1>4, <1>10, <1>11
  <1> QED BY <1>2, <1>3, <1>12, QueueOrder

\* A logger that starts has no lines.
LEMMA InitOrderInv ==
    ASSUME Init
    PROVE  OrderInv
  <1>1. /\ config \in Configs /\ ring = [b \in Buffers |-> EmptyBuffer]
        /\ read = 0 /\ cut = {} /\ busy = <<>> /\ filling = [t \in Writers |-> NoItem]
        /\ pc = "check" /\ logBuff = EmptyLogBuff /\ lines = 0 /\ output = <<>>
    BY DEF Init
  <1>2. N \in Nat \ {0} /\ 0 \in Buffers /\ EmptyBuffer \in BufferContents
    BY AsyncLoggerAssumption DEF AsyncLoggerAssumption, N, Buffers, EmptyBuffer, BufferContents
  <1>3. \A b \in Buffers : ring[b].lines = <<>>
    BY <1>1 DEF EmptyBuffer
  <1>4. Quiet(ring, write) /\ OneWay
    BY <1>1, <1>3 DEF Quiet, OneWay, EmptyLogBuff
  <1>5. LinesInQueue = <<>>
    BY <1>1, NoneInQueue DEF EmptyLogBuff
  <1>6. LinesInRing = <<>>
    <2> DEFINE s == RingLines(ring)
    <2>1. read \in Buffers /\ ring \in [Buffers -> BufferContents]
      BY <1>1, <1>2
    <2>2. s \in [1 .. N -> Seq(Nat)]
      BY <2>1, RingLinesType, AsyncLoggerAssumption
    <2>3. \A i \in 1 .. N : (read + i - 1) % N \in Buffers
      BY <2>1, PlaceFacts, AsyncLoggerAssumption
    <2>4. \A i \in 1 .. N : s[i] = <<>>
      BY <1>3, <2>3 DEF RingLines
    <2> HIDE DEF s
    <2>5. s[1] = <<>> /\ \A i \in 2 .. N : s[i] = <<>>
      BY <1>2, <2>4
    <2>6. FlattenSeq(s) = s[1]
      BY <1>2, <2>2, <2>5, FlattenOne
    <2> QED BY <2>5, <2>6, LinesAre DEF s
  <1>7. (<<>> \o <<>>) \o <<>> = [n \in 1 .. 0 |-> n]
    <2>1. (<<>> \o <<>>) \o <<>> = <<>>
      BY ConcatFacts
    <2> QED BY <2>1
  <1>8. EachLineOnceInOrder
    BY <1>1, <1>5, <1>6, <1>7 DEF EachLineOnceInOrder
  <1> QED BY <1>4, <1>8 DEF OrderInv

\* The lines are in order and in the ring or in the queue from the start on.
THEOREM OrderInvariant == Spec => []OrderInv
  <1>1. Init => OrderInv
    BY InitOrderInv
  <1>2. LoggerInv /\ OrderInv /\ [Next]_vars => OrderInv'
    <2> SUFFICES ASSUME LoggerInv, OrderInv, [Next]_vars PROVE OrderInv'
      OBVIOUS
    <2> USE AsyncLoggerAssumption
    <2>1. TypeOK /\ OneWay /\ HandsInv /\ config \in Configs
      BY OrderFacts DEF TypeOK
    <2>2. CASE LogToRing
      BY <2>2, LogToRingOrder
    <2>3. ASSUME NEW t \in Writers, PopIdleItem(t) PROVE OrderInv'
      <3>1. /\ UNCHANGED <<config, ringVars, busy, processVars, lines, output>>
            /\ config.logType = 2
            /\ Signal \/ UNCHANGED pc
        BY <2>3 DEF PopIdleItem
      <3>2. LinesInRing' = LinesInRing /\ LinesInQueue' = LinesInQueue
        BY <3>1 DEF LinesInRing, LinesInQueue, ringVars, processVars, Signal
      <3>3. (output' \o LinesInRing') \o LinesInQueue' = [n \in 1 .. lines' |-> n]
        BY <3>1, <3>2 DEF OrderInv, EachLineOnceInOrder
      <3> QED BY <3>1, <3>3, QueueOrder
    <2>4. ASSUME NEW t \in Writers, NEW l \in Lines, PushBusyItem(t, l) PROVE OrderInv'
      BY <2>4, PushBusyItemOrder
    <2>5. CASE Sleep \/ TimeOut \/ ProcessLogQueue
      <3>1. /\ UNCHANGED <<config, ringVars, busy, filling, logBuff, lines, output>>
            /\ pc # "pushBack" /\ pc' # "pushBack"
            /\ pc' \in {"check", "asleep"} \/ config.logType = 2
        BY <2>5 DEF Sleep, TimeOut, ProcessLogQueue, queueVars, processVars
      <3>2. config.logType = 1 => \A t \in Writers : filling'[t] = NoItem
        BY <2>1, <3>1 DEF OneWay
      <3> QED BY <3>1, <3>2, NothingMovesOrder
    <2>6. CASE WriteReadBuffer
      BY <2>6, WriteReadBufferOrder
    <2>7. CASE PopBusyItem \/ PushBack \/ RecycleItem
      BY <2>7, ItemStepOrder
    <2>8. CASE LoggerOutputLog
      BY <2>8, OutputOrder
    <2>9. CASE UNCHANGED vars
      <3>1. UNCHANGED <<config, ringVars, busy, filling, pc, inHand, logBuff, lines, output>>
        BY <2>9 DEF vars, queueVars, processVars
      <3>2. OneWay'
        BY <2>1, <3>1 DEF OneWay, ringVars
      <3>3. Quiet(ring', write')
        BY <3>1 DEF OrderInv, Quiet, ringVars
      <3>4. LinesInRing' = LinesInRing /\ LinesInQueue' = LinesInQueue
        BY <3>1 DEF LinesInRing, LinesInQueue, ringVars
      <3>5. (output' \o LinesInRing') \o LinesInQueue' = [n \in 1 .. lines' |-> n]
        BY <3>1, <3>4 DEF OrderInv, EachLineOnceInOrder
      <3>6. \A l \in cut' : l.len >= config'.size \/ (l.kind = "msg" /\ l.len > MSG_RESERVE)
        BY <3>1 DEF OrderInv, EachLineOnceInOrder, ringVars
      <3> QED BY <3>2, <3>3, <3>5, <3>6, NextOrder
    <2> QED BY <2>2, <2>3, <2>4, <2>5, <2>6, <2>7, <2>8, <2>9 DEF Next, Log, LoggerThread, Done
  <1> QED BY <1>1, <1>2, LoggerInvariant, PTL DEF Spec

\* The accepted lines are written out once each and in their order, for any number of
\* writers, items, buffers and lines, and of the lines that fit only texts longer than the
\* reserve lose their end (AsyncWriteMsg, LoggerWriteMem, ProcessLogQueue).
THEOREM LinesKeepTheirOrder == Spec => []EachLineOnceInOrder
  <1>1. OrderInv => EachLineOnceInOrder
    BY DEF OrderInv
  <1> QED BY <1>1, OrderInvariant, PTL

-----------------------------------------------------------------------------
(***************************************************************************)
(* The logger is an ordered log.                                           *)
(***************************************************************************)
Waiting == LinesInRing \o LinesInQueue

\* what was written and what waits are the accepted lines
LinesOfLog ==
    /\ lines \in Nat /\ output \in Seq(Nat) /\ Waiting \in Seq(Nat)
    /\ output \o Waiting = [n \in 1 .. lines |-> n]

\* What follows the same sequence to the same end is the same.
LEMMA SameRest ==
    ASSUME NEW a \in Seq(Nat), NEW b \in Seq(Nat), NEW c \in Seq(Nat), a \o b = a \o c
    PROVE  b = c
  <1>1. \A S : \A u, v, w \in Seq(S) : u \o v = u \o w => v = w
    BY ONLY ConcatSimplifications
  <1>2. \A u, v, w \in Seq(Nat) : u \o v = u \o w => v = w
    BY ONLY <1>1, ZenonT(40)
  <1> QED BY ONLY <1>2, a \in Seq(Nat), b \in Seq(Nat), c \in Seq(Nat), a \o b = a \o c, ZenonT(40)

\* The two parts of a sequence, found again by the length of the first.
LEMMA PartsFound ==
    ASSUME NEW a \in Seq(Nat), NEW b \in Seq(Nat)
    PROVE  /\ Len(a) \in 0 .. Len(a \o b)
           /\ SubSeq(a \o b, 1, Len(a)) = a
           /\ SubSeq(a \o b, Len(a) + 1, Len(a \o b)) = b
  <1> DEFINE s == a \o b
             m == Len(a)
             n == Len(b)
  <1>1. /\ s \in Seq(Nat) /\ m \in Nat /\ n \in Nat /\ Len(s) = m + n
        /\ \A i \in 1 .. m + n : s[i] = IF i <= m THEN a[i] ELSE b[i - m]
    BY ConcatProperties, LenProperties
  <1>2. a = [i \in 1 .. m |-> a[i]] /\ b = [i \in 1 .. n |-> b[i]]
    BY SeqDef
  <1> HIDE DEF s, m, n
  <1>3. SubSeq(s, 1, m) = a
    <2>1. SubSeq(s, 1, m) = [i \in 1 .. m |-> s[i]]
      BY <1>1
    <2>2. \A i \in 1 .. m : s[i] = a[i]
      BY <1>1
    <2> QED BY ONLY <1>2, <2>1, <2>2
  <1>4. SubSeq(s, m + 1, m + n) = b
    <2>1. SubSeq(s, m + 1, m + n) = [i \in 1 .. n |-> s[m + i]]
      BY <1>1
    <2>2. \A i \in 1 .. n : s[m + i] = b[i]
      BY <1>1
    <2> QED BY ONLY <1>2, <2>1, <2>2
  <1>5. m \in 0 .. Len(s) /\ Len(s) = m + n
    BY ONLY <1>1
  <1>6. SubSeq(s, m + 1, Len(s)) = b
    BY ONLY <1>4, <1>5
  <1> QED BY ONLY <1>3, <1>5, <1>6 DEF s, m

\* Where the lines are in order, what was written and what waits are the accepted ones.
LEMMA LinesOfLogHold ==
    ASSUME AsyncLoggerAssumption, LoggerInv, OrderInv
    PROVE  LinesOfLog
  <1> DEFINE a == LinesInRing
             b == LinesInQueue
  <1>1. /\ lines \in Nat /\ output \in Seq(Nat) /\ a \in Seq(Nat) /\ b \in Seq(Nat)
        /\ (output \o a) \o b = [n \in 1 .. lines |-> n]
    BY OrderFacts
  <1> HIDE DEF a, b
  <1>2. /\ \A u, v \in Seq(Nat) : u \o v \in Seq(Nat)
        /\ \A u, v, w \in Seq(Nat) : (u \o v) \o w = u \o (v \o w)
    BY ConcatFacts
  <1>3. a \o b \in Seq(Nat) /\ output \o (a \o b) = (output \o a) \o b
    BY ONLY <1>1, <1>2, ZenonT(40)
  <1>4. Waiting = a \o b
    BY DEF Waiting, a, b
  <1> QED BY ONLY <1>1, <1>3, <1>4 DEF LinesOfLog

\* What a step does to the count of lines and to the output.
LEMMA StepOutcomes ==
    ASSUME TypeOK, MaxLines \in Nat, [Next]_vars
    PROVE  \/ output' = output /\ lines' \in {lines, lines + 1}
           \/ \E x \in Seq(Nat) : output' = output \o x /\ lines' = lines
  <1>1. ring[read].lines \in Seq(Nat) /\ logBuff.lines \in Seq(Nat)
    <2>1. Seq(1 .. MaxLines) \subseteq Seq(Nat)
      OBVIOUS
    <2>2. ring[read].lines \in Seq(1 .. MaxLines)
      <3>1. ring[read] \in BufferContents
        BY DEF TypeOK
      <3> QED BY <3>1 DEF BufferContents
    <2>3. logBuff.lines \in Seq(1 .. MaxLines)
      BY DEF TypeOK
    <2> QED BY ONLY <2>1, <2>2, <2>3
  <1>2. CASE LogToRing
    <2>1. PICK l \in Lines : WriteToFullRing(l) \/ WriteToSameBuffer(l) \/ WriteToNextBuffer(l)
      BY <1>2 DEF LogToRing
    <2>2. CASE WriteToFullRing(l)
      BY <2>2 DEF WriteToFullRing, DropLine
    <2>3. CASE WriteToSameBuffer(l)
      BY <2>3 DEF WriteToSameBuffer, WriteLine
    <2>4. CASE WriteToNextBuffer(l)
      BY <2>4 DEF WriteToNextBuffer, WriteLine, DropLine
    <2> QED BY <2>1, <2>2, <2>3, <2>4
  <1>3. ASSUME NEW t \in Writers, PopIdleItem(t) \/ \E l \in Lines : PushBusyItem(t, l)
        PROVE  output' = output /\ lines' \in {lines, lines + 1}
    BY <1>3 DEF PopIdleItem, PushBusyItem
  <1>4. CASE Sleep \/ TimeOut \/ ProcessLogQueue \/ PopBusyItem \/ PushBack \/ RecycleItem
    BY <1>4 DEF Sleep, TimeOut, ProcessLogQueue, PopBusyItem, PushBack, RecycleItem
  <1>5. CASE WriteReadBuffer
    BY <1>1, <1>5 DEF WriteReadBuffer
  <1>6. CASE LoggerOutputLog
    BY <1>1, <1>6 DEF LoggerOutputLog
  <1>7. CASE UNCHANGED vars
    BY <1>7 DEF vars
  <1> QED BY <1>2, <1>3, <1>4, <1>5, <1>6, <1>7 DEF Next, Log, LoggerThread, Done

\* Every step accepts one line, writes out the first of those that wait, or leaves both
\* the written and the waiting lines as they are.
LEMMA StepIsOfTheLog ==
    ASSUME AsyncLoggerAssumption, TypeOK, LinesOfLog, LinesOfLog', [Next]_vars
    PROVE  [Abstract!Next]_<<lines, LinesInRing \o LinesInQueue, output>>
  <1> DEFINE a == output
             b == Waiting
             c == Waiting'
             x1 == lines + 1
  <1>1. /\ lines \in Nat /\ a \in Seq(Nat) /\ b \in Seq(Nat) /\ c \in Seq(Nat) /\ x1 \in Nat
        /\ a \o b = [n \in 1 .. lines |-> n]
        /\ output' \o c = [n \in 1 .. lines' |-> n]
    BY DEF LinesOfLog
  <1>2. MaxLines \in Nat
    BY DEF AsyncLoggerAssumption
  <1>3. LinesInRing \o LinesInQueue = b /\ (LinesInRing \o LinesInQueue)' = c
    BY DEF Waiting
  <1> HIDE DEF a, b, c, x1
  <1>4. CASE output' = output /\ lines' = lines
    <2>1. a \o b = a \o c
      BY ONLY <1>1, <1>4 DEF a
    <2>2. b = c
      BY ONLY <1>1, <2>1, SameRest
    <2> QED BY <1>3, <1>4, <2>2
  <1>5. CASE output' = output /\ lines' = lines + 1
    <2>1. Append([n \in 1 .. lines |-> n], x1) = [n \in 1 .. lines' |-> n]
      BY <1>1, <1>5, OneMoreNumber DEF x1
    <2>2. a \o c = Append(a \o b, x1)
      BY ONLY <1>1, <1>5, <2>1 DEF a
    <2>3. /\ Append(b, x1) \in Seq(Nat)
          /\ Append(a \o b, x1) = a \o Append(b, x1)
      <3> DEFINE d == <<x1>>
      <3>1. /\ d \in Seq(Nat) /\ Append(b, x1) = b \o d /\ Append(b, x1) \in Seq(Nat)
            /\ \A u \in Seq(Nat) : Append(u, x1) = u \o d
        BY <1>1, ConcatFacts
      <3> HIDE DEF d
      <3>2. /\ \A u, v \in Seq(Nat) : u \o v \in Seq(Nat)
            /\ \A u, v, w \in Seq(Nat) : (u \o v) \o w = u \o (v \o w)
        BY ConcatFacts
      <3>3. a \o b \in Seq(Nat) /\ (a \o b) \o d = a \o (b \o d)
        BY ONLY <1>1, <3>1, <3>2, ZenonT(40)
      <3> QED BY ONLY <3>1, <3>3
    <2>4. c = Append(b, x1)
      BY ONLY <1>1, <2>2, <2>3, SameRest
    <2> QED BY <1>3, <1>5, <2>4 DEF Abstract!Next, Abstract!Accept, x1
  <1>6. ASSUME NEW x \in Seq(Nat), output' = output \o x, lines' = lines
        PROVE  [Abstract!Next]_<<lines, LinesInRing \o LinesInQueue, output>>
    <2>1. x \o c \in Seq(Nat) /\ (a \o x) \o c = a \o (x \o c)
      <3>1. /\ \A u, v \in Seq(Nat) : u \o v \in Seq(Nat)
            /\ \A u, v, w \in Seq(Nat) : (u \o v) \o w = u \o (v \o w)
        BY ConcatFacts
      <3> QED BY ONLY <1>1, <3>1, x \in Seq(Nat), ZenonT(40)
    <2>2. a \o b = a \o (x \o c)
      BY ONLY <1>1, <1>6, <2>1 DEF a
    <2>3. b = x \o c
      BY ONLY <1>1, <2>1, <2>2, SameRest
    <2>4. /\ Len(x) \in 0 .. Len(b)
          /\ SubSeq(b, 1, Len(x)) = x
          /\ SubSeq(b, Len(x) + 1, Len(b)) = c
      BY ONLY <1>1, <2>3, x \in Seq(Nat), PartsFound
    <2>5. CASE x = <<>>
      <3>1. output' = output /\ b = c
        BY <1>1, <1>6, <2>3, <2>5, ConcatFacts DEF a
      <3> QED BY <1>3, <1>6, <3>1
    <2>6. CASE x # <<>>
      <3>1. Len(x) \in 1 .. Len(b)
        BY <2>4, <2>6
      <3> QED BY <1>3, <1>6, <2>4, <3>1 DEF Abstract!Next, Abstract!Write
    <2> QED BY <2>5, <2>6
  <1> QED BY <1>2, <1>4, <1>5, <1>6, StepOutcomes

\* The asynchronous logger is a log that keeps its lines in order: AsyncWriteMsg and
\* LoggerWriteMem accept a line behind the others, the logger thread writes out the
\* first of them, and nothing else changes what was written or what waits.
THEOREM LoggerIsAnOrderedLog == Spec => ImplementsOrderedLog
  <1>1. Init => Abstract!Init
    <2> SUFFICES ASSUME Init PROVE Abstract!Init
      OBVIOUS
    <2>1. LoggerInv /\ OrderInv
      BY AsyncLoggerAssumption, InitLoggerInv, InitOrderInv
    <2>2. lines = 0 /\ output = <<>> /\ LinesOfLog
      BY <2>1, AsyncLoggerAssumption, LinesOfLogHold DEF Init
    <2>3. Waiting \in Seq(Nat) /\ <<>> \o Waiting = [n \in 1 .. 0 |-> n]
      BY <2>2 DEF LinesOfLog
    <2>4. Waiting = <<>>
      <3>1. <<>> \o Waiting = Waiting
        BY <2>3, ConcatFacts
      <3> QED BY <2>3, <3>1
    <2> QED BY <2>2, <2>4 DEF Abstract!Init, Waiting
  <1>2. LoggerInv /\ OrderInv => LinesOfLog /\ TypeOK
    BY AsyncLoggerAssumption, LinesOfLogHold, InvFacts
  <1>3. TypeOK /\ LinesOfLog /\ LinesOfLog' /\ [Next]_vars
          => [Abstract!Next]_<<lines, LinesInRing \o LinesInQueue, output>>
    BY AsyncLoggerAssumption, StepIsOfTheLog
  <1> QED BY <1>1, <1>2, <1>3, LoggerInvariant, OrderInvariant, PTL
          DEF Spec, ImplementsOrderedLog, Abstract!Spec
=============================================================================
