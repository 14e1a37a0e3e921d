----------------------------- MODULE AsyncLogger -----------------------------
(***************************************************************************)
(* The asynchronous logger of cm/src/logger.c.  With log type 1 the        *)
(* threads write their formatted lines into a ring of buffers, under       *)
(* gLoggerMutex; with type 2 they take an item from a queue of idle ones,  *)
(* fill it and push it to a queue of busy ones.  The logger thread writes  *)
(* the lines out.                                                          *)
(*                                                                         *)
(* A line has a kind (text from LoggerWriteMsg, a dump from                *)
(* LoggerWriteMem), the length it has when formatted, and a number: the    *)
(* n-th line that was accepted.  What is done under gLoggerMutex is one    *)
(* step.  The model starts when LoggerInit has returned.                   *)
(***************************************************************************)
EXTENDS Integers, Sequences, FiniteSets, SequencesExt, Functions

CONSTANTS Writers,      \* the threads that log
          NoItem,       \* a null LogInfo pointer
          Items,        \* gLogInfoNodeArray
          MAX_NUM_LOG_BUFFER_BLOCK,
          Configs,      \* logType, logBufferingSize, and whether asyncWaitTime is set
          Lines,        \* the kinds and lengths of lines
          MSG_RESERVE,  \* room AsyncWriteMsg and ProcessLogQueue expect a text to need
          MEM_RESERVE,  \* what LoggerWriteMem adds to the length of a dump
          LOG_BUFF,     \* the size of ProcessLogQueue's buffer
          MaxLines      \* bound: lines altogether

Buffers == 0 .. MAX_NUM_LOG_BUFFER_BLOCK - 1

ASSUME AsyncLoggerAssumption ==
    /\ MAX_NUM_LOG_BUFFER_BLOCK \in Nat \ {0}
    /\ Configs \subseteq [logType : {1, 2}, size : Nat, timed : BOOLEAN]
    /\ Lines \subseteq [kind : {"msg", "mem"}, len : Nat \ {0}]
    /\ \A l \in Lines : l.kind = "mem" => l.len < LOG_BUFF
    /\ MSG_RESERVE \in Nat /\ MEM_RESERVE \in Nat /\ LOG_BUFF \in Nat /\ MaxLines \in Nat
    /\ NoItem \notin Items /\ IsFiniteSet(Items) /\ IsFiniteSet(Writers)

VARIABLES config,    \* gLoggerConfig_s
          ring,      \* gLogBufferQueue: fullFlag, length, and the lines in logData
          write,     \* gpWriteBuffer
          read,      \* gpReadBuffer
          idle,      \* gIdleLogInfoQueue
          busy,      \* gBusyLogInfoQueue: the items with their lines
          filling,   \* the item each writer popped and has not pushed yet
          pc,        \* where the logger thread is
          count,     \* ProcessLogQueue's count
          logBuff,   \* the lines in its logBuff, and offset
          inHand,    \* the item it has popped
          lines,     \* lines accepted so far
          tries,     \* calls of LoggerWriteMsg and LoggerWriteMem so far
          output,    \* the lines written out so far
          cut        \* the lines that were stored without their end

ringVars == <<ring, write, read, cut>>
queueVars == <<idle, busy, filling>>
processVars == <<count, logBuff, inHand>>
vars == <<config, ringVars, queueVars, pc, processVars, lines, tries, output>>

EmptyBuffer == [full |-> FALSE, length |-> 0, lines |-> <<>>]
EmptyLogBuff == [lines |-> <<>>, offset |-> 0]
Nothing == [item |-> NoItem, line |-> 0, kind |-> "msg", len |-> 0]

Init ==
    /\ config \in Configs
    /\ ring = [b \in Buffers |-> EmptyBuffer]
    /\ write = 0 /\ read = 0
    /\ cut = {}
    /\ idle = SetToSeq(Items) /\ busy = <<>>
    /\ filling = [t \in Writers |-> NoItem]
    /\ pc = "check"
    /\ count = 0 /\ logBuff = EmptyLogBuff /\ inHand = Nothing
    /\ lines = 0 /\ tries = 0
    /\ output = <<>>

NextBuffer(b) == (b + 1) % MAX_NUM_LOG_BUFFER_BLOCK

\* pthread_cond_signal
Signal == pc' = IF pc = "asleep" THEN "check" ELSE pc

Try == tries < MaxLines /\ tries' = tries + 1
-----------------------------------------------------------------------------
(***************************************************************************)
(* Type 1: AsyncWriteMsg and LoggerWriteMem.                               *)
(***************************************************************************)
\* Mutant: a dump is taken for a text
Reserve_DumpAsText(l) == MSG_RESERVE

Reserve(l) == IF l.kind = "msg" THEN MSG_RESERVE ELSE l.len + MEM_RESERVE

\* the line may not fit behind what is in the write buffer
NeedsNextBuffer(l) ==
    /\ config.size # 0
    /\ ring[write].length # 0
    /\ Reserve(l) + ring[write].length >= config.size

\* snprintf keeps what fits with its terminating zero
Stored(l, length) ==
    IF config.size # 0 /\ length + l.len >= config.size THEN config.size - 1 - length ELSE l.len

\* a buffer, and the buffer b of the ring r, with the line l added
Longer(buffer, l) ==
    [full |-> buffer.full, length |-> buffer.length + Stored(l, buffer.length),
     lines |-> Append(buffer.lines, lines + 1)]
WithLine(r, b, l) == [r EXCEPT ![b] = Longer(@, l)]

\* Mutant: no signal for a buffer left because the line may not fit
WriteLine_NoSignalOnMove(r, b, l, moved) ==
    LET added == WithLine(r, b, l)
        full == added[b].length >= config.size
    IN /\ ring' = IF full THEN [added EXCEPT ![b].full = TRUE] ELSE added
       /\ write' = IF full THEN NextBuffer(b) ELSE b
       /\ cut' = IF Stored(l, r[b].length) < l.len THEN cut \cup {l} ELSE cut
       /\ lines' = lines + 1
       /\ IF full THEN Signal ELSE UNCHANGED pc

WriteLine(r, b, l, moved) ==
    LET added == WithLine(r, b, l)
        full == added[b].length >= config.size
    IN /\ ring' = IF full THEN [added EXCEPT ![b].full = TRUE] ELSE added
       /\ write' = IF full THEN NextBuffer(b) ELSE b
       /\ cut' = IF Stored(l, r[b].length) < l.len THEN cut \cup {l} ELSE cut
       /\ lines' = lines + 1
       /\ IF full \/ moved THEN Signal ELSE UNCHANGED pc

DropLine == Signal /\ UNCHANGED <<lines, cut>>

\* the write buffer has caught up with the reader: the line is dropped
WriteToFullRing(l) ==
    /\ config.logType = 1 /\ Try
    /\ ring[write].full
    /\ DropLine
    /\ UNCHANGED <<config, ring, write, read, queueVars, processVars, output>>

WriteToSameBuffer(l) ==
    /\ config.logType = 1 /\ Try
    /\ ~ring[write].full
    /\ ~NeedsNextBuffer(l)
    /\ WriteLine(ring, write, l, FALSE)
    /\ UNCHANGED <<config, read, queueVars, processVars, output>>

WriteToNextBuffer(l) ==
    /\ config.logType = 1 /\ Try
    /\ ~ring[write].full
    /\ NeedsNextBuffer(l)
    /\ LET marked == [ring EXCEPT ![write].full = TRUE]
           next == NextBuffer(write)
       IN IF marked[next].full
          THEN ring' = marked /\ write' = next /\ DropLine
          ELSE WriteLine(marked, next, l, TRUE)
    /\ UNCHANGED <<config, read, queueVars, processVars, output>>
-----------------------------------------------------------------------------
(***************************************************************************)
(* Type 2: an item is popped, filled and pushed.                           *)
(***************************************************************************)
PopIdleItem(t) ==
    /\ config.logType = 2 /\ Try
    /\ filling[t] = NoItem
    /\ \/ /\ idle # <<>>
          /\ filling' = [filling EXCEPT ![t] = Head(idle)]
          /\ idle' = Tail(idle)
          /\ UNCHANGED pc
       \/ /\ idle = <<>>
          /\ Signal
          /\ UNCHANGED <<idle, filling>>
    /\ UNCHANGED <<config, ringVars, busy, processVars, lines, output>>

PushBusyItem(t, l) ==
    /\ filling[t] # NoItem
    /\ lines' = lines + 1
    /\ busy' = Append(busy, [item |-> filling[t], line |-> lines + 1, kind |-> l.kind, len |-> l.len])
    /\ filling' = [filling EXCEPT ![t] = NoItem]
    /\ UNCHANGED <<config, ringVars, idle, pc, processVars, tries, output>>
-----------------------------------------------------------------------------
(***************************************************************************)
(* The logger thread: LoggerEntryFunc and ProcessLogQueue.                 *)
(***************************************************************************)
\* Mutant: the thread waits for a full buffer
NothingToWrite_UntilFull ==
    \/ config.logType = 1 /\ ~ring[read].full
    \/ config.logType = 2 /\ busy = <<>>

NothingToWrite ==
    \/ config.logType = 1 /\ ring[read].length = 0
    \/ config.logType = 2 /\ busy = <<>>

Sleep ==
    /\ pc = "check" /\ NothingToWrite
    /\ pc' = "asleep"
    /\ UNCHANGED <<config, ringVars, queueVars, processVars, lines, tries, output>>

\* pthread_cond_timedwait
TimeOut ==
    /\ pc = "asleep" /\ config.timed
    /\ pc' = "check"
    /\ UNCHANGED <<config, ringVars, queueVars, processVars, lines, tries, output>>

\* Mutant: the reader moves on from a buffer that is not full
WriteReadBuffer_AlwaysMoves ==
    /\ pc = "check" /\ ~NothingToWrite /\ config.logType = 1
    /\ output' = output \o ring[read].lines
    /\ ring' = [ring EXCEPT ![read] = EmptyBuffer]
    /\ read' = NextBuffer(read)
    /\ UNCHANGED <<config, write, cut, queueVars, pc, processVars, lines, tries>>

\* the buffer is written out whether full or not; only a full one is left
WriteReadBuffer ==
    /\ pc = "check" /\ ~NothingToWrite /\ config.logType = 1
    /\ output' = output \o ring[read].lines
    /\ ring' = [ring EXCEPT ![read] = EmptyBuffer]
    /\ read' = IF ring[read].full THEN NextBuffer(read) ELSE read
    /\ UNCHANGED <<config, write, cut, queueVars, pc, processVars, lines, tries>>

ProcessLogQueue ==
    /\ pc = "check" /\ ~NothingToWrite /\ config.logType = 2
    /\ pc' = "pop"
    /\ count' = Len(busy)
    /\ UNCHANGED <<config, ringVars, queueVars, logBuff, inHand, lines, tries, output>>

WithItem(b, i) == [lines |-> Append(b.lines, i.line), offset |-> b.offset + i.len]

\* Mutant: the item is counted when it is popped and again when it is recycled
PopBusyItem_CountsTwice ==
    /\ pc = "pop" /\ count > 0 /\ busy # <<>>
    /\ pc' = "recycle"
    /\ logBuff' = WithItem(logBuff, Head(busy))
    /\ count' = count - 1
    /\ inHand' = Head(busy)
    /\ busy' = Tail(busy)
    /\ UNCHANGED <<config, ringVars, idle, filling, lines, tries, output>>

\* a dump that does not fit goes back to the head of the queue
PopBusyItem ==
    /\ pc = "pop" /\ count > 0 /\ busy # <<>>
    /\ LET i == Head(busy) IN
        IF i.kind = "mem" /\ logBuff.offset + i.len >= LOG_BUFF
        THEN pc' = "pushBack" /\ UNCHANGED logBuff
        ELSE pc' = "recycle" /\ logBuff' = WithItem(logBuff, i)
    /\ inHand' = Head(busy)
    /\ busy' = Tail(busy)
    /\ UNCHANGED <<config, ringVars, idle, filling, count, lines, tries, output>>

\* Mutant: the item goes to the end of the queue
PushBack_AtTheEnd ==
    /\ pc = "pushBack"
    /\ busy' = Append(busy, inHand)
    /\ inHand' = Nothing
    /\ pc' = "flush"
    /\ UNCHANGED <<config, ringVars, idle, filling, count, logBuff, lines, tries, output>>

\* Mutant: the item is recycled all the same
PushBack_Recycles ==
    /\ pc = "pushBack"
    /\ busy' = <<inHand>> \o busy
    /\ idle' = Append(idle, inHand.item)
    /\ inHand' = Nothing
    /\ pc' = "flush"
    /\ UNCHANGED <<config, ringVars, filling, count, logBuff, lines, tries, output>>

PushBack ==
    /\ pc = "pushBack"
    /\ busy' = <<inHand>> \o busy
    /\ inHand' = Nothing
    /\ pc' = "flush"
    /\ UNCHANGED <<config, ringVars, idle, filling, count, logBuff, lines, tries, output>>

RecycleItem ==
    /\ pc = "recycle"
    /\ idle' = Append(idle, inHand.item)
    /\ inHand' = Nothing
    /\ count' = count - 1
    /\ pc' = IF logBuff.offset + MSG_RESERVE >= LOG_BUFF - 1 THEN "flush" ELSE "pop"
    /\ UNCHANGED <<config, ringVars, busy, filling, logBuff, lines, tries, output>>

\* Mutant: the logger thread's buffer keeps what it has written
LoggerOutputLog_KeepsLines ==
    /\ pc = "flush" \/ (pc = "pop" /\ (count = 0 \/ busy = <<>>))
    /\ output' = output \o logBuff.lines
    /\ count' = 0
    /\ pc' = "check"
    /\ UNCHANGED <<config, ringVars, queueVars, logBuff, inHand, lines, tries>>

LoggerOutputLog ==
    /\ pc = "flush" \/ (pc = "pop" /\ (count = 0 \/ busy = <<>>))
    /\ output' = output \o logBuff.lines
    /\ logBuff' = EmptyLogBuff
    /\ count' = 0
    /\ pc' = "check"
    /\ UNCHANGED <<config, ringVars, queueVars, inHand, lines, tries>>

Log(t) ==
    \/ PopIdleItem(t)
    \/ \E l \in Lines : PushBusyItem(t, l)

\* with logBufferingSize 0 snprintf gets no room for a dump: only text is defined then
LogToRing ==
    \E l \in Lines :
        /\ config.size = 0 => l.kind = "msg"
        /\ WriteToFullRing(l) \/ WriteToSameBuffer(l) \/ WriteToNextBuffer(l)

LoggerThread ==
    \/ Sleep \/ TimeOut \/ WriteReadBuffer
    \/ ProcessLogQueue \/ PopBusyItem \/ PushBack \/ RecycleItem \/ LoggerOutputLog

Done == tries = MaxLines /\ UNCHANGED vars

Next == LogToRing \/ (\E t \in Writers : Log(t)) \/ LoggerThread \/ Done

\* the scheduler runs the logger thread again and again
Spec == Init /\ [][Next]_vars /\ WF_vars(LoggerThread)
-----------------------------------------------------------------------------
Kinds == {"msg", "mem"}
BusyItems == [item : Items, line : 1 .. MaxLines, kind : Kinds, len : Nat]
BufferContents == [full : BOOLEAN, length : Nat, lines : Seq(1 .. MaxLines)]

\* Every variable has its type.
TypeOK ==
    /\ config \in Configs
    /\ ring \in [Buffers -> BufferContents]
    /\ write \in Buffers /\ read \in Buffers
    /\ idle \in Seq(Items)
    /\ busy \in Seq(BusyItems) /\ inHand \in BusyItems \cup {Nothing}
    /\ filling \in [Writers -> Items \cup {NoItem}]
    /\ pc \in {"check", "asleep", "pop", "pushBack", "recycle", "flush"}
    /\ count \in Nat
    /\ logBuff \in [lines : Seq(1 .. MaxLines), offset : Nat]
    /\ lines \in 0 .. MaxLines /\ tries \in 0 .. MaxLines
    /\ output \in Seq(1 .. MaxLines)
    /\ cut \subseteq Lines

\* the lines in the ring from the reader on, and those in the logger thread and the queue
LinesInRing ==
    FlattenSeq([i \in 1 .. MAX_NUM_LOG_BUFFER_BLOCK |->
                   ring[(read + i - 1) % MAX_NUM_LOG_BUFFER_BLOCK].lines])
LinesInQueue ==
    logBuff.lines \o (IF pc = "pushBack" THEN <<inHand.line>> ELSE <<>>)
                  \o [i \in 1 .. Len(busy) |-> busy[i].line]

\* EachLineOnceInOrder: what was written out and what still waits are together the
\* accepted lines, each of them once and in the order they were accepted.  Neither
\* the ring that wraps around, nor a dump that goes back to the queue, nor a
\* buffer written out before it is full loses, repeats or overtakes a line; and the
\* room the two writers check for is enough for every dump that fits in a buffer and
\* for every text up to the reserve, so no other line loses its end.
EachLineOnceInOrder ==
    /\ output \o LinesInRing \o LinesInQueue = [n \in 1 .. lines |-> n]
    /\ \A l \in cut : l.len >= config.size \/ (l.kind = "msg" /\ l.len > MSG_RESERVE)

\* ImplementsOrderedLog: with the lines in the ring or in the queue as those that wait,
\* every step of a writer or of the logger thread accepts one line behind the others,
\* writes out the first of those that wait, or moves lines without changing their
\* order.  A line that is written is neither written again nor changed.
Abstract == INSTANCE OrderedLog WITH accepted <- lines, waiting <- LinesInRing \o LinesInQueue
ImplementsOrderedLog == Abstract!Spec

\* ReaderStandsAtTheOldest: when the reader's buffer is empty the whole ring is, so
\* the logger thread, which looks only at that buffer, never sleeps on waiting text.
ReaderStandsAtTheOldest ==
    ring[read].length = 0 => \A b \in Buffers : ring[b].length = 0

\* the buffers a reader meets before b
Distance(b) == IF b >= read THEN b - read ELSE b - read + MAX_NUM_LOG_BUFFER_BLOCK

\* The ring: either all buffers are full and the writer has caught up with the reader, or
\* those from the reader to the writer are full, the writer's is not, and the rest is empty.
RingOrdered(r, w) ==
    /\ \A b \in Buffers :
          /\ r[b].full => r[b].length > 0
          /\ config.size # 0 => r[b].length < config.size
    /\ \/ w = read /\ \A b \in Buffers : r[b].full
       \/ /\ ~r[w].full
          /\ \A b \in Buffers :
                /\ Distance(b) < Distance(w) => r[b].full
                /\ Distance(b) > Distance(w) => ~r[b].full /\ r[b].length = 0

RingInv == RingOrdered(ring, write)

ItemsOf(s) == {s[i].item : i \in 1 .. Len(s)}
InHand == {inHand.item} \ {NoItem}
BeingFilled == {filling[t] : t \in Writers} \ {NoItem}
FillingWriters == {t \in Writers : filling[t] # NoItem}

\* ItemsAreConserved: every LogInfo item is in exactly one queue, with one writer
\* or with the logger thread; none is lost and none is in two places.
ItemsAreConserved ==
    /\ TypeOK
    /\ ToSet(idle) \cup ItemsOf(busy) \cup InHand \cup BeingFilled = Items
    /\ Len(idle) + Len(busy) + Cardinality(InHand) + Cardinality(FillingWriters)
          = Cardinality(Items)

\* Who has an item in hand, and how many lines may still come of the calls so far.
HandsInv ==
    /\ inHand # Nothing <=> pc \in {"pushBack", "recycle"}
    /\ pc = "recycle" => count > 0
    /\ lines + Cardinality(FillingWriters) <= tries

\* EveryLineIsWritten: with an asyncWaitTime every accepted line is written out in
\* the end, though nobody signals for a buffer or a queue that is not full.
EveryLineIsWritten ==
    \A n \in 1 .. MaxLines : (config.timed /\ lines >= n) ~> Len(output) >= n

\* FullBuffersAreWritten: a full buffer is written out and free again, also without
\* an asyncWaitTime: no signal for it is lost.
FullBuffersAreWritten == \A b \in Buffers : ring[b].full ~> ~ring[b].full
=============================================================================
