# TLA+ verification of fsulp

fsulp listens to the uplink of an LTE cell.  The ULP process receives MAC PDUs
from the physical layer, takes them through MAC, RLC, PDCP and RRC/NAS, collects
the identities of the UEs it meets and reports them to an operations-and-maintenance
(OAM) peer in UDP datagrams.  A second process, the DPE (data processing engine), receives the
sightings of UEs, follows one of them by when it returns, stores logins in a database and
analyses them.  A daemon starts each program again when it ends, and a heartbeat tester
asks the ULP whether it lives.  The program only listens: it
cannot ask a UE to repeat anything, it shares its few memory pools between threads,
and it has to run for ever.

This directory holds TLA+ models of these processes, the TLC configurations that check
them on small instances, and TLAPS proofs.  All source paths are relative to the
repository.  Where a comment in a module says "Mutant", the definition below it is a
deliberately wrong variant of the definition that follows; `PROJECT.json` says which
property must notice it.

## 1. Inventory

### Threads

| thread | started by | loop | model |
|---|---|---|---|
| trigger (priority 90) | `exe/ulp/src/lteTrigger.c` | every polling interval: `UlpOneMilliSecondIsr` sends the events of the others | `EventLoop`, `Supervision` |
| ULP worker (98) | `ulp/src/lteUlpMgr.c` | `EventWait`, then PHY data, then the OAM report | `EventLoop`, `Supervision`, `MacDemux`, `RlcAm`, `RlcContext`, `RrcParse`, `UeReport` |
| resource cleaner (95) | `ulp/src/lteResCleaner.c` | `EventWait`, then `ExecuteCleanup` | `EventLoop`, `RlcContext` |
| KPI (85) | `ulp/src/lteKpi.c` | `EventWait`, then `KpiRefresh` | `EventLoop`, `Supervision`, `MemPool` |
| logger (80) | `cm/src/logger.c` | condition wait with or without a time limit, then write out | `AsyncLogger` |
| DPE receiver | `dpe/src/UeLoginInfoReceiver.cpp` | every 10 ms a notification: read one message, else check the target | `TargetTracker`, `Dpe` |
| DPE requests | `dpe/src/DpEngine.cpp` | a request of a user: query, count, store | `LoginInfo`, `Dpe` |
| daemon (a process) | `exe/deamon/src/deamon.cpp` | fork, execv, wait, again | `Supervision` |
| heartbeat tester (a process) | `exe/hbt/src/hbt.c` | every 3 s: request, or a miss | `Supervision` |

### Components

| component | state it keeps | operations | what makes it correct |
|---|---|---|---|
| memory pools, `mempool.c` | a free list per block size, `isInUsed` and `length` in each block | `MemAlloc`, `MemFree`, `MemJoin`, `MemRemove`, `MemGetAvailableMemBlock` | a block is free or has one owner; a length fits its block; a failed join loses nothing |
| linked list, `list.c` | head, tail, count, next/prev of each node | push at either end, pop, delete a node | the pointers are a sequence, whoever deletes what |
| events, `event.c`, `lteUlpMgr.c`, `lteTrigger.c` | flag, mutex, condition variable; the KPI counter | `EventSend`, `EventWait`, the tick | no wake-up is lost, every thread runs again and again |
| MAC demultiplexer, `lteMac.c` | a cursor in the PDU, `demuxData`, two scratch blocks | decode subheaders, copy SDUs to RRC and RLC | the right bytes reach the right layer; scratch blocks come back |
| MAC UE contexts, `lteMac.c` | `gMacUeContext` with idle counters | find or create, age, delete | one per RNTI, gone when the UE is gone |
| RLC AM receiver, `lteRlc.c` | per entity: the PDU in hand, a queue of data field elements, the raw SDU, a report list | decode, reassemble, deliver | delivered SDUs are genuine; every block is accounted for |
| RLC UE contexts, `lteRlc.c`, `lteResCleaner.c` | `gRlcUeContextList`, `idleCount`, `deleteFlag` | find or create (worker), age and delete (cleaner) | nobody uses a deleted context; idle ones go away |
| PDCP, `ltePdcp.c` | none | strip the header, hand SRB data to RRC, free the rest | ownership of the buffer is handed on once |
| RRC/NAS, `lteRrc.c` | `gRrcUeContextList`, `gReadyRrcUeContextList` | parse UL-DCCH and UL-CCCH, store an IMSI or M-TMSI | identities of different UEs do not mix; all three buffers of a message come back |
| OAM report, `lteUlpWorker.c` | the datagram, the walk over three lists | fill and send | every identity is reported; the datagram is never overfilled |
| KPI, `lteKpi.c` | counters | count used blocks, print | plausible numbers although unlocked |
| logger, `logger.c` | a ring of buffers (type 1) or idle and busy queues of items (type 2) | write a text or a dump, flush | each line once, in order, in the end |
| RRC and NAS codecs, `asn1.c`, `asn1Lib.c` | a pointer into the message and a count of bits | unpack a message | whole messages are read, cut ones refused; the counter is exact |
| target location, `target.c` | the message to the DPE, filled in until it is full | a UE came up, send | no sighting is written beyond the message |
| uplink grants, `dci0.c` | none | code and decode a grant | decoding inverts coding |
| DPE receiver, `UeLoginInfoReceiver.cpp` | the target with its last sighting and misses, candidates | a report, an identity, a tick | a target is lost only if it stayed away; the server knows |
| DPE engine, `DpEngine.cpp` | the query in hand, login times by IMSI | a request with its rows | statistics count what the query returned, for its users |
| database access, `dbImpl.c` | the tables, in sqlite3 | insert, query with a callback per row | a failed statement leaves no half of a row |
| daemon and heartbeat | processes, failures in a row; disconnect time | restart, request, response | one instance; an outage is noticed |
| configuration, files, sockets, JSON, messaging | see section 7 | | |

### How they interact

MAC hands RRC a CCCH SDU and RLC a list of SDUs by direct calls in the worker; RLC
calls PDCP, which calls RRC, in the same thread; each call passes the ownership of one
memory block.  The cleaner shares the RLC context list with the worker, under a lock
for pushing and unlinking only.  All threads share the pools.  The trigger and the
others meet in the events.  Every thread calls the logger.

The worker sends the DPE a datagram with the UEs that came up (`target.c`) and one with
identities; both end in the receiver's socket.  The receiver's thread and a user's request
share the database.  The daemon knows of its program only when it ends; the heartbeat
tester knows of the ULP only by its responses, which the worker gives between two passes.

### What is hard here

* Unlocked tests: `MemFree` ("TODO need to add lock here"), `ListDeleteNode` reading
  `count`, the worker reading `deleteFlag`, the KPI thread reading list lengths.
* Every packet allocates up to seven blocks, any of which may be refused, and each
  early return has a clean-up of its own.
* Segments are lost, repeated and out of order, and sequence numbers wrap around.
* A datagram of limited size is filled by three loops.
* Wake-ups: a flag with merged notifications, and a logger thread that looks at one
  buffer of a ring only.
* The target is followed by estimates: each stored time is computed from the one before,
  a message counts misses, and a tick counts them too.
* A program may end at any point and is started again beside what its predecessor left in
  sockets; fork and execv may fail.
* Decoders trust lengths they compute by hand and ignore lengths the message states.

`PROJECT.json` lists these under `hazards`, each at its line.

## 2. Modules

| module | models | state and actions |
|---|---|---|
| `MemPool` | `ulp/src/mempool.c`, and the block count of `ulp/src/lteKpi.c` | `pool` is the free list of each pool, `isInUsed` and `length` the block headers, `held[t]` the buffers of a thread.  A call is several steps, one per statement that another thread can tell apart: `MemAllocPop`/`MemAllocMark`, `MemFreeCheck`/`MemFreeClear`/`MemFreePush`, `MemJoin`; the KPI thread reads one list per step |
| `LinkedList` | `ulp/src/list.c` | one record of pointers (`ListOf`); `PushTail`, `PushHead`, `DeleteMiddle` ... are functions from lists to lists.  `ListDeleteNode` is two steps: `count` is read before the lock |
| `SeqList` | what a list promises (the abstract specification) | a sequence, pushed at both ends, popped at the head |
| `EventLoop` | `ulp/src/event.c`, `lteUlpMgr.c`, `exe/ulp/src/lteTrigger.c`, `NotifyKpi` | the mutex, the flag, the place of each waiting thread and of the trigger; lock, set, signal and unlock are steps, the test of the flag and the sleep that releases the mutex are two, a sleeper may wake up unasked |
| `MacDemux` | `MacProcessUlSchPdu`, `MacDeMultiplexAndSend` and what they call | one step per subheader, then one per part of the payload; a PDU is its length and subheaders |
| `RlcAm` | `RlcProcessAMRxPacket`, decoding, segmentation into elements, reassembly, delivery, and `PdcpUeDataInd`'s ownership | one step per allocation or element; each block has a name, so that leaks and dangling pointers show |
| `RlcContext` | context lookup, creation and use in `lteRlc.c`, `ExecuteCleanup` | the worker and the cleaner, one step per unlocked read |
| `RrcContexts` | the context operations of `lteRrc.c` | `MakeContext`, `RrcUpdateImsi`, `RrcUpdateMTmsi`, shared by the next two modules |
| `RrcParse` | `RrcParseUlDcchMsg`, `RrcParseUlCcchMsg`, the NAS functions | one step per allocation and decoder; `live` says which of the message's three buffers are allocated |
| `UeReport` | `UlpRecvAndHandleOamData`, the MAC contexts | packets between passes, then one step per turn of each of the three loops |
| `AsyncLogger` | the asynchronous half of `cm/src/logger.c` | the ring (type 1) and the queues (type 2); what happens under `gLoggerMutex` is one step |
| `OrderedLog` | what a log promises (the abstract specification) | lines are accepted behind those that wait; the first of them are written out |
| `Supervision` | `exe/deamon/src/deamon.cpp`, `exe/hbt/src/hbt.c`, the worker's answers | extends `EventLoop`: the program's threads are its threads; the daemons by where they stand in fork, execv and wait; requests and responses in two queues |
| `TargetTracker` | the target and candidates of `UeLoginInfoReceiver.cpp` | ages since the last sighting instead of times; one operator per message, with its branches by age and misses |
| `LoginInfo` | `DpEngine.cpp`, the login part of the receiver, `dbImpl.c` | tables as sequences of rows; a query takes a step per row, so inserts may come between |
| `Dpe` | `target.c`, the receiver's loop | composes the two above: the message being filled, the datagrams under way, one notification |
| `Dci0` | `dci0.c` | functions from grants to bit fields and back |
| `RrcCodec` | `asn1.c` and the RRC half of `asn1Lib.c` | a cursor: bits read, and `nBits` as it is reduced by hand |
| `NasCodec` | the NAS half of `asn1Lib.c` | positions in the message |

The proofs (section 5) are in modules of their own, which extend the modules they are about:

| module | about |
|---|---|
| `CollectionLemmas` | the operators on sequences and sets that the models use |
| `MemPoolProofs` | `MemPool` |
| `LinkedListProofs` | `LinkedList`, and that it implements `SeqList` |
| `RlcProofs` | `RlcContext`; `RlcAm` |
| `RrcProofs` | `RrcContexts`, `UeReport`, `RrcParse` |
| `LoggerProofs` | `AsyncLogger`, and that it implements `OrderedLog` |
| `ProcessProofs` | `EventLoop` and `Supervision`; `TargetTracker`, `LoginInfo` and `Dpe` |
| `CodecProofs` | `Dci0`, `RrcCodec`, `NasCodec`; `MacDemux` |

How they fit: `UeReport` and `RrcParse` both extend `RrcContexts`, so the report works
on exactly the contexts the parser fills.  `MemPool` uses sequences for the
free lists, and `LinkedList` shows that `list.c` provides them.  `RlcAm` and
`RrcParse` let an allocation fail at any time, which is what `MemPool` lets happen to a
thread that shares its pools.  `RlcContext` treats the work inside a context as one
step, and `RlcAm` is that step in detail.  `RlcContext`, `UeReport` rely on every
thread being notified for ever, which `Supervision` shows for `EventLoop`'s threads, also
when the program crashes in the middle of a notification.  The answers `RrcParse` gets from
its decoders are those that `RrcCodec` and `NasCodec` are about.

The data is abstracted: an SDU is the list of the fragments it was built from, a PDU
the lengths and kinds of its parts, an identity a model value, a log line its number,
kind and length.  The control (guards, error returns, order of the calls) is complete
in each modelled function.  In `RrcParse` the decoders of ASN.1 and NAS may accept or refuse
any message; `MemAlloc` may refuse at any time outside `MemPool`.  `TargetTracker` keeps the
age of a sighting, not its time, in units much longer than a turn of the receiver's loop.

## 3. Runs

Each configuration is checked with `tlc -config <cfg> <module>`.  A type invariant is
checked by its name (`DpeTypeOK`) or is a conjunct of the module's first invariant; that of
`MemPool` is proved (`TypeCorrect`), and its one delicate part, a length that could fall below
0, is checked in `LengthFits`.

| run | bounds | shows |
|---|---|---|
| `mempool` | 2 threads, 3 blocks in 2 pools, lengths 1 and 3 | `BlockConservation`, `NoDoubleFree`, `LengthFits`, `KpiMemInRange` in every interleaving of two callers and the KPI thread.  Two blocks in the first pool and one in the second are enough for a fall-through, an empty pool, a join in place and by copy, and a join that fails |
| `linked_list` | 4 nodes, 2 threads | `WellLinked`, and the refinement `ImplementsSeqList`.  Four nodes give a deletion at the head, at the tail and two different ones in the middle; the second thread makes the count stale |
| `supervision` | the events of worker and KPI thread, KPI period 2; 3 processes, 1 crash, 2 failing forks in a row before the daemon gives up, 1 failing execv; queues of 2, 2 requests | `NoSleeperIsForgotten`, `OneInstance`, and under fairness `EveryThreadRunsAgain`, `HeartbeatTestEnds`, `DeadUlpIsNoticed`.  Each event has a mutex, flag and condition of its own, so two events show what three would: one sent at every tick, one at every second.  A failed execv leaves a second daemon, whose fork is the third process |
| `mac_demux` | all PDUs of up to 3 subheaders and 12 bytes, 2 entries of `demuxData` | `SdusAsSent`, `CopiesStayInside`, `CopiesAreDisjoint`, `BlocksComeBack`.  Three subheaders overflow `demuxData`, 12 bytes hold the longest payload the subheaders can state, and all kinds of subheaders are there, malformed PDUs included |
| `rlc_am` | a script of 11 packets, sequence numbers modulo 4, 10 blocks | `MemoryAccounted`, `GenuineSdus`, `ReportsMatchSegments`.  SDUs in one, two and three segments with packets lost, repeated and reordered; sequence numbers wrap around; every allocation may fail; five of the packets must be refused |
| `rlc_am_repeat` | the same, any packet repeated | finds `GenuineSdus` violated (section 6) |
| `rlc_context` | 2 UEs, 3 contexts, idle after 2 passes, 4 packets | `ListHoldsLiveContexts`, `CleanerStandsOnLiveContexts`, `SilentUesAreForgotten`.  Three contexts for two UEs leave room for the second context a UE may get |
| `rlc_context_use` | the same, at most one pass of the cleaner during a packet | finds `WorkerUsesLiveContext` violated (section 6) |
| `ue_report` | 2 RNTIs, 2 IMSIs, 1 M-TMSI, 2 entries per datagram, 4 packets | `NoIdentityIsDropped`, `OneContextPerRnti`, `EveryIdentityIsReported`, `ContextsAreReleased`.  Four packets fill a datagram of two in each of the loops and replace identities of both UEs |
| `rrc_parse` | 2 RNTIs, 2 IMSIs, 2 M-TMSIs, 3 messages | `BuffersLiveAsLongAsUsed`, `IdentitiesOfTheUe`.  Three messages suffice for an identity to be stored, replaced and kept on the ready list while another UE interferes |
| `async_logger` | 2 writers, ring of 2 buffers, 3 items, 5 lines, both log types, with and without `asyncWaitTime`, with and without buffering | `EachLineOnceInOrder`, `ReaderStandsAtTheOldest`, `ItemsAreConserved`, the refinement `ImplementsOrderedLog`, and under fairness `EveryLineIsWritten`, `FullBuffersAreWritten`.  Five lines of mixed length fill both buffers and wrap around |
| `dpe` | both builds (`TARGET_LOCATION`, `TARGET_ANALYSIS`), return interval 10 with a margin of 4, report period 2; 4 sightings, 2 per message, 1 message under way; 2 IMSIs, 2 days, 3 logins, 2 requests | `DpeTypeOK`, `OamHearsOfLoss`, `MissesAreReal`, `NominalTimesStayTrue`, `BehaviorsAreOfTheirQuery`, `LostOnlyWhenSilent`, `SilentTargetIsGivenUp`.  Four sightings make a candidate, a target, a late and an early return; a margin of 4 out of 10 separates the branches by age.  Two requests show what the first leaves for the second |

Deadlock is checked in all of them but two; where a bound ends the behaviour the module has a
stuttering step for it or another thread goes on.  `supervision` may stop: the daemon gives
up after failures in a row and the tester ends.  `dpe` stops when its sightings and
requests are used up and nobody is followed.

Conditions under which passing runs hold, and what lies outside of them:

* `rlc_am`: the one packet of the script that ends an SDU and starts another is not
  repeated (`RepeatedSafely`, lifted in `rlc_am_repeat`), and `MemJoin` always finds a block
  (`JoinMayFail`): with `JoinMayFail = TRUE`, `MemoryAccounted` is violated (section 6).
  `InWindow` excludes gaps as large as the whole sequence number space.  The script is one a
  UE may send (`SentInOrder`), and in no packet that the decoder accepts does a length
  indicator leave an empty last element or a whole SDU of one byte (`NoTinySdus`), for which
  `RlcUeDataInd` and `PdcpUeSrbDataInd` keep the buffer.  `MCRlcAm` asserts both of its
  `Stream`; they are hypotheses of the theorems.
* `rrc_parse`: `CcchContextMayFail = FALSE` leaves out one path; without memory for the
  context, `RrcParseUlCcchMsg` returns before it frees `pData` (`lteRrc.c:286`).  The
  invariants say so (`BuffersLiveAsLongAsUsed` excepts this one buffer when the constant is
  true) and are proved for both values.
* `mac_demux`: `CopiesStayInside` is about PDUs that end with an SDU.  For those that
  end with padding or a control element no test ties the stated lengths to what is left
  behind the header.
* `async_logger`: dumps are shorter than the buffer of the logger thread.
* `supervision`: `MaxCrashes`, `MaxForkFailures` and `MaxExecFailures` bound the faults, so
  `EveryThreadRunsAgain` speaks of a program that is up again after them.
* `dpe`: statistics are exact for the rows a query was given; an error in the middle of the
  rows ends them like their end, and a login whose insert failed is not counted.

## 4. Fairness

* `EventLoop`: weak fairness of the trigger (it sleeps and ticks) and of each waiting
  thread (its passes end), strong fairness of getting a mutex.  The mutexes are held for
  a few statements, the trigger sleeps between ticks and the threads have real-time
  priorities, so a mutex that is free again and again is got.  Spurious wake-ups are
  possible and never required.
* `Supervision`: the same for the program's threads; weak fairness of the daemons, which
  wait in `waitpid` or go on, and of the heartbeat tester, whose timer has a limit of 3 s.
  Crashes, failing forks and failing execvs may happen and need not.
* `Dpe`: weak fairness of the receiver's turn, which `dpeMain.cpp` notifies every 10 ms, and
  of time.  No fairness for sightings, logins or requests.
* `RlcContext`: weak fairness of the worker's and of the cleaner's steps, since both
  are notified for ever.  No fairness for packets: they may stop.
* `UeReport`: weak fairness of the pass.
* `AsyncLogger`: weak fairness of the logger thread, whose wait has a time limit
  when `asyncWaitTime` is set; without it a wait ends only with a signal, and
  `EveryLineIsWritten` is stated for the former case only.

## 5. Proofs

Every invariant and action property that a passing run checks is proved for all values of
the constants, those of `RlcAm` under the hypotheses stated there; liveness is model-checked
only (the end of this section).  Each proof has the same shape: an inductive invariant (the
properties of the run and what they need in addition), one lemma per action, and a theorem
`Spec => []Invariant` from which the properties follow.

The assumptions are the `ASSUME`s of the modelling modules, which TLC evaluates in the
runs.  Most give the constants their types.  Those that say more: `MemPoolAssumption` (what
`InitMemPool` sets up: each block is in the buffer of one pool once, pools ordered by
block size as `gMemPoolConfig` is); `EventLoopAssumption` (a tick sends every event);
`Rntis # {}` in `RlcContext` and `RrcParse` (there is a UE to send a packet);
`AsyncLoggerAssumption` (finitely many items and writers, a dump shorter than the logger
thread's buffer); `MaxProcesses >= MaxExecFailures + 2` in `Supervision` (a number for each
process that the bounds on faults allow); `TargetTrackerAssumption` (the margin is not
greater than the interval).

### Operators

`CollectionLemmas` says what appending, removing and replacing an element do to a sequence
and to the set of its elements (`AppendNew`, `RemoveAtProperties`, `RemoveFirstUnique`,
`ToSetOf...`), that `SetToSeq` lists a set, that sets of numbers have their least and
greatest element (`MinOfNats`, `MinIsIn`, `MaxIsIn`), and what a remainder is (`Division`).

What a recursive function computes is proved by a least counterexample: the function is a
`CHOOSE`, so first something that satisfies its equation is found, and then the least
argument at which it differs from the expected value is refuted (`WalkFindsAll` for the
walk through a linked list; `LoopExists` and `TablesExist` for the loops over a message;
`SumExists` for the lengths in an RLC header, `AddsUpExists` for those in a MAC header).
For the joined sequences of a sequence (`FlattenSeq`) `JoinsExists` finds it and `FlattenIs`
says that it joins one after the other; `FlattenAppend`, `FlattenShift` and `FlattenOne` are
what follows for a longer last part, a first part taken away, and nothing but a first part.

### Memory pools: `MemPoolProofs`

| theorem | states |
|---|---|
| `AllocatorInvariant` | `Spec => []IndInv` |
| `TypeCorrect` | `Spec => []TypeOK` |
| `Conservation` | `Spec => []BlockConservation`: at every step each block is once in the free list of its own pool, or with exactly one thread |
| `FreeNeedsNoLock` | `Spec => []NoDoubleFree`: the unlocked test in `MemFree` always succeeds as long as only owners free |
| `BuffersFit` | `Spec => []LengthFits`: a length is never below 0 nor larger than the block |
| `KpiIsInRange` | `Spec => []KpiMemInRange`: what the KPI thread publishes is between none and all of the blocks, although it reads the lists one after the other without a lock |

`BlockConservation` is not inductive.  A thread in the middle of a call owns a block
through a local variable (`node`, `buf`, `rest`), and whether it does depends on `pc`.
`IndInv` therefore adds `LocalsAgree` (which locals hold a block at which point, and that
the pool being tried is large enough), `UseFlags` (a buffer is marked as used from the
end of `MemAlloc` to the reset in `MemFree`) and `LengthBound`.  Two lemmas say what popping
and pushing a free list do to the set of free blocks (`PopFree`, `PushFree`); then there is
one lemma per action, with a step per conjunct that it can disturb, and `NextIndInv` puts
them together.  For the KPI thread `KpiCountIsBounded` is inductive: what it has counted
so far is at most the number of blocks of the pools it has read, because a free list holds
blocks of its own pool only, once each.

### Linked list: `LinkedListProofs`

| theorem | states |
|---|---|
| `ListInvariant` | `Spec => []LinkInv`: the list holds the nodes found on the way from its head, in this order |
| `LinksAreSound` | `Spec => []WellLinked` |
| `ListIsASequence` | `Spec => ImplementsSeqList`: each operation of `list.c`, with a deletion that trusts a count read before the lock, is the operation on a sequence it promises to be |

`Holds(l, s)` says that the pointers of `l` are those of the sequence `s`: `next` and `prev` of
each node, both ends, and nothing but null pointers outside.  Each operation has a lemma
from `Holds(l, s)` to `Holds` of its result with the sequence the operation should make;
`WalkFindsAll` turns `Holds(l, s)` into `Walk(l) = s`, so the refinement mapping `Chain`
follows every operation.  The initial states and the steps of `SeqList` follow from that.

### Events, daemon and heartbeat: `ProcessProofs`, first half

| theorem | states |
|---|---|
| `NoLostWakeUp` | `Spec => []NoSleeperIsForgotten` of `EventLoop` |
| `SupervisionInvariant` | `SupervisionSpec => []SupervisionInv` |
| `OneProgramAtATime` | `SupervisionSpec => []OneInstance` |
| `NoLostWakeUpAcrossCrashes` | `SupervisionSpec => []NoSleeperIsForgotten` |

A wake-up could be lost between the thread's test of the flag and its sleep.  So the
invariant of the events says who owns each mutex (`MutexIsOwned`) and that the trigger and
the waiter of an event are never both between lock and unlock (`OneInTheCriticalSection`).
`OneInstance` needs `WaitersHaveChildren` (a daemon waits for a process that is there) to
know which process acts after one has ended, and `ChainIsShort` to know that a number for
the next process is free.

### Data processing engine: `ProcessProofs`, second half

| theorem | states |
|---|---|
| `DpeInvariant` | `DpeSpec => []DpeInv` |
| `DpeTypesAreKept` | `DpeSpec => []DpeTypeOK` |
| `OamKnowsTheTarget` | `DpeSpec => []OamHearsOfLoss` |
| `MissesAreCountedOnce` | `DpeSpec => []MissesAreReal` |
| `SightingsStayTrue` | `DpeSpec => []NominalTimesStayTrue` |
| `TargetsAreNotLostEarly` | `DpeSpec => LostOnlyWhenSilent` |
| `BehaviorsAreTrue` | `DpeSpec => []BehaviorsAreOfTheirQuery` |

`TrackerOK` collects what the tracker's fields must agree on.  Beside the properties it says
that a target has at least three sightings, which is why its first miss never loses it, and
that the misses are at most two, which bounds the drift of a nominal time by the two quarters
of the margin that `MaxTimeDiff` adds.  `Limits` compares the three limits of the code for each number of
misses; after that one lemma per function shows that it keeps `TrackerOK`.  For `LostOnlyWhenSilent` the
loop over a message carries `Kept`, which relates the tracker in the loop to the one the
turn began with.

`LoginInv` says of a query in progress that the times collected for each of its users are
those of the rows it was given (`QueryInStep`, `TimesOf`): the number, the first and the
last.  `Grows` is all an insert may do to the table, and then the rows a query or a stored
behaviour is about stay what they were (`RowsStay`).

### RLC contexts: `RlcProofs`, first part

| theorem | states |
|---|---|
| `ListInvariant` | `Spec => []IndInv` |
| `ContextsAreConserved` | `Spec => []ListHoldsLiveContexts` |
| `CleanerIsSafe` | `Spec => []CleanerStandsOnLiveContexts` |

The cleaner reads its next context before it may delete the present one, and it does so
without a lock.  `CleanerIsOneAhead` adds that the two are different and that a context taken out
of the list is still allocated.  That the next one is different follows from the list having no
repetitions (`NextIsAnother`), so the three facts need each other.

### RLC receiver: `RlcProofs`, second part

| theorem | states | hypotheses |
|---|---|---|
| `AmTypesHold` | `AmSpec => []AmTypeOK` | none |
| `SdusAreGenuine` | `AmSpec => []GenuineSdus` | `SentInOrder`, `RepetitionsAreSafe` |
| `ReportsAreOfTheSdu` | `AmSpec => []ReportsMatchSegments` | the same, and `~JoinMayFail` |
| `NoBlockIsLost` | `AmSpec => []MemoryAccounted` | `~JoinMayFail`, `NoTinySdus` |

The hypotheses are about the constants, and the run `rlc_am` satisfies all of them:
`SentInOrder` (the UE segments and packs by the standard: framing info and length indicators
tell the truth, and a packet goes on where its predecessor stopped); `RepetitionsAreSafe` (no
packet that ends one SDU and starts another comes twice; `rlc_am_repeat` shows what happens
otherwise); `~JoinMayFail` and `NoTinySdus` as in section 3.  They are hypotheses and not
assumptions of the module because the runs show what the code does without them.

The invariant comes in layers.  `InStep` says which pointers are set at which point of the
code.  `QueueInStep` and `SizesInStep` say that the elements are those the header describes:
the j-th has the status, the fragment and the size of the packet's j-th, and the one being
split is as long as what the length indicators have left (`Taken`, a sum; `TakenSteps`).
`RawInStep` says of the raw SDU that it is the beginning of an SDU up to the last fragment of
the packet `raw.upTo`, and that the packet in hand lies within the window seen from it; so
`isSNEqual` finds that packet or its successor and no other (`SnInWindow`).  A raw SDU that
reaches up to the packet in hand means that the packet is a repetition or at its last
element, which is what makes the hypothesis on repetitions enough.  `ReportsInStep` adds that
the report list counts the raw SDU's segments; behind the first element a raw SDU that
is still there is one the packet does not follow.  `BlocksApart` says that no block is
reached by two pointers.

`TurnOutcomes` cuts the two reassembly functions down to what can become of the raw SDU: an
element is dropped, delivered whole, begins a raw SDU, ends it or continues it.  Each of the
layers is then carried over these five, and over the steps of the decoder as `Shapes` sees
them.

### RRC contexts: `RrcProofs`

| theorem | states |
|---|---|
| `ReportInvariant` | `Spec => []ReportInv` of `UeReport` |
| `IdentitiesAreKept` | `Spec => []NoIdentityIsDropped` |
| `ContextsAreUnique` | `Spec => []OneContextPerRnti` |
| `ParseInvariant` | `ParseSpec => []ParseInv` of `RrcParse` |
| `BuffersAreFreed` | `ParseSpec => []BuffersLiveAsLongAsUsed` |
| `IdentitiesStayOfTheirUe` | `ParseSpec => []IdentitiesOfTheUe` |

For the report `PassInBounds` adds where the three loops stand in their lists; the proof
follows each identity from one place to another (`HeldIdentities`).  For the parser
`BuffersOfTheStep` says which of the three buffers are allocated at each step, and `ParseInv`
that the identity in the message in hand is one its own UE has sent.

### Logger: `LoggerProofs`

| theorem | states |
|---|---|
| `LoggerInvariant` | `Spec => []LoggerInv` |
| `ItemsAreNeverLost` | `Spec => []ItemsAreConserved` |
| `NoTextIsOverlooked` | `Spec => []ReaderStandsAtTheOldest` |
| `LinesKeepTheirOrder` | `Spec => []EachLineOnceInOrder`: the lines written out and those waiting are the accepted ones, once each and in their order |
| `LoggerIsAnOrderedLog` | `Spec => ImplementsOrderedLog`: each step accepts one line, writes out the first of those that wait, or does neither |

`ReaderStandsAtTheOldest` is about one buffer; `RingInv` says of all of them that the full
buffers lie from the reader's to before the writer's, the empty ones from there on.
`HandsInv` says when the logger thread has an item and that no more items are being filled
than lines are left.

`OrderInv` adds to `EachLineOnceInOrder` that the lines are in the ring or in the queue, never
in both (`OneWay`), and that buffers which are not full hold none, except the writer's
(`Quiet`).  The ring is then the joined lines of the buffers in the order of their distance
from the reader: a new line is the last of them because all buffers behind the writer's are
empty (`LineIsLast`), and what the reader writes out are the first, whether the ring moves
on or not (`FirstLinesGo`).  In the queue a dump that is put back stands between what is
collected and what waits, where it was (`ItemStepOrder`).  That only long texts lose their end is
`ReserveIsEnough` together with `NextIsEmpty`: a writer that leaves its buffer finds the next
one full or empty.

In the refinement the waiting lines are those in the ring (`LinesInRing`) or those in the
logger thread's buffer, in its hand and in the busy queue (`LinesInQueue`).  What a step does
to them need not be followed through all of these again: by `OrderInv` the lines written and
those waiting are together the numbers from 1 to `lines`, before the step and after it, so
what the step does to `output` and `lines` determines what waits (`StepIsOfTheLog`).
`StepOutcomes` says what it does to these two: a line is accepted and nothing written, or
lines are written behind the others and none is accepted, or neither.

### MAC demultiplexer: `CodecProofs`, second part

| theorem | states |
|---|---|
| `LayersGetTheSdus` | `Spec => []SdusAsSent`: from a PDU built by the rules RRC and RLC get the SDUs that were put into it |
| `CopyStaysInThePdu` | `Spec => []CopiesStayInside` |
| `ByteGoesToOneSdu` | `Spec => []CopiesAreDisjoint` |
| `ScratchBlocksComeBack` | `Spec => []BlocksComeBack` |

The decoder and the demultiplexer do the same sum twice: `pData` is moved over the header
and `dataPtr_p` over the payload, while `remainingPayloadLength` and `dataPtrPos` are counted
beside them.  `Sums` is the sum of the first lengths of a list; `SumsSteps`, `SumsGrow` and
`SumsOfAppend` are its laws.  `CursorInv` holds for every PDU, malformed or not: the cursor
is the sum of the subheader sizes, then the header and the parts walked, and what remains
with the parts found is never more than the PDU (`HeaderCursor`, `PayloadCursor`).  From the
last one `CopyStaysInThePdu` follows although the stated lengths are compared with a remainder
that contains the header: only the last SDU can be too long for what is left, and its length is
what is left.  `DemuxInv` adds, for a PDU built by the rules, which subheader each entry of
`demuxData` belongs to (`Decoded`: padding has no entry, so the entry of a subheader is its `Rank`),
that the remainder is the PDU less the payload counted (`HeaderDecoded`), and what RRC and RLC
have after some entries (`SentSoFar`).  `OneMoreDecoded` and `WellFormedTurn` are the turn of the
header's loop, `FirstSdusGrow` and `StillAsSent` that of the payload's.

### Codecs: `CodecProofs`, first part

These are functions without state, so there is no run for them: the theorems hold for every
input.  For every bandwidth up to `MaxBandwidth` and every range of resource blocks:

| theorem | states |
|---|---|
| `RivIsRead` | `ReadsWhatWasCoded`: `calcRbByRiv` inverts `calcRivByRb` on each range that ends before the last resource block or takes more than half of the carrier |
| `RivAtTheEdge` | on all other ranges it does not: the result exceeds the carrier by one block |
| `RivFits` | without hopping the field holds every RIV, and the decoder's subtraction never wraps |
| `GrantRoundTrip` | a whole grant without hopping is decoded to what was encoded, outside of the edge |

A RIV is given by quotient and remainder (`DivMod`), so reading it is exact (`ReadParts`,
`ReadRange`); a range of more than half the carrier is coded by its complement, whose first
reading is no range, and its distance to `tmp` is the short form (`LongForm`).  The casts to
`unsigned char` are part of the model and shown to be harmless (`FitsUInt8`).

For every connection setup complete and information transfer:

| theorem | states |
|---|---|
| `HeadersAreCounted` | `CounterIsExact`: up to the NAS message the counter goes down by what is read, whichever fields are present |
| `SentIsRead` | `WholeMessagesAreRead`: a message as the UE sends it is accepted with its whole NAS message, whatever follows it |
| `CutIsRefused` | `CutMessagesAreRefused`: a message that lacks more than seven bits is refused |
| `LastBitsMayMiss` | `SevenBitsMayMiss`: information transfers and setup completes without a registered MME are accepted without their last byte |

One lemma per element says that it is counted as it is read (`PlmnIsCounted`,
`MmeIsCounted`); with `NasIsFound` for the end of the message, `Outcome` says for every
length of the buffer what becomes of a message, and the last three theorems are arithmetic
on it.

The positions of the NAS decoders against the layout of the messages:

| theorem | states |
|---|---|
| `TypesAreFound` | the type that chooses the decoder is the byte the decoder skips, plain or protected |
| `IdsAreFound` | an identity of each type is read from its own octets, although its length is ignored |
| `AttachIsInStep` | an attach request is refused for the length of its session management message only, which is found behind a capability of any length |

### Model-checked only

* Liveness: `EveryThreadRunsAgain`, `HeartbeatTestEnds`, `DeadUlpIsNoticed`,
  `SilentUesAreForgotten`, `EveryIdentityIsReported`, `ContextsAreReleased`,
  `EveryLineIsWritten`, `FullBuffersAreWritten`, `SilentTargetIsGivenUp`.  The prover
  handles neither fairness nor `ENABLED`.

## 6. Where the code does not do what it says

* `rlc_am_repeat`: `RlcReassembleInCmpAMSdu` joins an END element to the raw SDU also when
  the sequence numbers are equal (`lteRlc.c:851`), so a repeated PDU that ends one SDU and
  starts the next is joined to the start it left itself.  The MID case in the same
  function drops repetitions.
* `rlc_context_use`: between the worker's test of `deleteFlag` and its use of the context
  the cleaner can delete it (`lteRlc.c:352`).

Further observations, without a document that says otherwise; those the models or proofs
reach are notes of the hazards:

* When `MemJoin` finds no block it frees both arguments, but the error return keeps
  `rawSdu.pData` (`lteRlc.c:856`); the buffer of an empty last data field is kept
  (`lteRlc.c:681`); a second context for one UE after an interrupted walk of the list
  (`lteRlc.c:70`); the CCCH buffer is kept (`lteRrc.c:286`).
* A write to a MAC context after its deletion (`lteUlpWorker.c:374`); the framing of PDUs adds
  up in an unsigned short (`lteMac.c:161`); `PhyUlDataInd`, called by tests only, tests
  `pPhyDataInd` where `pBuffer` is meant (`lteUlpWorker.c:163`).
* Text longer than the room tested for (`logger.c:704`).
* A range of resource blocks that ends with the last one and takes at most half of the
  carrier is decoded to one that does not fit (`dci0.c:28`, theorem `RivAtTheEdge`).
* The length of a NAS message is granted seven bits too many (`asn1Lib.c:181`, theorem
  `LastBitsMayMiss`): the missing byte is read as zeros.  The NAS decoders look at no length
  at all, so a short NAS message is completed from what the block held before.  A connection
  request is accepted at any length.
* A power of -1 is the code for a lost target (`UeLoginInfoReceiver.cpp:165`); whether
  all candidates are cleared depends on the last one compared (`UeLoginInfoReceiver.cpp:314`).
* An insert fails, without a retry, while a query stands on a row of the same database.
* After a failing execv the child goes on as a second daemon (`deamon.cpp:48`).
* The length a message to the DPE is sent with is the one already converted to network byte
  order (`target.c:88`).

## 7. What is not modelled

* The values of decoded fields and the optional elements behind the session management
  message of an attach request, with which nothing is done.
* Configuration, files, sockets, JSON: input and output.  sqlite3 and cJSON are vendored;
  sqlite3 is modelled by how `dbImpl.c` uses it.
* `DpEngineConfig`, the wrapper `Thread.cpp`, the address reported with a target.  Only the
  tests create a `DpEngine`, and `TARGET_LOCATION` and `TARGET_ANALYSIS` are undefined by
  default (`cm/global.mk:20`); both builds are modelled.
* Messaging: a wrapper of the queues of another platform.
* The logger's synchronous half, its cached timestamp and the rotation of files.
* Values that are carried along and decide nothing: power, timing advance, counters for
  display.  Errors of the pthread calls.  The framing of the PHY message.  The bytes of
  a memory block.

Of the repository's lines nearly all are sqlite3's (about 223 000) and cJSON's; of the 14 000
to 15 000 lines of the project itself the map names about a third.

## 8. Plan

The order was: what everything rests on (pools, list, events), then the path of a packet
(MAC, RLC, RRC, report), then the logger, then the processes around it (DPE, daemon,
heartbeat) and the decoders.  What remains:

1. Models: `cm/src/queue.c` as a second implementation of `SeqList`; synchronous logging with
   the cached timestamp; the overlapping copy in `MemJoin` (`mempool.c:251`) on bytes; a
   module that composes `RlcContext` with the receiver's entity.
2. Abstract specifications: a reassembler that delivers any subset of the SDUs in order, for
   `RlcAm`; an allocator that hands out any free block that is large enough, for `MemPool`.
