--------------------------- MODULE ProcessProofs ---------------------------
(***************************************************************************)
(* The processes, for any values of the constants.                         *)
(*                                                                         *)
(* The first part is about the events: their mutexes exclude the trigger   *)
(* and the waiting threads from each other, so that a thread that has seen *)
(* the flag down is asleep before the flag goes up.  The second part is    *)
(* about the chain of daemons, of which one process acts at a time.  The   *)
(* other parts are about the data processing engine: its target, its       *)
(* logins, and the two together.                                           *)
(***************************************************************************)
EXTENDS Supervision, Dpe, CollectionLemmas

EventInv == TypeOK /\ MutexIsOwned /\ OneInTheCriticalSection /\ NoSleeperIsForgotten

\* The event the trigger is at is one of the events.
LEMMA CurrentIsAnEvent ==
    ASSUME TypeOK, trigger # "asleep"
    PROVE  nth \in 1 .. Len(TickOrder) /\ Current \in Events
  BY EventLoopAssumption DEF TypeOK, Current

\* Going on to the next notification holds no mutex.
LEMMA ToNotificationTypes ==
    ASSUME count \in 0 .. KpiPeriod - 1, NEW i \in 1 .. Len(TickOrder) + 1, ToNotification(i)
    PROVE  /\ trigger' \in {"asleep", "skip", "lock"}
           /\ nth' \in IF trigger' = "asleep" THEN {0} ELSE 1 .. Len(TickOrder)
           /\ count' \in 0 .. KpiPeriod - 1
  <1>1. Len(TickOrder) \in Nat /\ KpiPeriod \in Nat \ {0}
    BY EventLoopAssumption
  <1>2. CASE i > Len(TickOrder)
    BY <1>2 DEF ToNotification
  <1>3. CASE i <= Len(TickOrder) /\ TickOrder[i] # KpiEvent
    BY <1>1, <1>3 DEF ToNotification
  <1>4. CASE i <= Len(TickOrder) /\ TickOrder[i] = KpiEvent /\ count + 1 = KpiPeriod
    BY <1>1, <1>4 DEF ToNotification
  <1>5. CASE i <= Len(TickOrder) /\ TickOrder[i] = KpiEvent /\ count + 1 # KpiPeriod
    <2>1. trigger' = "skip" /\ nth' = i /\ count' = count + 1
      BY <1>1, <1>5 DEF ToNotification
    <2>2. count + 1 \in 0 .. KpiPeriod - 1
      BY <1>1, <1>5
    <2> QED BY <1>1, <1>5, <2>1, <2>2
  <1> QED BY <1>1, <1>2, <1>3, <1>4, <1>5

\* A program that starts holds no mutex and sleeps nowhere.
LEMMA InitEventInv ==
    ASSUME Init
    PROVE  EventInv
  BY EventLoopAssumption
     DEF Init, EventInv, TypeOK, MutexIsOwned, OneInTheCriticalSection, NoSleeperIsForgotten

\* The trigger thread keeps the events in order.
LEMMA TriggerInductive ==
    ASSUME EventInv, Trigger
    PROVE  EventInv'
  <1>0. TypeOK /\ MutexIsOwned /\ OneInTheCriticalSection /\ NoSleeperIsForgotten
    BY DEF EventInv
  <1> USE EventLoopAssumption
  <1>1. CASE UlpOneMilliSecondIsr
    <2>1. /\ trigger' \in {"asleep", "skip", "lock"}
          /\ nth' \in IF trigger' = "asleep" THEN {0} ELSE 1 .. Len(TickOrder)
          /\ count' \in 0 .. KpiPeriod - 1
      BY <1>0, <1>1, ToNotificationTypes DEF UlpOneMilliSecondIsr, TypeOK
    <2>2. trigger = "asleep" /\ UNCHANGED <<mutex, setFlag, waiter>>
      BY <1>1 DEF UlpOneMilliSecondIsr
    <2>3. TypeOK'
      BY <1>0, <2>1, <2>2 DEF TypeOK
    <2>4. MutexIsOwned' /\ OneInTheCriticalSection'
      BY <1>0, <2>1, <2>2 DEF MutexIsOwned, OneInTheCriticalSection
    <2>5. NoSleeperIsForgotten'
      BY <1>0, <2>1, <2>2 DEF NoSleeperIsForgotten
    <2> QED BY <2>3, <2>4, <2>5 DEF EventInv
  <1>2. CASE SkipNotification
    <2>1. /\ trigger' \in {"asleep", "skip", "lock"}
          /\ nth' \in IF trigger' = "asleep" THEN {0} ELSE 1 .. Len(TickOrder)
          /\ count' \in 0 .. KpiPeriod - 1
      <3>1. nth \in 1 .. Len(TickOrder)
        BY <1>0, <1>2, CurrentIsAnEvent DEF SkipNotification
      <3>2. nth + 1 \in 1 .. Len(TickOrder) + 1
        BY ONLY <3>1
      <3> QED BY <1>0, <1>2, <3>2, ToNotificationTypes DEF SkipNotification, TypeOK
    <2>2. trigger = "skip" /\ UNCHANGED <<mutex, setFlag, waiter>>
      BY <1>2 DEF SkipNotification
    <2>3. TypeOK'
      BY <1>0, <2>1, <2>2 DEF TypeOK
    <2>4. MutexIsOwned' /\ OneInTheCriticalSection'
      BY <1>0, <2>1, <2>2 DEF MutexIsOwned, OneInTheCriticalSection
    <2>5. NoSleeperIsForgotten'
      BY <1>0, <2>1, <2>2 DEF NoSleeperIsForgotten
    <2> QED BY <2>3, <2>4, <2>5 DEF EventInv
  <1>3. CASE EventSendLock
    <2>1. Current \in Events /\ Current' = Current
      BY <1>0, <1>3, CurrentIsAnEvent DEF EventSendLock, Current
    <2>2. TypeOK'
      BY <1>0, <1>3, <2>1 DEF EventSendLock, TypeOK
    <2>3. waiter[Current] \notin {"test", "wait"}
      BY <1>0, <1>3, <2>1 DEF EventSendLock, MutexIsOwned
    <2>4. MutexIsOwned'
      BY <1>0, <1>3, <2>1, <2>3 DEF EventSendLock, TypeOK, MutexIsOwned
    <2>5. OneInTheCriticalSection'
      BY <1>3, <2>1, <2>3 DEF EventSendLock, OneInTheCriticalSection
    <2>6. NoSleeperIsForgotten'
      BY <1>0, <1>3, <2>1 DEF EventSendLock, NoSleeperIsForgotten
    <2> QED BY <2>2, <2>4, <2>5, <2>6 DEF EventInv
  <1>4. CASE EventSendSet
    <2>1. Current \in Events /\ Current' = Current
      BY <1>0, <1>4, CurrentIsAnEvent DEF EventSendSet, Current
    <2>2. /\ trigger = "set" /\ trigger' = "signal"
          /\ UNCHANGED <<mutex, waiter>>
          /\ \A e \in Events : setFlag'[e] = IF e = Current THEN 1 ELSE setFlag[e]
      BY <1>0, <1>4, <2>1 DEF EventSendSet, TypeOK
    <2>3. TypeOK'
      BY <1>0, <1>4, <2>1 DEF EventSendSet, TypeOK
    <2>4. waiter[Current] # "wait"
      BY <1>0, <2>2 DEF OneInTheCriticalSection
    <2>5. MutexIsOwned'
      BY <1>0, <2>1, <2>2 DEF MutexIsOwned
    <2>6. OneInTheCriticalSection'
      BY <1>0, <2>1, <2>2 DEF OneInTheCriticalSection
    <2>7. NoSleeperIsForgotten'
      BY <1>0, <2>1, <2>2, <2>4 DEF NoSleeperIsForgotten
    <2> QED BY <2>3, <2>5, <2>6, <2>7 DEF EventInv
  <1>5. CASE EventSendSignal
    <2>1. Current \in Events /\ Current' = Current
      BY <1>0, <1>5, CurrentIsAnEvent DEF EventSendSignal, Current
    <2>2. /\ trigger = "signal" /\ trigger' = "unlock"
          /\ UNCHANGED <<mutex, setFlag>>
          /\ \A e \in Events : waiter'[e] =
                IF e = Current /\ waiter[e] = "asleep" THEN "relock" ELSE waiter[e]
      BY <1>0, <1>5 DEF EventSendSignal, TypeOK
    <2>3. TypeOK'
      BY <1>0, <1>5, <2>1 DEF EventSendSignal, TypeOK
    <2>4. \A e \in Events : waiter'[e] \in {"test", "wait"} <=> waiter[e] \in {"test", "wait"}
      BY <2>2
    <2>5. MutexIsOwned'
      BY <1>0, <2>1, <2>2, <2>4 DEF MutexIsOwned
    <2>6. OneInTheCriticalSection'
      BY <1>0, <2>1, <2>2, <2>4 DEF OneInTheCriticalSection
    <2>7. NoSleeperIsForgotten'
      BY <1>0, <2>1, <2>2 DEF NoSleeperIsForgotten
    <2> QED BY <2>3, <2>5, <2>6, <2>7 DEF EventInv
  <1>6. CASE EventSendUnlock
    <2>1. Current \in Events
      BY <1>0, <1>6, CurrentIsAnEvent DEF EventSendUnlock
    <2>2. /\ trigger' \in {"asleep", "skip", "lock"}
          /\ nth' \in IF trigger' = "asleep" THEN {0} ELSE 1 .. Len(TickOrder)
          /\ count' \in 0 .. KpiPeriod - 1
      <3>1. nth \in 1 .. Len(TickOrder)
        BY <1>0, <1>6, CurrentIsAnEvent DEF EventSendUnlock
      <3>2. nth + 1 \in 1 .. Len(TickOrder) + 1
        BY ONLY <3>1
      <3> QED BY <1>0, <1>6, <3>2, ToNotificationTypes DEF EventSendUnlock, TypeOK
    <2>3. /\ trigger = "unlock"
          /\ UNCHANGED <<setFlag, waiter>>
          /\ mutex' = [mutex EXCEPT ![Current] = Nobody]
      BY <1>6 DEF EventSendUnlock
    <2>4. TypeOK'
      BY <1>0, <2>1, <2>2, <2>3 DEF TypeOK
    <2>5. waiter[Current] \notin {"test", "wait"}
      BY <1>0, <2>1, <2>3 DEF OneInTheCriticalSection
    <2>6. MutexIsOwned'
      BY <1>0, <2>1, <2>2, <2>3, <2>5 DEF TypeOK, MutexIsOwned
    <2>7. OneInTheCriticalSection'
      BY <2>2 DEF OneInTheCriticalSection
    <2>8. NoSleeperIsForgotten'
      BY <1>0, <2>2, <2>3 DEF NoSleeperIsForgotten
    <2> QED BY <2>4, <2>6, <2>7, <2>8 DEF EventInv
  <1> QED BY <1>1, <1>2, <1>3, <1>4, <1>5, <1>6 DEF Trigger

\* what the order of the events asks of one of them
ThreadIsInOrder(e) ==
    /\ mutex[e] = IF waiter[e] \in {"test", "wait"} THEN "waiter"
                  ELSE IF trigger \in {"set", "signal", "unlock"} /\ Current = e THEN "trigger"
                  ELSE Nobody
    /\ trigger \in {"set", "signal", "unlock"} /\ Current = e => waiter[e] \notin {"test", "wait"}
    /\ waiter[e] = "asleep" /\ setFlag[e] = 1 => trigger = "signal" /\ Current = e
    /\ waiter[e] = "wait" => setFlag[e] = 0

\* a step of the thread that waits for event e
OnlyThreadChanges(e) ==
    /\ UNCHANGED <<trigger, nth, Current>>
    /\ \A f \in Events : f # e => /\ waiter'[f] = waiter[f]
                                  /\ mutex'[f] = mutex[f]
                                  /\ setFlag'[f] = setFlag[f]

\* Where the events are in order, each of them is.
LEMMA OrderOfEach ==
    ASSUME EventInv, NEW e \in Events
    PROVE  ThreadIsInOrder(e)
  BY DEF EventInv, ThreadIsInOrder, MutexIsOwned, OneInTheCriticalSection, NoSleeperIsForgotten

\* A step of one thread leaves the other events in order.
LEMMA ThreadKeepsOrder ==
    ASSUME EventInv, NEW e \in Events, TypeOK', OnlyThreadChanges(e), ThreadIsInOrder(e)'
    PROVE  EventInv'
  <1>1. \A f \in Events : ThreadIsInOrder(f)
    BY OrderOfEach
  <1>2. ASSUME NEW f \in Events PROVE ThreadIsInOrder(f)'
    <2>1. CASE f # e
      BY <1>1, <2>1 DEF ThreadIsInOrder, OnlyThreadChanges
    <2> QED BY <2>1
  <1>3. trigger' # "asleep" => Current' \in Events
    BY EventLoopAssumption DEF TypeOK, Current
  <1>4. MutexIsOwned' /\ NoSleeperIsForgotten'
    BY <1>2 DEF ThreadIsInOrder, MutexIsOwned, NoSleeperIsForgotten
  <1>5. OneInTheCriticalSection'
    BY <1>2, <1>3 DEF ThreadIsInOrder, OneInTheCriticalSection
  <1> QED BY <1>4, <1>5 DEF EventInv

\* A waiting thread keeps the events in order.
LEMMA WaiterInductive ==
    ASSUME EventInv, NEW e \in Events, Waiter(e) \/ SpuriousWakeUp(e)
    PROVE  EventInv'
  <1>0. TypeOK /\ ThreadIsInOrder(e)
    BY OrderOfEach DEF EventInv
  <1> USE EventLoopAssumption
  <1>1. CASE FinishPass(e)
    <2>1. TypeOK'
      BY <1>0, <1>1 DEF FinishPass, TypeOK
    <2>2. OnlyThreadChanges(e)
      BY <1>0, <1>1 DEF FinishPass, TypeOK, OnlyThreadChanges, Current
    <2>3. ThreadIsInOrder(e)'
      BY <1>0, <1>1 DEF FinishPass, TypeOK, ThreadIsInOrder, Current
    <2> QED BY <2>1, <2>2, <2>3, ThreadKeepsOrder
  <1>2. CASE EventWaitLock(e)
    <2>1. TypeOK'
      BY <1>0, <1>2 DEF EventWaitLock, TypeOK
    <2>2. OnlyThreadChanges(e)
      BY <1>0, <1>2 DEF EventWaitLock, TypeOK, OnlyThreadChanges, Current
    <2>3. ThreadIsInOrder(e)'
      BY <1>0, <1>2 DEF EventWaitLock, TypeOK, ThreadIsInOrder, Current
    <2> QED BY <2>1, <2>2, <2>3, ThreadKeepsOrder
  <1>3. CASE EventWaitTest(e)
    <2>1. TypeOK'
      BY <1>0, <1>3 DEF EventWaitTest, TypeOK
    <2>2. OnlyThreadChanges(e)
      BY <1>0, <1>3 DEF EventWaitTest, TypeOK, OnlyThreadChanges, Current
    <2>3. ThreadIsInOrder(e)'
      BY <1>0, <1>3 DEF EventWaitTest, TypeOK, ThreadIsInOrder, Current
    <2> QED BY <2>1, <2>2, <2>3, ThreadKeepsOrder
  <1>4. CASE EventWaitSleep(e)
    <2>1. TypeOK'
      BY <1>0, <1>4 DEF EventWaitSleep, TypeOK
    <2>2. OnlyThreadChanges(e)
      BY <1>0, <1>4 DEF EventWaitSleep, TypeOK, OnlyThreadChanges, Current
    <2>3. ThreadIsInOrder(e)'
      BY <1>0, <1>4 DEF EventWaitSleep, TypeOK, ThreadIsInOrder, Current
    <2> QED BY <2>1, <2>2, <2>3, ThreadKeepsOrder
  <1>5. CASE EventWaitTake(e)
    <2>1. TypeOK'
      BY <1>0, <1>5 DEF EventWaitTake, TypeOK
    <2>2. OnlyThreadChanges(e)
      BY <1>0, <1>5 DEF EventWaitTake, TypeOK, OnlyThreadChanges, Current
    <2>3. ThreadIsInOrder(e)'
      BY <1>0, <1>5 DEF EventWaitTake, TypeOK, ThreadIsInOrder, Current
    <2> QED BY <2>1, <2>2, <2>3, ThreadKeepsOrder
  <1>6. CASE SpuriousWakeUp(e)
    <2>1. TypeOK'
      BY <1>0, <1>6 DEF SpuriousWakeUp, TypeOK
    <2>2. OnlyThreadChanges(e)
      BY <1>0, <1>6 DEF SpuriousWakeUp, TypeOK, OnlyThreadChanges, Current
    <2>3. ThreadIsInOrder(e)'
      BY <1>0, <1>6 DEF SpuriousWakeUp, TypeOK, ThreadIsInOrder, Current
    <2> QED BY <2>1, <2>2, <2>3, ThreadKeepsOrder
  <1> QED BY <1>1, <1>2, <1>3, <1>4, <1>5, <1>6 DEF Waiter

\* A step that is not the program's changes nothing of it.
LEMMA EventStutter ==
    ASSUME EventInv, UNCHANGED vars
    PROVE  EventInv'
  BY DEF EventInv, vars, TypeOK, MutexIsOwned, OneInTheCriticalSection,
         NoSleeperIsForgotten, Current

\* No wake-up is lost between EventSend and EventWait, with any number of threads
\* and any order of the notifications.
THEOREM NoLostWakeUp ==
    Spec => []NoSleeperIsForgotten
  <1>1. Init => EventInv
    BY InitEventInv
  <1>2. EventInv /\ [Next]_vars => EventInv'
    BY TriggerInductive, WaiterInductive, EventStutter DEF Next
  <1>3. EventInv => NoSleeperIsForgotten
    BY DEF EventInv
  <1> QED BY <1>1, <1>2, <1>3, PTL DEF Spec

-----------------------------------------------------------------------------
ChainInv ==
    /\ processes \in [Numbers -> Process]
    /\ Cardinality(Acting) = IF Abandoned THEN 0 ELSE 1
    /\ WaitersHaveChildren
    /\ ChainIsShort

FaultsOK ==
    faults \in [fork : 0 .. MaxForkFailures, exec : 0 .. MaxExecFailures, crash : 0 .. MaxCrashes]

\* The constants as the steps below use them.
LEMMA Bounds ==
    /\ MaxProcesses \in Nat /\ MaxContinueFail \in Nat /\ MaxExecFailures \in Nat
    /\ MaxProcesses >= 2 /\ MaxContinueFail >= 1
    /\ MaxHeartbeatReqSend \in Nat /\ MaxHeartbeatReqSend >= 1
    /\ MaxQueue \in Nat /\ MaxQueue >= 1
    /\ MaxForkFailures \in Nat /\ MaxCrashes \in Nat
    /\ MaxProcesses >= MaxExecFailures + 2
    /\ 1 \in Numbers
    /\ Free \in Process
  BY SupervisionAssumption DEF Numbers, Free, Process

\* The processes are finitely many.
LEMMA ProcessesAreFinite ==
    /\ IsFiniteSet(Numbers) /\ Cardinality(Numbers) = MaxProcesses
    /\ IsFiniteSet(Used) /\ Cardinality(Used) \in Nat
    /\ IsFiniteSet(Acting)
  <1>1. IsFiniteSet(Numbers) /\ Cardinality(Numbers) = MaxProcesses
    <2>1. 1 \in Int /\ MaxProcesses \in Int /\ ~(1 > MaxProcesses)
      BY Bounds
    <2> QED BY <2>1, FS_Interval DEF Numbers
  <1>2. IsFiniteSet(Used) /\ IsFiniteSet(Acting)
    BY <1>1, FS_Subset DEF Used, Acting
  <1> QED BY <1>1, <1>2, FS_CardinalityType

\* A process that acts is the only one.
LEMMA OnlyActor ==
    ASSUME ChainInv, NEW p \in Acting
    PROVE  Acting = {p} /\ ~Abandoned
  <1>1. Cardinality(Acting) # 0
    BY ProcessesAreFinite, FS_EmptySet
  <1>2. Cardinality(Acting) = 1 /\ ~Abandoned
    BY <1>1 DEF ChainInv
  <1>3. \E x : Acting = {x}
    BY <1>2, ProcessesAreFinite, FS_Singleton
  <1> QED BY <1>2, <1>3

\* One process acts if it is the only one that does.
LEMMA OneActs ==
    ASSUME NEW p, Acting' = {p}, ~Abandoned'
    PROVE  Cardinality(Acting') = IF Abandoned' THEN 0 ELSE 1
  BY FS_Singleton

\* The process that acts goes on to another point of its loop.
LEMMA ActorStays ==
    ASSUME ChainInv, NEW p \in Acting, NEW r \in Process,
           processes' = [processes EXCEPT ![p] = r],
           r.at \in {"fork", "exec", "program", "zombie"},
           r.parent = processes[p].parent,
           p = 1 => r.at # "zombie",
           Cardinality(Used) <= faults'.exec + IF r.at = "fork" THEN 1 ELSE 2
    PROVE  ChainInv'
  <1>1. p \in Numbers /\ Acting = {p} /\ ~Abandoned
    BY OnlyActor DEF Acting
  <1>2. processes' \in [Numbers -> Process]
    BY <1>1 DEF ChainInv
  <1>3. \A q \in Numbers : processes'[q] = IF q = p THEN r ELSE processes[q]
    BY <1>1 DEF ChainInv
  <1>4. Acting' = {p}
    BY <1>1, <1>3 DEF Acting
  <1>5. ~Abandoned'
    BY <1>1, <1>3, Bounds DEF Abandoned
  <1>6. Used' = Used
    BY <1>1, <1>3 DEF Used, Acting
  <1>7. WaitersHaveChildren'
    BY <1>1, <1>3 DEF ChainInv, WaitersHaveChildren, Acting
  <1>8. ChainIsShort'
    BY <1>1, <1>3, <1>4, <1>6, Bounds DEF ChainInv, ChainIsShort
  <1> QED BY <1>2, <1>4, <1>5, <1>7, <1>8, OneActs DEF ChainInv

\* The first daemon ends: nothing acts any more.
LEMMA FirstEnds ==
    ASSUME ChainInv, 1 \in Acting, processes' = [processes EXCEPT ![1] = Free]
    PROVE  ChainInv'
  <1>1. Acting = {1}
    BY OnlyActor
  <1>2. processes' \in [Numbers -> Process]
    BY Bounds DEF ChainInv
  <1>3. \A q \in Numbers : processes'[q] = IF q = 1 THEN Free ELSE processes[q]
    BY Bounds DEF ChainInv
  <1>4. Acting' = {}
    BY <1>1, <1>3 DEF Acting, Free
  <1>5. Abandoned'
    BY <1>3, Bounds DEF Abandoned, Free
  <1>6. Cardinality(Acting') = 0
    BY <1>4, FS_EmptySet
  <1>7. WaitersHaveChildren'
    BY <1>3 DEF ChainInv, WaitersHaveChildren, Free
  <1>8. ChainIsShort'
    BY <1>3, <1>4, Bounds DEF ChainIsShort, Free
  <1> QED BY <1>2, <1>5, <1>6, <1>7, <1>8 DEF ChainInv

\* A process ends: its parent can be told of it, or nothing is left.
LEMMA ActorEnds ==
    ASSUME ChainInv, NEW p \in Acting, processes' = Ends(p),
           Cardinality(Used) <= faults'.exec + 2
    PROVE  ChainInv'
  <1>1. CASE p = 1
    BY <1>1, FirstEnds DEF Ends
  <1>2. CASE p # 1
    <2> DEFINE r == [processes[p] EXCEPT !.at = "zombie"]
    <2>1. processes[p] \in Process
      BY DEF ChainInv, Acting
    <2>2. r \in Process /\ r.at = "zombie" /\ r.parent = processes[p].parent
      BY <2>1 DEF Process
    <2>3. processes' = [processes EXCEPT ![p] = r]
      BY <1>2 DEF Ends
    <2> HIDE DEF r
    <2> QED BY <1>2, <2>2, <2>3, ActorStays
  <1> QED BY <1>1, <1>2

\* A failed fork or execv: the daemon tries again or gives up.
LEMMA ActorFails ==
    ASSUME ChainInv, NEW p \in Acting, processes' = Fails(p), faults'.exec \in Nat,
           Cardinality(Used) <= faults'.exec + 1
    PROVE  ChainInv'
  <1>0. Cardinality(Used) <= faults'.exec + 2
    BY ProcessesAreFinite
  <1>1. CASE processes[p].fails + 1 = MaxContinueFail
    BY <1>0, <1>1, ActorEnds DEF Fails
  <1>2. CASE processes[p].fails + 1 # MaxContinueFail
    <2> DEFINE r == [processes[p] EXCEPT !.at = "fork", !.fails = @ + 1]
    <2>1. p \in Numbers /\ processes[p] \in Process /\ processes \in [Numbers -> Process]
      BY DEF ChainInv, Acting
    <2>2. processes[p].fails + 1 \in 0 .. MaxContinueFail - 1
      BY <1>2, <2>1, Bounds DEF Process
    <2>3. r \in Process /\ r.at = "fork" /\ r.parent = processes[p].parent
      BY <2>1, <2>2 DEF Process
    <2>4. processes' = [processes EXCEPT ![p] = r]
      BY <1>2, <2>1 DEF Fails, Goes
    <2> HIDE DEF r
    <2> QED BY <2>3, <2>4, ActorStays
  <1> QED BY <1>1, <1>2

\* The daemon that forks finds a number for its child, and waits for it.
LEMMA ForkKeepsChain ==
    ASSUME ChainInv, FaultsOK, NEW p \in Numbers, Fork(p)
    PROVE  ChainInv'
  <1> DEFINE free == {q \in Numbers : processes[q].at = "free"}
             m == Min(free)
             c == [at |-> "exec", parent |-> p, fails |-> processes[p].fails]
             w == [processes[p] EXCEPT !.at = "wait"]
  <1>1. p \in Acting /\ processes[p].at = "fork" /\ processes[p] \in Process
    BY DEF Fork, Acting, ChainInv
  <1>2. Acting = {p} /\ ~Abandoned
    BY <1>1, OnlyActor
  <1>3. Cardinality(Used) <= faults.exec + 1 /\ faults.exec \in 0 .. MaxExecFailures
    BY <1>1, <1>2 DEF ChainInv, ChainIsShort, FaultsOK
  <1>4. m \in Numbers /\ processes[m].at = "free"
    <2>1. free # {}
      <3>1. CASE free = {}
        <4>1. Used = Numbers
          BY <3>1 DEF Used
        <4> QED BY <4>1, <1>3, ProcessesAreFinite, Bounds
      <3> QED BY <3>1
    <2>2. free \subseteq Nat
      BY DEF Numbers
    <2>3. m \in free
      <3> HIDE DEF free
      <3> QED BY <2>1, <2>2, MinOfNats
    <2> QED BY <2>3
  <1> HIDE DEF m
  <1>5. m # p /\ m # 1
    BY <1>1, <1>2, <1>4 DEF Abandoned
  <1>6. /\ c \in Process /\ c.at = "exec" /\ c.parent = p
        /\ w \in Process /\ w.at = "wait" /\ w.parent = processes[p].parent
    BY <1>1 DEF Process, Numbers
  <1>7. processes' = [processes EXCEPT ![p] = w, ![m] = c]
    BY DEF Fork, Goes, m
  <1>8. /\ processes' \in [Numbers -> Process]
        /\ \A q \in Numbers : processes'[q] = IF q = m THEN c ELSE IF q = p THEN w ELSE processes[q]
    <2> HIDE DEF c, w
    <2> QED BY <1>4, <1>5, <1>6, <1>7 DEF ChainInv
  <1> HIDE DEF c, w
  <1>9. Acting' = {m}
    BY <1>2, <1>4, <1>5, <1>6, <1>8 DEF Acting
  <1>10. ~Abandoned'
    BY <1>2, <1>5, <1>6, <1>8, Bounds DEF Abandoned
  <1>11. Cardinality(Used') = Cardinality(Used) + 1
    <2>1. Used' = Used \cup {m} /\ m \notin Used
      BY <1>1, <1>4, <1>5, <1>6, <1>8 DEF Used
    <2> QED BY <2>1, ProcessesAreFinite, FS_AddElement
  <1>12. WaitersHaveChildren'
    <2> SUFFICES ASSUME NEW d \in Numbers, processes'[d].at = "wait"
                 PROVE  \E q \in Numbers \ {1} :
                            processes'[q].at # "free" /\ processes'[q].parent = d
      BY DEF WaitersHaveChildren
    <2>1. CASE d = p
      BY <2>1, <1>4, <1>5, <1>6, <1>8
    <2>2. CASE d # p
      <3>1. d # m /\ processes[d].at = "wait"
        BY <2>2, <1>6, <1>8
      <3>2. PICK q \in Numbers \ {1} : processes[q].at # "free" /\ processes[q].parent = d
        BY <3>1 DEF ChainInv, WaitersHaveChildren
      <3>3. q # m
        BY <3>2, <1>4
      <3> QED BY <3>2, <3>3, <1>6, <1>8
    <2> QED BY <2>1, <2>2
  <1>13. ChainIsShort'
    <2>1. processes'[m].at = "exec" /\ processes'[1].at # "zombie"
      BY <1>4, <1>5, <1>8, <1>6, Bounds DEF ChainInv, ChainIsShort
    <2>2. faults' = faults
      BY DEF Fork
    <2>3. Cardinality(Used') <= faults'.exec + 2
      BY <1>3, <1>11, <2>2, ProcessesAreFinite
    <2> QED BY <1>9, <2>1, <2>3 DEF ChainIsShort
  <1> QED BY <1>8, <1>9, <1>10, <1>12, <1>13, OneActs DEF ChainInv

\* The parent of a process that has ended acts again.
LEMMA WaitKeepsChain ==
    ASSUME ChainInv, FaultsOK, NEW p \in Numbers, Wait(p)
    PROVE  ChainInv'
  <1>1. PICK q \in Numbers : /\ processes[q].at = "zombie" /\ processes[q].parent = p
                             /\ processes' = [Goes(p, "fork") EXCEPT ![q] = Free, ![p].fails = 0]
    BY DEF Wait
  <1> DEFINE f == [processes[p] EXCEPT !.at = "fork", !.fails = 0]
  <1>2. processes[p].at = "wait" /\ processes[p] \in Process /\ p # q
    BY <1>1 DEF Wait, ChainInv
  <1>3. q \in Acting /\ Acting = {q} /\ ~Abandoned /\ q # 1
    BY <1>1, OnlyActor DEF Acting, ChainInv, ChainIsShort
  <1>4. f \in Process /\ f.at = "fork" /\ f.parent = processes[p].parent
    <2>1. 0 \in 0 .. MaxContinueFail - 1
      BY Bounds
    <2> QED BY <1>2, <2>1 DEF Process
  <1>5. processes' = [processes EXCEPT ![p] = f, ![q] = Free]
    BY <1>1, <1>2 DEF Goes, ChainInv
  <1>6. /\ processes' \in [Numbers -> Process]
        /\ \A r \in Numbers : processes'[r] = IF r = q THEN Free ELSE IF r = p THEN f ELSE processes[r]
    <2> HIDE DEF f
    <2> QED BY <1>2, <1>4, <1>5, Bounds DEF ChainInv
  <1> HIDE DEF f
  <1>7. Acting' = {p}
    BY <1>2, <1>3, <1>4, <1>6 DEF Acting, Free
  <1>8. ~Abandoned'
    BY <1>3, <1>4, <1>6, Bounds DEF Abandoned
  <1>9. Cardinality(Used') = Cardinality(Used) - 1
    <2>1. Used' = Used \ {q} /\ q \in Used
      BY <1>1, <1>2, <1>4, <1>6 DEF Used, Free
    <2> QED BY <2>1, ProcessesAreFinite, FS_RemoveElement
  <1>10. WaitersHaveChildren'
    <2> SUFFICES ASSUME NEW d \in Numbers, processes'[d].at = "wait"
                 PROVE  \E r \in Numbers \ {1} :
                            processes'[r].at # "free" /\ processes'[r].parent = d
      BY DEF WaitersHaveChildren
    <2>1. d # p /\ d # q /\ processes[d].at = "wait"
      BY <1>2, <1>4, <1>6 DEF Free
    <2>2. PICK r \in Numbers \ {1} : processes[r].at # "free" /\ processes[r].parent = d
      BY <2>1 DEF ChainInv, WaitersHaveChildren
    <2>3. r # q
      BY <1>1, <2>1, <2>2
    <2> QED BY <2>2, <2>3, <1>4, <1>6
  <1>11. ChainIsShort'
    <2>1. processes'[p].at = "fork" /\ processes'[1].at # "zombie"
      BY <1>2, <1>3, <1>4, <1>6, Bounds DEF ChainInv, ChainIsShort
    <2>2. Cardinality(Used) <= faults.exec + 2 /\ faults' = faults /\ faults.exec \in Nat
      BY <1>1, <1>3 DEF ChainInv, ChainIsShort, Wait, FaultsOK
    <2>3. Cardinality(Used') <= faults'.exec + 1
      BY <1>9, <2>2, ProcessesAreFinite
    <2> QED BY <1>7, <2>1, <2>3 DEF ChainIsShort
  <1> QED BY <1>6, <1>7, <1>8, <1>10, <1>11, OneActs DEF ChainInv

\* A daemon's step keeps the chain.
LEMMA DaemonKeepsChain ==
    ASSUME ChainInv, FaultsOK, NEW p \in Numbers,
           Daemon(p) \/ ForkFails(p) \/ ExecFails(p) \/ Crash(p)
    PROVE  ChainInv' /\ FaultsOK'
  <1>0. faults.exec \in Nat /\ Cardinality(Used) \in Nat
    BY ProcessesAreFinite DEF FaultsOK
  <1>1. CASE Fork(p)
    BY <1>1, ForkKeepsChain DEF Fork, FaultsOK
  <1>2. CASE Wait(p)
    BY <1>2, WaitKeepsChain DEF Wait, FaultsOK
  <1>3. CASE Exec(p)
    <2> DEFINE r == [processes[p] EXCEPT !.at = "program"]
    <2>1. p \in Acting /\ processes[p].at = "exec" /\ processes[p] \in Process
      BY <1>3 DEF Exec, Acting, ChainInv
    <2>2. r \in Process /\ r.at = "program" /\ r.parent = processes[p].parent
      BY <2>1 DEF Process
    <2>3. processes' = [processes EXCEPT ![p] = r] /\ faults' = faults
      BY <1>3 DEF Exec, Goes
    <2>4. Cardinality(Used) <= faults.exec + 2
      BY <2>1 DEF ChainInv, ChainIsShort
    <2> HIDE DEF r
    <2> QED BY <2>1, <2>2, <2>3, <2>4, ActorStays DEF FaultsOK
  <1>4. CASE ForkFails(p)
    <2>1. p \in Acting /\ Cardinality(Used) <= faults.exec + 1
      BY <1>4 DEF ForkFails, Acting, ChainInv, ChainIsShort
    <2>2. faults'.exec = faults.exec /\ FaultsOK'
      BY <1>4, Bounds DEF ForkFails, FaultsOK
    <2> QED BY <1>0, <1>4, <2>1, <2>2, ActorFails DEF ForkFails
  <1>5. CASE ExecFails(p)
    <2>1. p \in Acting /\ Cardinality(Used) <= faults.exec + 2
      BY <1>5 DEF ExecFails, Acting, ChainInv, ChainIsShort
    <2>2. faults'.exec = faults.exec + 1 /\ FaultsOK'
      BY <1>5, Bounds DEF ExecFails, FaultsOK
    <2>3. faults'.exec \in Nat /\ Cardinality(Used) <= faults'.exec + 1
      BY <1>0, <2>1, <2>2
    <2> QED BY <1>5, <2>1, <2>2, <2>3, ActorFails DEF ExecFails
  <1>6. CASE Crash(p)
    <2>1. p \in Acting /\ Cardinality(Used) <= faults.exec + 2
      BY <1>6 DEF Crash, Acting, ChainInv, ChainIsShort
    <2>2. faults'.exec = faults.exec /\ FaultsOK'
      BY <1>6, Bounds DEF Crash, FaultsOK
    <2> QED BY <1>6, <2>1, <2>2, ActorEnds DEF Crash
  <1> QED BY <1>1, <1>2, <1>3, <1>4, <1>5, <1>6 DEF Daemon

-----------------------------------------------------------------------------
HeartbeatOK ==
    /\ requests \in 0 .. MaxQueue
    /\ responses \in 0 .. MaxQueue
    /\ tester \in [running : BOOLEAN, sent : 0 .. MaxHeartbeatReqSend,
                   disconnectTime : {t \in 0 .. MissTime + RequestInterval : t % RequestInterval = 0}]

SupervisionInv == EventInv /\ ChainInv /\ FaultsOK /\ HeartbeatOK

\* A request counts its interval, up to where the model stops counting.
LEMMA SendRequestTypes ==
    ASSUME HeartbeatOK, NEW time \in {t \in 0 .. MissTime + RequestInterval : t % RequestInterval = 0},
           SendRequest(time)
    PROVE  /\ requests' \in 0 .. MaxQueue
           /\ tester' \in [running : BOOLEAN, sent : 0 .. MaxHeartbeatReqSend,
                   disconnectTime : {t \in 0 .. MissTime + RequestInterval : t % RequestInterval = 0}]
  <1>1. requests' \in 0 .. MaxQueue
    <2>1. Min({requests + 1, MaxQueue}) = IF requests + 1 <= MaxQueue THEN requests + 1 ELSE MaxQueue
      BY MinOfTwo, Bounds DEF HeartbeatOK
    <2> QED BY <2>1, Bounds DEF HeartbeatOK, SendRequest
  <1>2. Min({tester.sent + 1, MaxHeartbeatReqSend}) \in 0 .. MaxHeartbeatReqSend
    <2>1. tester.sent \in 0 .. MaxHeartbeatReqSend
      BY DEF HeartbeatOK
    <2> QED BY <2>1, MinOfTwo, Bounds
  <1>3. Min({time + RequestInterval, MissTime + RequestInterval})
           \in {t \in 0 .. MissTime + RequestInterval : t % RequestInterval = 0}
    <2>1. time + RequestInterval \in Int /\ MissTime + RequestInterval \in Int
      BY DEF RequestInterval, MissTime
    <2>2. Min({time + RequestInterval, MissTime + RequestInterval})
             = IF time + RequestInterval <= MissTime + RequestInterval THEN time + RequestInterval ELSE MissTime + RequestInterval
      BY <2>1, MinOfTwo
    <2> QED BY <2>2 DEF RequestInterval, MissTime
  <1> QED BY <1>1, <1>2, <1>3 DEF HeartbeatOK, SendRequest

\* The tester's passes.
LEMMA TesterKeepsTypes ==
    ASSUME HeartbeatOK, HeartbeatTester
    PROVE  HeartbeatOK'
  <1> DEFINE Times == {t \in 0 .. MissTime + RequestInterval : t % RequestInterval = 0}
  <1>1. 0 \in Times /\ tester.disconnectTime \in Times
    BY DEF HeartbeatOK, RequestInterval, MissTime
  <1>2. CASE HeartbeatMiss
    BY <1>1, <1>2, SendRequestTypes DEF HeartbeatMiss, HeartbeatOK
  <1>3. CASE HeartbeatResponse
    <2>1. responses' \in 0 .. MaxQueue
      BY <1>3, Bounds DEF HeartbeatResponse, HeartbeatOK
    <2>2. CASE SendRequest(0)
      BY <1>1, <2>1, <2>2, SendRequestTypes DEF HeartbeatOK
    <2>3. CASE /\ tester' = [tester EXCEPT !.running = FALSE, !.disconnectTime = 0]
               /\ UNCHANGED requests
      <3>1. tester' \in [running : BOOLEAN, sent : 0 .. MaxHeartbeatReqSend, disconnectTime : Times]
        BY <1>1, <2>3 DEF HeartbeatOK
      <3> QED BY <2>1, <2>3, <3>1 DEF HeartbeatOK
    <2> QED BY <1>3, <2>2, <2>3 DEF HeartbeatResponse
  <1> QED BY <1>2, <1>3 DEF HeartbeatTester

\* The first daemon starts alone.
LEMMA InitSupervisionInv ==
    ASSUME SupervisionInit
    PROVE  SupervisionInv
  <1> USE Bounds DEF SupervisionInit
  <1>1. EventInv
    BY InitEventInv
  <1> DEFINE f == [Free EXCEPT !.at = "fork"]
  <1>2. f \in Process /\ f.at = "fork" /\ Free.at = "free"
    <2>1. 0 \in 0 .. MaxContinueFail - 1 /\ 0 \in 0 .. MaxProcesses
      OBVIOUS
    <2> QED BY <2>1 DEF Process, Free
  <1>3. /\ processes \in [Numbers -> Process]
        /\ \A p \in Numbers : processes[p] = IF p = 1 THEN f ELSE Free
    <2> HIDE DEF f
    <2>1. processes = [p \in Numbers |-> IF p = 1 THEN f ELSE Free]
      BY DEF f
    <2> QED BY <1>2, <2>1
  <1> HIDE DEF f
  <1>4. Acting = {1} /\ Used = {1} /\ ~Abandoned
    BY <1>2, <1>3 DEF Acting, Used, Abandoned
  <1>5. Cardinality(Acting) = 1 /\ Cardinality(Used) = 1
    BY <1>4, FS_Singleton
  <1>6. WaitersHaveChildren
    BY <1>2, <1>3 DEF WaitersHaveChildren
  <1>7. faults.exec = 0 /\ FaultsOK
    BY DEF FaultsOK
  <1>8. ChainIsShort
    BY <1>2, <1>3, <1>4, <1>5, <1>7 DEF ChainIsShort
  <1>9. HeartbeatOK
    BY DEF HeartbeatOK, RequestInterval, MissTime
  <1> QED BY <1>1, <1>3, <1>4, <1>5, <1>6, <1>7, <1>8, <1>9 DEF SupervisionInv, ChainInv

\* Every step of the daemons, the tester and the program keeps the invariant.
LEMMA NextSupervisionInv ==
    ASSUME SupervisionInv, [SupervisionNext]_supervisionVars
    PROVE  SupervisionInv'
  <1> USE DEF SupervisionInv
  <1>1. ASSUME NEW p \in Numbers, Daemon(p) \/ ForkFails(p) \/ ExecFails(p) \/ Crash(p)
        PROVE  SupervisionInv'
    <2>1. ChainInv' /\ FaultsOK'
      BY <1>1, DaemonKeepsChain
    <2>2. CASE UNCHANGED <<vars, heartbeatVars>>
      BY <2>1, <2>2, EventStutter DEF heartbeatVars, HeartbeatOK
    <2>3. CASE Crash(p)
      <3>1. EventInv'
        BY <2>3, EventLoopAssumption
           DEF Crash, EventInv, TypeOK, MutexIsOwned, OneInTheCriticalSection,
               NoSleeperIsForgotten
      <3>2. HeartbeatOK'
        BY <2>3, Bounds DEF Crash, HeartbeatOK
      <3> QED BY <2>1, <3>1, <3>2
    <2> QED BY <1>1, <2>2, <2>3 DEF Daemon, Fork, Exec, Wait, ForkFails, ExecFails
  <1>2. ASSUME UNCHANGED <<processes, faults>>
        PROVE  ChainInv' /\ FaultsOK'
    BY <1>2 DEF ChainInv, FaultsOK, Acting, Abandoned, WaitersHaveChildren, ChainIsShort, Used
  <1>3. CASE UlpRecvAndHandleOamData
    <2>1. EventInv'
      BY <1>3, WaiterInductive, SupervisionAssumption DEF UlpRecvAndHandleOamData, Waiter
    <2>2. Min({responses + 1, MaxQueue}) \in 0 .. MaxQueue
      BY MinOfTwo, Bounds DEF HeartbeatOK
    <2>3. HeartbeatOK'
      BY <1>3, <2>2, Bounds DEF UlpRecvAndHandleOamData, HeartbeatOK
    <2> QED BY <1>3, <2>1, <2>3, <1>2 DEF UlpRecvAndHandleOamData
  <1>4. CASE Threads
    <2>1. EventInv'
      BY <1>4, TriggerInductive, WaiterInductive DEF Threads, Waiter
    <2>2. HeartbeatOK'
      BY <1>4 DEF Threads, HeartbeatOK, heartbeatVars
    <2> QED BY <1>4, <2>1, <2>2, <1>2 DEF Threads
  <1>5. CASE HeartbeatTester
    <2>1. EventInv'
      BY <1>5, EventStutter DEF HeartbeatTester, HeartbeatResponse, HeartbeatMiss
    <2>2. HeartbeatOK'
      BY <1>5, TesterKeepsTypes
    <2> QED BY <1>5, <2>1, <2>2, <1>2 DEF HeartbeatTester, HeartbeatResponse, HeartbeatMiss
  <1>6. CASE UNCHANGED supervisionVars
    <2>1. EventInv' /\ HeartbeatOK'
      BY <1>6, EventStutter DEF supervisionVars, heartbeatVars, HeartbeatOK
    <2> QED BY <1>6, <2>1, <1>2 DEF supervisionVars
  <1> QED BY <1>1, <1>3, <1>4, <1>5, <1>6 DEF SupervisionNext

\* The invariant of the program, its daemons and its tester together.
THEOREM SupervisionInvariant ==
    SupervisionSpec => []SupervisionInv
  <1>1. SupervisionInit => SupervisionInv
    BY InitSupervisionInv
  <1>2. SupervisionInv /\ [SupervisionNext]_supervisionVars => SupervisionInv'
    BY NextSupervisionInv
  <1> QED BY <1>1, <1>2, PTL DEF SupervisionSpec

\* The daemon's loop of fork, execv and wait never has two programs running, with
\* any number of failures, and no daemon waits for a process that is gone.
THEOREM OneProgramAtATime ==
    SupervisionSpec => []OneInstance
  <1>1. SupervisionInv => OneInstance
    BY DEF SupervisionInv, EventInv, ChainInv, FaultsOK, HeartbeatOK, OneInstance, SupervisionTypeOK
  <1> QED BY <1>1, SupervisionInvariant, PTL

\* No wake-up of EventWait is lost either when the program ends at any point of a
\* notification and starts again.
THEOREM NoLostWakeUpAcrossCrashes ==
    SupervisionSpec => []NoSleeperIsForgotten
  <1>1. SupervisionInv => NoSleeperIsForgotten
    BY DEF SupervisionInv, EventInv
  <1> QED BY <1>1, SupervisionInvariant, PTL

-----------------------------------------------------------------------------
(***************************************************************************)
(* Third part: the target of the data processing engine.                   *)
(***************************************************************************)
IsSighting(x) ==
    /\ x = [age |-> x.age, trueAge |-> x.trueAge, prbPower |-> x.prbPower, ta |-> x.ta]
    /\ x.age \in Int /\ x.trueAge \in Nat /\ x.prbPower \in Int /\ x.ta \in Int

IsVector(v) ==
    /\ v = [size |-> v.size, last |-> v.last]
    /\ v.size \in Nat
    /\ IsSighting(v.last)

\* a tracker is a record of these fields and no more
Fields == {"target", "candidates", "missCount", "reportCount", "oam"}
IsTracker(t) == t = [f \in Fields |-> t[f]]

\* the age of a vector's last sighting is near the true one
Near(v) ==
    v.last.age - v.last.trueAge \in -(Margin + 2 * (Margin \div 4)) .. Margin + 2 * (Margin \div 4)

Chain == [size : 1 .. 2, last : [age : Int, trueAge : Nat, prbPower : Int, ta : Int]]

CandidatesOK(chains) ==
    /\ chains \in Seq(Chain)
    /\ \A i \in 1 .. Len(chains) : Near(chains[i])

TargetOK(target) ==
    /\ IsVector(target)
    /\ target.size = 0 \/ target.size >= 3
    /\ target.size > 0 => Near(target)

OamOK(t) ==
    /\ t.oam \in {"nothing", "power", "lost"}
    /\ IF Tracked(t) THEN t.oam # "nothing" /\ t.candidates = <<>>
       ELSE t.oam \in {"nothing", "lost"}

MissesOK(t) ==
    /\ t.missCount \in 0 .. 2
    /\ t.missCount > 0 =>
            /\ Tracked(t)
            /\ ~TooManyMisses(t.missCount, t.target)
            /\ t.target.last.age > MaxTimeDiff(t.missCount - 1)

TrackerOK(t) ==
    /\ IsTracker(t)
    /\ TargetOK(t.target)
    /\ CandidatesOK(t.candidates)
    /\ t.reportCount \in 0 .. ReportPeriod - 1
    /\ OamOK(t)
    /\ MissesOK(t)

\* The quarters and halves of the margin are in order.
LEMMA MarginParts ==
    /\ Interval \in Nat \ {0} /\ Margin \in Nat /\ Margin <= Interval
    /\ Margin \div 4 \in Nat /\ Margin \div 2 \in Nat
    /\ Margin \div 4 <= Margin \div 2 /\ Margin \div 2 <= Margin
  BY TargetTrackerAssumption

\* The limits, and how they grow with the misses.
LEMMA Limits ==
    /\ \A m \in 0 .. 2 :
            /\ MaxTimeDiff(m) \in Int /\ MinTimeDiff(m) \in Int /\ CheckLimit(m) \in Int
            /\ MaxTimeDiff(m) <= CheckLimit(m)
            /\ MinTimeDiff(m) - (m + 1) * Interval >= -(Margin + 2 * (Margin \div 4))
            /\ MaxTimeDiff(m) - (m + 1) * Interval <= Margin + 2 * (Margin \div 4)
    /\ MaxTimeDiff(1) <= MaxTimeDiff(2)
  <1>1. MaxTimeDiff(0) = Interval + Margin /\ CheckLimit(0) = Interval + Margin
        /\ MinTimeDiff(0) = Interval - Margin
    BY MarginParts DEF MaxTimeDiff, MinTimeDiff, CheckLimit, MaxTimeInterval, MinTimeInterval
  <1>2. MaxTimeDiff(1) = 2 * Interval + Margin + Margin \div 4
        /\ CheckLimit(1) = 2 * Interval + Margin + Margin \div 2
        /\ MinTimeDiff(1) = 2 * Interval - Margin - Margin \div 4
    BY MarginParts DEF MaxTimeDiff, MinTimeDiff, CheckLimit, MaxTimeInterval, MinTimeInterval
  <1>3. MaxTimeDiff(2) = 3 * Interval + Margin + 2 * (Margin \div 4)
        /\ CheckLimit(2) = 3 * Interval + Margin + 2 * (Margin \div 2)
        /\ MinTimeDiff(2) = 3 * Interval - Margin - 2 * (Margin \div 4)
    BY MarginParts DEF MaxTimeDiff, MinTimeDiff, CheckLimit, MaxTimeInterval, MinTimeInterval
  <1>4. MaxTimeDiff(1) <= MaxTimeDiff(2)
    BY <1>2, <1>3, MarginParts
  <1>5. ASSUME NEW m \in 0 .. 2
        PROVE  /\ MaxTimeDiff(m) \in Int /\ MinTimeDiff(m) \in Int /\ CheckLimit(m) \in Int
               /\ MaxTimeDiff(m) <= CheckLimit(m)
               /\ MinTimeDiff(m) - (m + 1) * Interval >= -(Margin + 2 * (Margin \div 4))
               /\ MaxTimeDiff(m) - (m + 1) * Interval <= Margin + 2 * (Margin \div 4)
    <2>1. m = 0 \/ m = 1 \/ m = 2
      OBVIOUS
    <2>2. CASE m = 0
      BY <2>2, <1>1, MarginParts
    <2>3. CASE m = 1
      BY <2>3, <1>2, MarginParts
    <2>4. CASE m = 2
      BY <2>4, <1>3, MarginParts
    <2> QED BY <2>1, <2>2, <2>3, <2>4
  <1> QED BY <1>4, <1>5

\* A candidate chain is a vector of one or two sightings.
LEMMA ChainsAreVectors == \A v : v \in Chain <=> IsVector(v) /\ v.size \in 1 .. 2
  <1>1. ASSUME NEW v \in Chain PROVE IsVector(v) /\ v.size \in 1 .. 2
    BY DEF Chain, IsVector, IsSighting
  <1>2. ASSUME NEW v, IsVector(v), v.size \in 1 .. 2 PROVE v \in Chain
    BY <1>2 DEF Chain, IsVector, IsSighting
  <1> QED BY <1>1, <1>2

-----------------------------------------------------------------------------
\* Time adds as much to the stored age as to the true one.
LEMMA OlderVector ==
    ASSUME NEW v, IsVector(v), NEW limit
    PROVE  /\ IsVector(Older(v, limit))
           /\ Older(v, limit).size = v.size
           /\ Older(v, limit).last.age - Older(v, limit).last.trueAge = v.last.age - v.last.trueAge
           /\ Older(v, limit).last.age >= v.last.age
  <1> DEFINE w == Older(v, limit)
  <1>1. CASE v.last.age > limit
    BY <1>1 DEF Older, IsVector, IsSighting
  <1>2. CASE ~(v.last.age > limit)
    <2>1. w.size = v.size /\ w = [size |-> w.size, last |-> w.last]
      BY <1>2 DEF Older, IsVector
    <2>2. w.last = [v.last EXCEPT !.age = @ + 1, !.trueAge = @ + 1]
      BY <1>2 DEF Older, IsVector, IsSighting
    <2>3. w.last = [age |-> v.last.age + 1, trueAge |-> v.last.trueAge + 1,
                    prbPower |-> v.last.prbPower, ta |-> v.last.ta]
      BY <2>2 DEF IsVector, IsSighting
    <2> QED BY <2>1, <2>3 DEF IsVector, IsSighting
  <1> QED BY <1>1, <1>2

\* What a report leaves of the tracker, and the loss of a target.
LEMMA ReportFields ==
    ASSUME NEW t, IsTracker(t), NEW power
    PROVE  /\ IsTracker(Report(t, power))
           /\ Report(t, power).target = t.target
           /\ Report(t, power).candidates = t.candidates
           /\ Report(t, power).missCount = t.missCount
           /\ Report(t, power).reportCount = t.reportCount
           /\ Report(t, power).oam = IF power = -1 THEN "lost" ELSE "power"
  BY DEF Report, IsTracker, Fields

\* What is left of the tracker when the target is lost.
LEMMA LoseTargetFields ==
    ASSUME NEW t, IsTracker(t)
    PROVE  /\ IsTracker(LoseTarget(t))
           /\ LoseTarget(t).target = NoSightings
           /\ LoseTarget(t).candidates = <<>>
           /\ LoseTarget(t).missCount = 0
           /\ LoseTarget(t).reportCount = t.reportCount
           /\ LoseTarget(t).oam = "lost"
  BY DEF LoseTarget, Report, IsTracker, Fields

\* No target and no chains are in order.
LEMMA EmptyIsOK == TargetOK(NoSightings) /\ CandidatesOK(<<>>)
  <1>1. IsVector(NoSightings) /\ NoSightings.size = 0
    BY DEF IsVector, IsSighting, NoSightings
  <1>2. CandidatesOK(<<>>)
    BY DEF CandidatesOK
  <1> QED BY <1>1, <1>2 DEF TargetOK

\* Losing the target leaves a tracker in order, and the server knows.
LEMMA LoseTargetOK ==
    ASSUME NEW t, TrackerOK(t)
    PROVE  TrackerOK(LoseTarget(t)) /\ ~Tracked(LoseTarget(t))
  <1> DEFINE u == LoseTarget(t)
  <1>1. /\ IsTracker(u) /\ u.target = NoSightings /\ u.candidates = <<>> /\ u.missCount = 0
        /\ u.reportCount = t.reportCount /\ u.oam = "lost"
    BY LoseTargetFields DEF TrackerOK
  <1> HIDE DEF u
  <1>2. ~Tracked(u)
    BY <1>1 DEF Tracked, NoSightings
  <1>3. OamOK(u)
    BY <1>1, <1>2 DEF OamOK
  <1>4. MissesOK(u)
    BY <1>1 DEF MissesOK
  <1>5. TrackerOK(u)
    BY <1>1, <1>3, <1>4, EmptyIsOK DEF TrackerOK
  <1> QED BY <1>2, <1>5 DEF u

\* A miss is counted only behind the limit of the last one; the target is lost by its
\* second miss at the earliest.
LEMMA MissOK ==
    ASSUME NEW t, TrackerOK(t), Tracked(t), t.target.last.age > MaxTimeDiff(t.missCount)
    PROVE  /\ TrackerOK(Miss(t))
           /\ Tracked(Miss(t)) => Miss(t).target = t.target
           /\ ~Tracked(Miss(t)) => t.target.last.age > MaxTimeDiff(1)
  <1> DEFINE m == t.missCount + 1
             u == Miss(t)
             power == t.target.last.prbPower - 5 * m
  <1>1. m \in 1 .. 3 /\ m - 1 = t.missCount /\ t.missCount \in 0 .. 2
    BY DEF TrackerOK, MissesOK
  <1>2. t.target.size \in Nat /\ t.target.size >= 3 /\ t.target.last.age \in Int
    BY DEF TrackerOK, TargetOK, IsVector, IsSighting, Tracked
  <1>3. CASE TooManyMisses(m, t.target)
    <2>1. u = LoseTarget(t)
      BY <1>3 DEF Miss
    <2>2. m # 1
      BY <1>2, <1>3 DEF TooManyMisses
    <2>3. t.missCount = 1 \/ t.missCount = 2
      BY <1>1, <2>2
    <2>4. t.target.last.age > MaxTimeDiff(1)
      BY <2>3, <1>2, Limits
    <2> QED BY <2>1, <2>4, LoseTargetOK
  <1>4. CASE ~TooManyMisses(m, t.target)
    <2>1. IsTracker(t) /\ IsTracker([t EXCEPT !.missCount = m])
      BY DEF TrackerOK, IsTracker, Fields
    <2>2. u = [Report(t, power) EXCEPT !.missCount = m]
      BY <1>4 DEF Miss
    <2>3. /\ IsTracker(u) /\ u.target = t.target /\ u.candidates = t.candidates /\ u.missCount = m
          /\ u.reportCount = t.reportCount /\ u.oam \in {"lost", "power"}
      <3> DEFINE r == Report(t, power)
      <3>1. /\ IsTracker(r) /\ r.target = t.target /\ r.candidates = t.candidates
            /\ r.reportCount = t.reportCount /\ r.oam \in {"lost", "power"}
        BY <2>1, ReportFields
      <3> HIDE DEF r
      <3>2. u = [r EXCEPT !.missCount = m]
        BY <2>2 DEF r
      <3> HIDE DEF u, m
      <3> QED BY <3>1, <3>2 DEF IsTracker, Fields
    <2> HIDE DEF u
    <2>4. Tracked(u)
      BY <2>3 DEF Tracked
    <2>5. OamOK(u)
      BY <2>3, <2>4 DEF OamOK, TrackerOK
    <2>6. m \in 1 .. 2
      BY <1>1, <1>4 DEF TooManyMisses
    <2>7. MissesOK(u)
      BY <2>3, <2>4, <2>6, <1>1, <1>4 DEF MissesOK
    <2>8. TrackerOK(u)
      BY <2>3, <2>5, <2>7 DEF TrackerOK
    <2> QED BY <2>3, <2>4, <2>8 DEF u
  <1> QED BY <1>3, <1>4

\* checkTarget counts, misses and reports; it never moves a target it keeps.
LEMMA CheckTargetOK ==
    ASSUME NEW t, TrackerOK(t), NEW random \in Int
    PROVE  /\ TrackerOK(CheckTarget(t, random))
           /\ Tracked(t) => \/ t.target.last.age > MaxTimeDiff(1)
                            \/ /\ Tracked(CheckTarget(t, random))
                               /\ CheckTarget(t, random).target = t.target
  <1> DEFINE c == [t EXCEPT !.reportCount = (@ + 1) % ReportPeriod]
             u == CheckTarget(t, random)
  <1>1. CASE ~Tracked(t)
    BY <1>1 DEF CheckTarget
  <1>2. CASE Tracked(t)
    <2>1. /\ IsTracker(c) /\ c.target = t.target /\ c.candidates = t.candidates
          /\ c.missCount = t.missCount /\ c.oam = t.oam
          /\ c.reportCount = (t.reportCount + 1) % ReportPeriod
      BY DEF TrackerOK, IsTracker, Fields
    <2>2. c.reportCount \in 0 .. ReportPeriod - 1
      BY <2>1, TargetTrackerAssumption DEF TrackerOK
    <2>3. u = IF t.target.last.age > CheckLimit(t.missCount) THEN Miss(c)
              ELSE IF c.reportCount = 0 THEN Report(c, t.target.last.prbPower + random)
              ELSE c
      BY <1>2 DEF CheckTarget
    <2> HIDE DEF c, u
    <2>4. TrackerOK(c) /\ Tracked(c)
      BY <1>2, <2>1, <2>2 DEF TrackerOK, OamOK, MissesOK, Tracked
    <2>5. CASE t.target.last.age > CheckLimit(t.missCount)
      <3>1. t.target.last.age > MaxTimeDiff(t.missCount)
        BY <2>5, Limits DEF TrackerOK, MissesOK, TargetOK, IsVector, IsSighting
      <3>2. /\ TrackerOK(Miss(c))
            /\ Tracked(Miss(c)) => Miss(c).target = c.target
            /\ ~Tracked(Miss(c)) => c.target.last.age > MaxTimeDiff(1)
        BY <2>1, <2>4, <3>1, MissOK
      <3> QED BY <2>1, <2>3, <2>5, <3>2 DEF u
    <2>6. CASE ~(t.target.last.age > CheckLimit(t.missCount)) /\ c.reportCount = 0
      <3>1. u = Report(c, t.target.last.prbPower + random)
        BY <2>3, <2>6
      <3>2. /\ IsTracker(u) /\ u.target = c.target /\ u.candidates = c.candidates
            /\ u.missCount = c.missCount /\ u.reportCount = c.reportCount
            /\ u.oam \in {"lost", "power"}
        BY <2>1, <3>1, ReportFields
      <3>3. TrackerOK(u) /\ Tracked(u)
        BY <2>4, <3>2 DEF TrackerOK, OamOK, MissesOK, Tracked
      <3> QED BY <2>1, <3>2, <3>3 DEF u
    <2>7. CASE ~(t.target.last.age > CheckLimit(t.missCount)) /\ c.reportCount # 0
      BY <2>1, <2>3, <2>4, <2>7 DEF u
    <2> QED BY <2>5, <2>6, <2>7
  <1> QED BY <1>1, <1>2

\* A unit of time makes all vectors older.
LEMMA AgedOK ==
    ASSUME NEW t, TrackerOK(t)
    PROVE  TrackerOK(Aged(t)) /\ (Tracked(t) => Tracked(Aged(t)))
  <1> DEFINE u == Aged(t)
  <1>1. IsTracker(t)
    BY DEF TrackerOK
  <1>2. IsTracker(u)
    BY <1>1 DEF Aged, IsTracker, Fields
  <1>3. u.target = IF Tracked(t) THEN Older(t.target, CheckLimit(2)) ELSE t.target
    BY <1>1 DEF Aged, IsTracker, Fields
  <1>4. u.candidates = [i \in DOMAIN t.candidates |-> Older(t.candidates[i], MaxTimeInterval)]
    BY <1>1 DEF Aged, IsTracker, Fields
  <1>5. u.missCount = t.missCount
    BY <1>1 DEF Aged, IsTracker, Fields
  <1>6. u.reportCount = t.reportCount
    BY <1>1 DEF Aged, IsTracker, Fields
  <1>7. u.oam = t.oam
    BY <1>1 DEF Aged, IsTracker, Fields
  <1> HIDE DEF u
  <1>8. /\ IsVector(u.target) /\ u.target.size = t.target.size
        /\ u.target.last.age >= t.target.last.age
        /\ u.target.last.age - u.target.last.trueAge = t.target.last.age - t.target.last.trueAge
    <2>1. IsVector(t.target)
      BY DEF TrackerOK, TargetOK
    <2>2. t.target.last.age >= t.target.last.age
      BY <2>1 DEF IsVector, IsSighting
    <2> QED BY <1>3, <2>1, <2>2, OlderVector
  <1>9. TargetOK(u.target)
    BY <1>8 DEF TrackerOK, TargetOK, Near
  <1>10. CandidatesOK(u.candidates)
    <2>1. t.candidates \in Seq(Chain) /\ Len(t.candidates) \in Nat
          /\ DOMAIN t.candidates = 1 .. Len(t.candidates)
      BY DEF TrackerOK, CandidatesOK
    <2>2. ASSUME NEW i \in 1 .. Len(t.candidates)
          PROVE  /\ Older(t.candidates[i], MaxTimeInterval) \in Chain
                 /\ Near(Older(t.candidates[i], MaxTimeInterval))
      <3>1. t.candidates[i] \in Chain /\ Near(t.candidates[i])
        BY <2>1 DEF TrackerOK, CandidatesOK
      <3>2. IsVector(t.candidates[i]) /\ t.candidates[i].size \in 1 .. 2
        BY <3>1, ChainsAreVectors
      <3> QED BY <3>1, <3>2, OlderVector, ChainsAreVectors DEF Near
    <2>3. u.candidates = [i \in 1 .. Len(t.candidates) |-> Older(t.candidates[i], MaxTimeInterval)]
      BY <1>4, <2>1
    <2>4. u.candidates \in Seq(Chain) /\ Len(u.candidates) = Len(t.candidates)
      BY <2>1, <2>2, <2>3
    <2> QED BY <2>2, <2>3, <2>4 DEF CandidatesOK
  <1>11. Tracked(u) <=> Tracked(t)
    BY <1>8 DEF Tracked
  <1>12. t.candidates = <<>> => u.candidates = <<>>
    BY <1>4
  <1>13. OamOK(u)
    BY <1>7, <1>11, <1>12 DEF TrackerOK, OamOK
  <1>14. MissesOK(u)
    <2>1. TooManyMisses(u.missCount, u.target) <=> TooManyMisses(t.missCount, t.target)
      BY <1>5, <1>8 DEF TooManyMisses
    <2>2. ASSUME t.missCount > 0, t.missCount \in 0 .. 2, t.target.last.age > MaxTimeDiff(t.missCount - 1)
          PROVE  u.target.last.age > MaxTimeDiff(t.missCount - 1)
      <3>1. t.missCount - 1 \in 0 .. 2
        BY <2>2
      <3>2. MaxTimeDiff(t.missCount - 1) \in Int
        BY <3>1, Limits
      <3>3. IsVector(t.target)
        BY DEF TrackerOK, TargetOK
      <3> QED BY <1>8, <2>2, <3>2, <3>3 DEF IsVector, IsSighting
    <2> QED BY <1>5, <1>11, <2>1, <2>2 DEF TrackerOK, MissesOK
  <1>15. TrackerOK(u)
    BY <1>2, <1>6, <1>9, <1>10, <1>13, <1>14 DEF TrackerOK
  <1> QED BY <1>11, <1>15 DEF u

-----------------------------------------------------------------------------
IsInfo(info) == info.prbPower \in Int /\ info.ta \in Int

\* A sighting of the present, and one moved to its nominal time.
LEMMA NewSighting ==
    ASSUME NEW info, IsInfo(info)
    PROVE  /\ IsSighting(Sighting(info))
           /\ Sighting(info).age = 0 /\ Sighting(info).trueAge = 0
           /\ Sighting(info).prbPower = info.prbPower
  BY DEF Sighting, IsSighting, IsInfo

\* Moving a sighting in time changes its age only.
LEMMA NominalSighting ==
    ASSUME NEW x, IsSighting(x), NEW age \in Int
    PROVE  /\ IsSighting([x EXCEPT !.age = age])
           /\ [x EXCEPT !.age = age].age = age
           /\ [x EXCEPT !.age = age].trueAge = x.trueAge
           /\ [x EXCEPT !.age = age].prbPower = x.prbPower
  BY DEF IsSighting

\* A vector ends with the sighting pushed last.
LEMMA PushedVector ==
    ASSUME NEW v, v.size \in Nat, NEW x, IsSighting(x)
    PROVE  /\ IsVector(PushBack(v, x))
           /\ PushBack(v, x).size = v.size + 1
           /\ PushBack(v, x).last = x
  BY DEF PushBack, IsVector

\* A new chain of one sighting beside others that are in order.
LEMMA NewCandidateOK ==
    ASSUME NEW t, IsTracker(t), ~Tracked(t), TargetOK(t.target), CandidatesOK(t.candidates),
           t.reportCount \in 0 .. ReportPeriod - 1, OamOK(t), MissesOK(t),
           NEW x, IsSighting(x), NEW cleared \in BOOLEAN,
           x.age - x.trueAge \in -(Margin + 2 * (Margin \div 4)) .. Margin + 2 * (Margin \div 4)
    PROVE  TrackerOK(NewCandidate(t, x, cleared))
  <1> DEFINE u == NewCandidate(t, x, cleared)
             v == PushBack(NoSightings, x)
             chains == IF cleared THEN <<>> ELSE t.candidates
  <1>1. /\ IsTracker(u) /\ u.target = t.target /\ u.missCount = t.missCount
        /\ u.reportCount = t.reportCount /\ u.oam = t.oam
    BY DEF NewCandidate, IsTracker, Fields
  <1>2. u.candidates = Append(chains, v)
    BY DEF NewCandidate, IsTracker, Fields
  <1>3. v \in Chain /\ Near(v)
    <2>1. NoSightings.size = 0
      BY DEF NoSightings
    <2>2. IsVector(v) /\ v.size = 1 /\ v.last = x
      BY <2>1, PushedVector
    <2> QED BY <2>2, ChainsAreVectors DEF Near
  <1>4. CandidatesOK(chains)
    BY EmptyIsOK
  <1> HIDE DEF u, v, chains
  <1>5. CandidatesOK(u.candidates)
    <2>1. /\ u.candidates \in Seq(Chain) /\ Len(u.candidates) = Len(chains) + 1
          /\ Len(chains) \in Nat
          /\ \A i \in 1 .. Len(chains) : u.candidates[i] = chains[i]
          /\ u.candidates[Len(chains) + 1] = v
      BY <1>2, <1>3, <1>4 DEF CandidatesOK
    <2>2. ASSUME NEW i \in 1 .. Len(u.candidates) PROVE Near(u.candidates[i])
      <3>1. i \in 1 .. Len(chains) \/ i = Len(chains) + 1
        BY <2>1
      <3> QED BY <2>1, <3>1, <1>3, <1>4 DEF CandidatesOK
    <2> QED BY <2>1, <2>2 DEF CandidatesOK
  <1>6. ~Tracked(u)
    BY <1>1 DEF Tracked
  <1>7. OamOK(u) /\ MissesOK(u)
    BY <1>1, <1>6 DEF OamOK, MissesOK, Tracked
  <1> QED BY <1>1, <1>5, <1>7 DEF TrackerOK, u

\* A sighting continues a chain, which may become the target, or starts one.
LEMMA TryCandidatesOK ==
    ASSUME NEW t, TrackerOK(t), ~Tracked(t), NEW x, IsSighting(x), x.age = 0, x.trueAge = 0
    PROVE  TrackerOK(TryCandidates(t, x).tracker)
  <1> DEFINE chains == t.candidates
             chain == SelectInSeq(chains, LAMBDA v : Follows(x, v))
             nominal == [x EXCEPT !.age = chains[chain].last.age - Interval]
             grown == PushBack(chains[chain], nominal)
             u == TryCandidates(t, x).tracker
  <1>1. CASE chain = 0
    <2> DEFINE cleared == chains # <<>> /\ Last(chains).last.age > MaxTimeInterval
    <2>1. u = NewCandidate(t, x, cleared)
      BY <1>1 DEF TryCandidates
    <2>2. cleared \in BOOLEAN
      OBVIOUS
    <2> HIDE DEF cleared
    <2>3. x.age - x.trueAge \in -(Margin + 2 * (Margin \div 4)) .. Margin + 2 * (Margin \div 4)
      BY MarginParts
    <2> QED BY <2>1, <2>2, <2>3, NewCandidateOK DEF TrackerOK
  <1>2. CASE chain # 0
    <2>1. chain \in 1 .. Len(chains) /\ Follows(x, chains[chain])
      <3> DEFINE I == {i \in 1 .. Len(chains) : Follows(x, chains[i])}
      <3>1. I # {} /\ chain = Min(I)
        BY <1>2 DEF SelectInSeq
      <3>2. I \in SUBSET Nat
        OBVIOUS
      <3>3. Min(I) \in I
        BY <3>1, <3>2, MinOfNats DEF Min
      <3> QED BY <3>1, <3>3
    <2> HIDE DEF chain
    <2>2. chains \in Seq(Chain) /\ chains[chain] \in Chain /\ IsVector(chains[chain])
          /\ chains[chain].size \in 1 .. 2
      BY <2>1, ChainsAreVectors DEF TrackerOK, CandidatesOK
    <2>3. chains[chain].last.age \in Int
      BY <2>2 DEF IsVector, IsSighting
    <2>4. /\ IsSighting(nominal) /\ nominal.age = chains[chain].last.age - Interval
          /\ nominal.trueAge = 0 /\ nominal.prbPower = x.prbPower
      BY <2>3, MarginParts, NominalSighting
    <2> HIDE DEF nominal
    <2>5. nominal.age - nominal.trueAge \in -(Margin + 2 * (Margin \div 4)) .. Margin + 2 * (Margin \div 4)
      <3>1. chains[chain].last.age \in Interval - Margin .. Interval + Margin
        BY <2>1 DEF Follows, MinTimeInterval, MaxTimeInterval
      <3>2. nominal.age - nominal.trueAge \in -Margin .. Margin
        BY <3>1, <2>3, <2>4, MarginParts
      <3> QED BY <3>2, <2>4, MarginParts
    <2>6. IsVector(grown) /\ grown.size = chains[chain].size + 1 /\ grown.last = nominal
      BY <2>2, <2>4, PushedVector
    <2>7. Near(grown)
      BY <2>5, <2>6 DEF Near
    <2>8. CASE grown.size = 3
      <3>1. u = TargetFound(t, grown)
        BY <1>2, <2>8 DEF TryCandidates, chain, nominal
      <3> DEFINE r == [t EXCEPT !.target = grown, !.missCount = 0, !.candidates = <<>>]
      <3> HIDE DEF grown, u
      <3>2. /\ IsTracker(r) /\ r.target = grown /\ r.missCount = 0 /\ r.candidates = <<>>
            /\ r.reportCount = t.reportCount
        BY DEF TrackerOK, IsTracker, Fields
      <3>3. u = Report(r, grown.last.prbPower)
        BY <3>1 DEF TargetFound
      <3> HIDE DEF r
      <3>4. /\ IsTracker(u) /\ u.target = grown /\ u.missCount = 0 /\ u.candidates = <<>>
            /\ u.reportCount = t.reportCount /\ u.oam \in {"lost", "power"}
        BY <3>2, <3>3, ReportFields
      <3>5. TargetOK(u.target) /\ Tracked(u)
        BY <2>6, <2>7, <2>8, <3>4 DEF TargetOK, Tracked
      <3>6. OamOK(u) /\ MissesOK(u)
        BY <3>4, <3>5 DEF OamOK, MissesOK
      <3>7. TrackerOK(u)
        BY <3>4, <3>5, <3>6, EmptyIsOK DEF TrackerOK
      <3> QED BY <3>7 DEF u
    <2>9. CASE grown.size # 3
      <3> DEFINE r == [t EXCEPT !.candidates[chain] = grown]
      <3>1. u = NewCandidate(r, nominal, FALSE)
        BY <1>2, <2>9 DEF TryCandidates, chain, nominal
      <3>2. grown \in Chain
        BY <2>2, <2>6, <2>9, ChainsAreVectors
      <3> HIDE DEF grown, u
      <3>3. /\ IsTracker(r) /\ r.target = t.target /\ r.missCount = t.missCount
            /\ r.reportCount = t.reportCount /\ r.oam = t.oam
        BY DEF TrackerOK, IsTracker, Fields
      <3>4. r.candidates = [chains EXCEPT ![chain] = grown]
        BY DEF TrackerOK, IsTracker, Fields
      <3> HIDE DEF r
      <3>5. CandidatesOK(r.candidates)
        <4>1. /\ r.candidates \in Seq(Chain) /\ Len(r.candidates) = Len(chains)
              /\ \A i \in 1 .. Len(chains) :
                    r.candidates[i] = IF i = chain THEN grown ELSE chains[i]
          BY <2>1, <2>2, <3>2, <3>4, ToSetOfExcept
        <4>2. \A i \in 1 .. Len(chains) : Near(chains[i])
          BY DEF TrackerOK, CandidatesOK
        <4> QED BY <2>7, <4>1, <4>2 DEF CandidatesOK
      <3>6. ~Tracked(r)
        BY <3>3 DEF Tracked
      <3>7. OamOK(r) /\ MissesOK(r)
        BY <3>3, <3>6 DEF OamOK, MissesOK, TrackerOK, Tracked
      <3>8. TrackerOK(u)
        BY <3>1, <3>3, <3>5, <3>6, <3>7, <2>4, <2>5, NewCandidateOK DEF TrackerOK
      <3> QED BY <3>8 DEF u
    <2> QED BY <2>8, <2>9
  <1> QED BY <1>1, <1>2

\* The target came up again, within the limits of its misses.
LEMMA FollowTargetOK ==
    ASSUME NEW t, TrackerOK(t), Tracked(t), NEW x, IsSighting(x), x.trueAge = 0,
           t.target.last.age >= MinTimeDiff(t.missCount),
           t.target.last.age <= MaxTimeDiff(t.missCount)
    PROVE  TrackerOK(FollowTarget(t, x)) /\ Tracked(FollowTarget(t, x))
  <1> DEFINE age == t.target.last.age - (t.missCount + 1) * Interval
             nominal == [x EXCEPT !.age = age]
             grown == PushBack(t.target, nominal)
             r == [t EXCEPT !.target = PushBack(@, nominal), !.missCount = 0]
             u == FollowTarget(t, x)
  <1>1. /\ t.missCount \in 0 .. 2 /\ t.target.last.age \in Int
        /\ t.target.size \in Nat /\ t.target.size >= 3
    BY DEF TrackerOK, MissesOK, TargetOK, IsVector, IsSighting, Tracked
  <1>2. age \in Int /\ age \in -(Margin + 2 * (Margin \div 4)) .. Margin + 2 * (Margin \div 4)
    <2> DEFINE step == (t.missCount + 1) * Interval
    <2>1. step \in Int
      BY <1>1, MarginParts
    <2>2. /\ MaxTimeDiff(t.missCount) \in Int /\ MinTimeDiff(t.missCount) \in Int
          /\ MinTimeDiff(t.missCount) - step >= -(Margin + 2 * (Margin \div 4))
          /\ MaxTimeDiff(t.missCount) - step <= Margin + 2 * (Margin \div 4)
      BY <1>1, Limits
    <2>3. age = t.target.last.age - step
      OBVIOUS
    <2> HIDE DEF step, age
    <2> QED BY <1>1, <2>1, <2>2, <2>3, MarginParts
  <1> HIDE DEF age
  <1>3. IsSighting(nominal) /\ nominal.age = age /\ nominal.trueAge = 0
    BY <1>2, NominalSighting
  <1>4. u = Report(r, x.prbPower)
    BY DEF FollowTarget, age
  <1> HIDE DEF nominal, u
  <1>5. IsVector(grown) /\ grown.size = t.target.size + 1 /\ grown.last = nominal
    BY <1>1, <1>3, PushedVector
  <1>6. /\ IsTracker(r) /\ r.target = grown /\ r.missCount = 0
        /\ r.candidates = t.candidates /\ r.reportCount = t.reportCount
    BY DEF TrackerOK, IsTracker, Fields
  <1> HIDE DEF r, grown
  <1>7. /\ IsTracker(u) /\ u.target = grown /\ u.missCount = 0
        /\ u.candidates = t.candidates /\ u.reportCount = t.reportCount
        /\ u.oam \in {"lost", "power"}
    BY <1>4, <1>6, ReportFields
  <1>8. TargetOK(u.target) /\ Tracked(u)
    BY <1>1, <1>2, <1>3, <1>5, <1>7 DEF TargetOK, Tracked, Near
  <1>9. OamOK(u) /\ MissesOK(u)
    BY <1>7, <1>8 DEF OamOK, MissesOK, TrackerOK
  <1>10. TrackerOK(u)
    BY <1>7, <1>8, <1>9 DEF TrackerOK
  <1> QED BY <1>8, <1>10 DEF u

-----------------------------------------------------------------------------
\* Where the loop over a message stands, in relation to the tracker t the turn began
\* with: t's target is still there unless it was silent for too long.
Kept(t, s) ==
    Tracked(t) =>
        \/ t.target.last.age > MaxTimeDiff(1)
        \/ Tracked(s.tracker) /\ (s.done \/ s.tracker.target = t.target)

LoopOK(t, s) ==
    /\ s = [tracker |-> s.tracker, done |-> s.done]
    /\ s.done \in BOOLEAN
    /\ TrackerOK(s.tracker)
    /\ Kept(t, s)

\* An entry of the message keeps the tracker in order, and the target unless it was
\* silent for too long.
LEMMA ProcessEntryOK ==
    ASSUME NEW t, NEW s, LoopOK(t, s), NEW info, IsInfo(info)
    PROVE  LoopOK(t, ProcessEntry(s, info))
  <1> DEFINE c == s.tracker
             age == c.target.last.age
             missed == Miss(c)
             x == Sighting(info)
             e == ProcessEntry(s, info)
  <1>1. TrackerOK(c) /\ s.done \in BOOLEAN /\ s = [tracker |-> c, done |-> s.done] /\ Kept(t, s)
    BY DEF LoopOK
  <1>2. IsSighting(x) /\ x.age = 0 /\ x.trueAge = 0
    BY NewSighting
  <1>3. c.missCount \in 0 .. 2 /\ age \in Int
    BY <1>1 DEF TrackerOK, MissesOK, TargetOK, IsVector, IsSighting
  <1>4. MinTimeDiff(c.missCount) \in Int /\ MaxTimeDiff(c.missCount) \in Int
    BY <1>3, Limits
  <1>5. ASSUME NEW u, TrackerOK(u), NEW done \in BOOLEAN, Kept(t, [tracker |-> u, done |-> done])
        PROVE  LoopOK(t, [tracker |-> u, done |-> done])
    BY <1>5 DEF LoopOK
  <1>6. CASE s.done
    BY <1>6 DEF ProcessEntry
  <1>7. CASE ~s.done /\ ~Tracked(c)
    <2>1. e = TryCandidates(c, x)
      BY <1>7 DEF ProcessEntry
    <2>2. TrackerOK(TryCandidates(c, x).tracker)
      BY <1>1, <1>2, <1>7, TryCandidatesOK
    <2>3. ~Tracked(t) \/ t.target.last.age > MaxTimeDiff(1)
      <3>1. Tracked(t) =>
                \/ t.target.last.age > MaxTimeDiff(1)
                \/ Tracked(c) /\ (s.done \/ c.target = t.target)
        BY <1>1 DEF Kept
      <3> QED BY ONLY <1>7, <3>1
    <2>4. /\ TryCandidates(c, x) = [tracker |-> TryCandidates(c, x).tracker,
                                    done |-> TryCandidates(c, x).done]
          /\ TryCandidates(c, x).done \in BOOLEAN
      BY DEF TryCandidates
    <2> QED BY <2>1, <2>2, <2>3, <2>4 DEF LoopOK, Kept
  <1>8. CASE ~s.done /\ Tracked(c) /\ age < MinTimeDiff(c.missCount)
    BY <1>8 DEF ProcessEntry
  <1>9. CASE ~s.done /\ Tracked(c) /\ ~(age < MinTimeDiff(c.missCount)) /\ age <= MaxTimeDiff(c.missCount)
    <2>1. CASE info.prbPower = 0
      BY <1>9, <2>1 DEF ProcessEntry
    <2>2. CASE info.prbPower # 0
      <3>1. e = [tracker |-> FollowTarget(c, x), done |-> TRUE]
        BY <1>9, <2>2 DEF ProcessEntry
      <3>2. TrackerOK(FollowTarget(c, x)) /\ Tracked(FollowTarget(c, x))
        BY <1>1, <1>2, <1>3, <1>4, <1>9, FollowTargetOK
      <3>3. Kept(t, e)
        BY <3>1, <3>2 DEF Kept
      <3> QED BY <1>5, <3>1, <3>2, <3>3
    <2> QED BY <2>1, <2>2
  <1>10. CASE ~s.done /\ Tracked(c) /\ ~(age < MinTimeDiff(c.missCount)) /\ ~(age <= MaxTimeDiff(c.missCount))
    <2>1. /\ TrackerOK(missed)
          /\ Tracked(missed) => missed.target = c.target
          /\ ~Tracked(missed) => age > MaxTimeDiff(1)
      <3>1. age > MaxTimeDiff(c.missCount)
        BY <1>3, <1>4, <1>10
      <3> QED BY <1>1, <1>10, <3>1, MissOK
    <2>2. Tracked(t) => t.target.last.age > MaxTimeDiff(1) \/ c.target = t.target
      BY <1>1, <1>10 DEF Kept
    <2> HIDE DEF missed
    <2>3. CASE Tracked(missed)
      <3>1. e = [tracker |-> missed, done |-> FALSE]
        <4>1. e = [s EXCEPT !.tracker = missed]
          BY <1>10, <2>3 DEF ProcessEntry, missed
        <4> QED BY <4>1, <1>1, <1>10
      <3>2. Kept(t, e)
        BY <2>1, <2>2, <2>3, <3>1 DEF Kept
      <3> QED BY <1>5, <2>1, <3>1, <3>2
    <2>4. CASE ~Tracked(missed)
      <3>1. e = TryCandidates(missed, x)
        BY <1>10, <2>4 DEF ProcessEntry, missed
      <3>2. TrackerOK(TryCandidates(missed, x).tracker)
        BY <1>2, <2>1, <2>4, TryCandidatesOK
      <3>3. ~Tracked(t) \/ t.target.last.age > MaxTimeDiff(1)
        BY <2>1, <2>2, <2>4
      <3>4. /\ TryCandidates(missed, x) = [tracker |-> TryCandidates(missed, x).tracker,
                                           done |-> TryCandidates(missed, x).done]
            /\ TryCandidates(missed, x).done \in BOOLEAN
        BY DEF TryCandidates
      <3> QED BY <3>1, <3>2, <3>3, <3>4 DEF LoopOK, Kept
    <2> QED BY <2>3, <2>4
  <1> QED BY <1>6, <1>7, <1>8, <1>9, <1>10, <1>1

IsLoop(after, start, infos, n) ==
    after = [i \in 0 .. n |-> IF i = 0 THEN start ELSE ProcessEntry(after[i - 1], infos[i])]

\* The loop of processUeEstablishInfo exists for a message of any length: if there were
\* a least length without one, the loop over one entry less would make one.
LEMMA LoopExists ==
    ASSUME NEW start, NEW infos, NEW length \in Nat
    PROVE  \E after : IsLoop(after, start, infos, length)
  <1> DEFINE Loop(f, n) == f = [i \in 0 .. n |-> IF i = 0 THEN start
                                                 ELSE ProcessEntry(f[i - 1], infos[i])]
             Missing == {n \in Nat : ~\E f : Loop(f, n)}
  <1>1. Missing = {}
    <2> SUFFICES ASSUME Missing # {} PROVE FALSE
      OBVIOUS
    <2>1. PICK n \in Missing : \A m \in Missing : n <= m
      <3> Missing \in SUBSET Nat
        OBVIOUS
      <3> QED BY MinOfNats
    <2>2. n # 0
      <3>1. Loop([i \in 0 .. 0 |-> start], 0)
        OBVIOUS
      <3> QED BY <3>1, <2>1
    <2>3. n \in Nat /\ n - 1 \in Nat /\ n - 1 \notin Missing
      BY <2>1, <2>2
    <2>4. PICK f : Loop(f, n - 1)
      BY <2>3
    <2> DEFINE g == [i \in 0 .. n |-> IF i = n THEN ProcessEntry(f[n - 1], infos[n]) ELSE f[i]]
    <2>5. \A i \in 0 .. n - 1 : g[i] = f[i]
      BY <2>3
    <2>6. \A i \in 0 .. n : g[i] = IF i = 0 THEN start ELSE ProcessEntry(g[i - 1], infos[i])
      <3> SUFFICES ASSUME NEW i \in 0 .. n
                   PROVE  g[i] = IF i = 0 THEN start ELSE ProcessEntry(g[i - 1], infos[i])
        OBVIOUS
      <3>1. CASE i = n
        BY <3>1, <2>2, <2>3, <2>5
      <3>2. CASE i # n
        <4>1. i \in 0 .. n - 1 /\ g[i] = f[i]
          BY <3>2, <2>3, <2>5
        <4>2. f[i] = IF i = 0 THEN start ELSE ProcessEntry(f[i - 1], infos[i])
          BY <2>4, <4>1
        <4>3. i # 0 => g[i - 1] = f[i - 1]
          BY <4>1, <2>3, <2>5
        <4> QED BY <4>1, <4>2, <4>3
      <3> QED BY <3>1, <3>2
    <2>7. Loop(g, n)
      BY <2>6
    <2> QED BY <2>1, <2>7
  <1>2. \E f : Loop(f, length)
    BY <1>1
  <1> QED BY <1>2 DEF IsLoop

\* The whole message does: at a first entry that did not, ProcessEntryOK would fail.
LEMMA ProcessUeEstablishInfoOK ==
    ASSUME NEW t, NEW c, LoopOK(t, [tracker |-> c, done |-> FALSE]),
           NEW infos, Len(infos) \in Nat, \A i \in 1 .. Len(infos) : IsInfo(infos[i])
    PROVE  /\ TrackerOK(ProcessUeEstablishInfo(c, infos))
           /\ Tracked(t) => \/ t.target.last.age > MaxTimeDiff(1)
                            \/ Tracked(ProcessUeEstablishInfo(c, infos))
  <1> DEFINE n == Len(infos)
             start == [tracker |-> c, done |-> FALSE]
             after == CHOOSE f : IsLoop(f, start, infos, n)
  <1>1. ProcessUeEstablishInfo(c, infos) = after[n].tracker
    BY DEF ProcessUeEstablishInfo, IsLoop
  <1>2. IsLoop(after, start, infos, n)
    <2>1. n \in Nat
      OBVIOUS
    <2> HIDE DEF n, start
    <2>2. \E f : IsLoop(f, start, infos, n)
      BY <2>1, LoopExists
    <2> QED BY <2>2 DEF after
  <1> HIDE DEF after
  <1>3. \A i \in 0 .. n : after[i] = IF i = 0 THEN start ELSE ProcessEntry(after[i - 1], infos[i])
    BY <1>2 DEF IsLoop
  <1> DEFINE Bad == {i \in 0 .. n : ~LoopOK(t, after[i])}
  <1>4. Bad = {}
    <2> SUFFICES ASSUME Bad # {} PROVE FALSE
      OBVIOUS
    <2>1. PICK i \in Bad : \A j \in Bad : i <= j
      <3> Bad \in SUBSET Nat
        OBVIOUS
      <3> QED BY MinOfNats
    <2>2. i # 0
      BY <1>3, <2>1
    <2>3. i - 1 \in 0 .. n /\ i \in 1 .. n /\ i - 1 \notin Bad
      BY <2>1, <2>2
    <2>4. LoopOK(t, after[i - 1]) /\ IsInfo(infos[i])
      BY <2>3
    <2>5. after[i] = ProcessEntry(after[i - 1], infos[i])
      BY <1>3, <2>1, <2>2
    <2> QED BY <2>1, <2>4, <2>5, ProcessEntryOK
  <1>5. LoopOK(t, after[n])
    BY <1>4
  <1> QED BY <1>1, <1>5 DEF LoopOK, Kept

-----------------------------------------------------------------------------
(***************************************************************************)
(* Fourth part: the logins and the queries about them.                     *)
(***************************************************************************)
QueryFields == {"querying", "nth", "imsi", "begin", "end", "id", "numRecord"}

Query == [querying : BOOLEAN, nth : 0 .. MaxRequests, imsi : Imsis \cup {AnyImsi},
          begin : 0 .. MaxDay, end : 0 .. MaxDay, id : 0 .. MaxLogins,
          numRecord : 0 .. MaxLogins]

Rows == [imsi : Imsis, time : 1 .. MaxDay]

\* the rows of a user that the query has been given
RowsOf(rows, query, imsi) ==
    {id \in 1 .. query.id : rows[id].imsi = imsi /\ Selects(query, rows[id])}

\* the times are those of the rows, as far as a behaviour shows them
TimesOf(times, rows, given) ==
    /\ Len(times) = Cardinality(given)
    /\ given # {} => /\ Head(times) = rows[Min(given)].time
                     /\ Last(times) = rows[Max(given)].time

\* what the query collected so far
QueryInStep ==
    /\ engine.id <= Len(logins)
    /\ engine.numRecord <= engine.id
    /\ engine.querying =>
            \A i \in Imsis : engine.imsi \in {AnyImsi, i} =>
                TimesOf(loginTimes[i], logins, RowsOf(logins, engine, i))

BehaviorOK(b, rows) ==
    /\ b.imsi \in Imsis
    /\ b.query \in Query
    /\ b.query.id <= Len(rows)
    /\ RowsOf(rows, b.query, b.imsi) # {}
    /\ b.count = Cardinality(RowsOf(rows, b.query, b.imsi))
    /\ b.first = rows[Min(RowsOf(rows, b.query, b.imsi))].time
    /\ b.last = rows[Max(RowsOf(rows, b.query, b.imsi))].time

LoginInv ==
    /\ LoginTypeOK
    /\ QueryInStep
    /\ \A b \in behaviors : BehaviorOK(b, logins)

\* The table only grows.
Grows(old, new) ==
    /\ new \in Seq(Rows) /\ Len(new) <= MaxLogins
    /\ Len(old) <= Len(new)
    /\ \A id \in 1 .. Len(old) : new[id] = old[id]

\* The type of a query, by its fields.
LEMMA QueryHasFields ==
    ASSUME NEW e \in Query
    PROVE  e = [f \in QueryFields |-> e[f]]
  BY DEF Query, QueryFields

\* The types of the tables, one by one.
LEMMA LoginTypes ==
    ASSUME LoginTypeOK
    PROVE  /\ day \in 1 .. MaxDay
           /\ logins \in Seq(Rows) /\ Len(logins) \in Nat /\ Len(logins) <= MaxLogins
           /\ engine \in Query
           /\ loginTimes \in [Imsis -> Seq(1 .. MaxDay)]
           /\ \A b \in behaviors : b.imsi \in Imsis /\ b.query \in Query
           /\ DOMAIN logins = 1 .. Len(logins)
  BY DEF LoginTypeOK, Query, Rows

\* What a query was given is not changed by a row that is added.
LEMMA RowsStay ==
    ASSUME NEW old, NEW new, Len(old) \in Nat, Grows(old, new),
           NEW query, query.id \in Nat, query.id <= Len(old), NEW imsi
    PROVE  /\ RowsOf(new, query, imsi) = RowsOf(old, query, imsi)
           /\ RowsOf(old, query, imsi) \in SUBSET (1 .. Len(old))
           /\ \A id \in RowsOf(old, query, imsi) : new[id] = old[id]
  <1>1. \A id \in 1 .. query.id : id \in 1 .. Len(old) /\ new[id] = old[id]
    BY DEF Grows
  <1> QED BY <1>1 DEF RowsOf

\* A stored behaviour stays true when rows are added.
LEMMA BehaviorStays ==
    ASSUME NEW old, NEW new, Len(old) \in Nat, Grows(old, new), NEW b, BehaviorOK(b, old)
    PROVE  BehaviorOK(b, new)
  <1> DEFINE rows == RowsOf(old, b.query, b.imsi)
  <1>1. b.query.id \in Nat /\ b.query.id <= Len(old)
    BY DEF BehaviorOK, Query
  <1>2. RowsOf(new, b.query, b.imsi) = rows /\ rows \in SUBSET (1 .. Len(old))
        /\ \A id \in rows : new[id] = old[id]
    BY <1>1, RowsStay
  <1>3. rows # {}
    BY DEF BehaviorOK
  <1> HIDE DEF rows
  <1>4. Min(rows) \in rows /\ Max(rows) \in rows
    <2>1. rows \in SUBSET Nat
      BY <1>2
    <2> QED BY <1>2, <1>3, <2>1, MinIsIn, MaxIsIn
  <1>5. b.query.id <= Len(new)
    BY <1>1 DEF Grows
  <1> QED BY <1>2, <1>3, <1>4, <1>5 DEF BehaviorOK, rows

\* So do the times that a query in progress has collected.
LEMMA QueryStaysInStep ==
    ASSUME LoginInv, Grows(logins, logins'), UNCHANGED <<engine, loginTimes>>
    PROVE  QueryInStep'
  <1>1. engine.id \in Nat /\ engine.id <= Len(logins) /\ Len(logins) \in Nat
    BY LoginTypes DEF LoginInv, QueryInStep, Query
  <1>2. ASSUME NEW i \in Imsis, TimesOf(loginTimes[i], logins, RowsOf(logins, engine, i))
        PROVE  TimesOf(loginTimes[i], logins', RowsOf(logins', engine, i))
    <2> DEFINE rows == RowsOf(logins, engine, i)
    <2>1. RowsOf(logins', engine, i) = rows /\ rows \in SUBSET (1 .. Len(logins))
          /\ \A id \in rows : logins'[id] = logins[id]
      BY <1>1, RowsStay
    <2> HIDE DEF rows
    <2>2. rows # {} => Min(rows) \in rows /\ Max(rows) \in rows
      <3>1. rows \in SUBSET Nat
        BY <2>1
      <3> QED BY <1>1, <2>1, <3>1, MinIsIn, MaxIsIn
    <2> QED BY <1>2, <2>1, <2>2 DEF TimesOf, rows
  <1>3. engine.id <= Len(logins')
    BY <1>1 DEF Grows
  <1> QED BY <1>2, <1>3 DEF LoginInv, QueryInStep

-----------------------------------------------------------------------------
IsIdentity(identity) == identity.imsi \in Imsis \cup {AnyImsi} /\ identity.mTmsiPresent \in BOOLEAN

\* An insert adds a row behind the others, or none.
LEMMA InsertGrows ==
    ASSUME LoginTypeOK, NEW rows, Grows(logins, rows), NEW identity,
           NEW new \in DbInsertLoginImsi(rows, identity)
    PROVE  Grows(logins, new)
  <1>1. CASE new = rows
    BY <1>1
  <1>2. CASE new # rows
    <2> DEFINE row == [imsi |-> identity.imsi, time |-> day]
    <2>1. new = Append(rows, row) /\ IsStored(identity) /\ Len(rows) < MaxLogins
      BY <1>2 DEF DbInsertLoginImsi
    <2>2. row \in Rows
      BY <2>1, LoginTypes DEF IsStored, Rows
    <2> HIDE DEF row
    <2>3. rows \in Seq(Rows) /\ Len(rows) \in Nat /\ Len(logins) \in Nat /\ MaxLogins \in Nat
      BY LoginTypes, LoginInfoAssumption DEF Grows
    <2>4. new \in Seq(Rows) /\ Len(new) = Len(rows) + 1
          /\ \A id \in 1 .. Len(rows) : new[id] = rows[id]
      BY <2>1, <2>2, <2>3
    <2> QED BY <2>1, <2>3, <2>4 DEF Grows
  <1> QED BY <1>1, <1>2

IsTables(tables, rows, identities, n) ==
    tables = [i \in 0 .. n |->
                IF i = 0 THEN {rows}
                ELSE UNION {DbInsertLoginImsi(r, identities[i]) : r \in tables[i - 1]}]

\* The loop of saveUeIdentity exists for a message of any length, as LoopExists says
\* of the other loop.
LEMMA TablesExist ==
    ASSUME NEW rows, NEW identities, NEW length \in Nat
    PROVE  \E tables : IsTables(tables, rows, identities, length)
  <1> DEFINE next(f, i) == UNION {DbInsertLoginImsi(r, identities[i]) : r \in f}
             Loop(f, n) == f = [i \in 0 .. n |-> IF i = 0 THEN {rows} ELSE next(f[i - 1], i)]
             Missing == {n \in Nat : ~\E f : Loop(f, n)}
  <1> HIDE DEF next
  <1>1. Missing = {}
    <2> SUFFICES ASSUME Missing # {} PROVE FALSE
      OBVIOUS
    <2>1. PICK n \in Missing : \A m \in Missing : n <= m
      <3> Missing \in SUBSET Nat
        OBVIOUS
      <3> QED BY MinOfNats
    <2>2. n # 0
      <3>1. Loop([i \in 0 .. 0 |-> {rows}], 0)
        OBVIOUS
      <3> QED BY <3>1, <2>1
    <2>3. n \in Nat /\ n - 1 \in Nat /\ n - 1 \notin Missing
      <3>1. n \in Nat
        BY <2>1
      <3>2. n - 1 \in Nat /\ ~(n <= n - 1)
        BY <2>2, <3>1
      <3> HIDE DEF Missing
      <3> QED BY <2>1, <3>1, <3>2
    <2>4. PICK f : Loop(f, n - 1)
      BY <2>3
    <2> DEFINE g == [i \in 0 .. n |-> IF i = n THEN next(f[n - 1], n) ELSE f[i]]
    <2>5. \A i \in 0 .. n - 1 : g[i] = f[i]
      BY <2>3
    <2>6. \A i \in 0 .. n : g[i] = IF i = 0 THEN {rows} ELSE next(g[i - 1], i)
      <3> SUFFICES ASSUME NEW i \in 0 .. n
                   PROVE  g[i] = IF i = 0 THEN {rows} ELSE next(g[i - 1], i)
        OBVIOUS
      <3>1. CASE i = n
        BY <3>1, <2>2, <2>3, <2>5
      <3>2. CASE i # n
        <4>1. i \in 0 .. n - 1 /\ g[i] = f[i]
          BY <3>2, <2>3, <2>5
        <4>2. f[i] = IF i = 0 THEN {rows} ELSE next(f[i - 1], i)
          BY <2>4, <4>1
        <4>3. i # 0 => g[i - 1] = f[i - 1]
          BY <4>1, <2>3, <2>5
        <4> QED BY <4>1, <4>2, <4>3
      <3> QED BY <3>1, <3>2
    <2>7. Loop(g, n)
      BY <2>6
    <2> QED BY <2>1, <2>7
  <1>2. \E f : Loop(f, length)
    BY <1>1
  <1> QED BY <1>2 DEF IsTables, next

\* Whatever rows are stored of a message, those before it stay where they are.
LEMMA SaveUeIdentityGrows ==
    ASSUME LoginTypeOK, NEW identities, Len(identities) \in Nat, SaveUeIdentity(identities)
    PROVE  Grows(logins, logins') /\ UNCHANGED <<day, engine, loginTimes, behaviors>>
  <1> DEFINE n == Len(identities)
             tables == CHOOSE f : IsTables(f, logins, identities, n)
  <1>1. logins' \in tables[n] /\ UNCHANGED <<day, engine, loginTimes, behaviors>>
    BY DEF SaveUeIdentity, IsTables
  <1>2. IsTables(tables, logins, identities, n)
    <2>1. n \in Nat
      OBVIOUS
    <2> HIDE DEF n
    <2>2. \E f : IsTables(f, logins, identities, n)
      BY <2>1, TablesExist
    <2> QED BY <2>2
  <1> HIDE DEF tables
  <1>3. \A i \in 0 .. n : tables[i] =
            IF i = 0 THEN {logins}
            ELSE UNION {DbInsertLoginImsi(r, identities[i]) : r \in tables[i - 1]}
    BY <1>2 DEF IsTables
  <1> DEFINE Bad == {i \in 0 .. n : ~\A rows \in tables[i] : Grows(logins, rows)}
  <1>4. Bad = {}
    <2> SUFFICES ASSUME Bad # {} PROVE FALSE
      OBVIOUS
    <2>1. PICK i \in Bad : \A j \in Bad : i <= j
      <3> Bad \in SUBSET Nat
        OBVIOUS
      <3> QED BY MinOfNats
    <2>2. PICK rows \in tables[i] : ~Grows(logins, rows)
      BY <2>1
    <2>3. i # 0
      <3>1. Grows(logins, logins)
        BY LoginTypes DEF Grows
      <3> QED BY <3>1, <1>3, <2>1, <2>2
    <2>4. i - 1 \in 0 .. n /\ i - 1 \notin Bad
      BY <2>1, <2>3
    <2>5. PICK r \in tables[i - 1] : rows \in DbInsertLoginImsi(r, identities[i])
      <3>1. tables[i] = UNION {DbInsertLoginImsi(r, identities[i]) : r \in tables[i - 1]}
        BY <1>3, <2>1, <2>3
      <3> QED BY <2>2, <3>1
    <2>6. Grows(logins, r)
      BY <2>4, <2>5
    <2> QED BY <2>2, <2>5, <2>6, InsertGrows
  <1>5. Grows(logins, logins')
    BY <1>1, <1>4
  <1> QED BY <1>1, <1>5

\* Inserts keep the invariant, also while a query runs.
LEMMA GrowingKeepsInv ==
    ASSUME LoginInv, Grows(logins, logins'), UNCHANGED <<day, engine, loginTimes, behaviors>>
    PROVE  LoginInv'
  <1>1. LoginTypeOK'
    BY DEF LoginInv, Grows, LoginTypeOK, Rows
  <1>2. QueryInStep'
    BY QueryStaysInStep
  <1>3. \A b \in behaviors : BehaviorOK(b, logins')
    <2>1. Len(logins) \in Nat
      BY LoginTypes DEF LoginInv
    <2> QED BY <2>1, BehaviorStays DEF LoginInv
  <1> QED BY <1>1, <1>2, <1>3 DEF LoginInv

-----------------------------------------------------------------------------
\* The passing of a day changes no row.
LEMMA NextDayInv ==
    ASSUME LoginInv, NextDay
    PROVE  LoginInv'
  <1>1. LoginTypeOK'
    BY LoginInfoAssumption DEF LoginInv, LoginTypeOK, NextDay
  <1>2. QueryInStep'
    BY DEF LoginInv, QueryInStep, NextDay, RowsOf, TimesOf, Selects
  <1> QED BY <1>1, <1>2 DEF LoginInv, NextDay

\* A request starts with no rows, and with no times of its users.
LEMMA HandleUserRequestInv ==
    ASSUME LoginInv, NEW imsi \in Imsis \cup {AnyImsi}, NEW begin \in 1 .. MaxDay,
           NEW end \in 1 .. MaxDay, HandleUserRequest(imsi, begin, end)
    PROVE  LoginInv'
  <1>1. /\ engine' = [querying |-> TRUE, nth |-> engine.nth + 1, imsi |-> imsi,
                      begin |-> begin, end |-> end, id |-> 0, numRecord |-> 0]
        /\ loginTimes' = ClearTimes(imsi) /\ engine.nth < MaxRequests
        /\ UNCHANGED <<day, logins, behaviors>>
    BY DEF HandleUserRequest
  <1>2. engine.nth \in 0 .. MaxRequests /\ MaxRequests \in Nat /\ MaxLogins \in Nat /\ MaxDay \in Nat
    BY LoginTypes, LoginInfoAssumption DEF LoginInv, Query
  <1>3. engine' \in Query
    BY <1>1, <1>2 DEF Query
  <1>4. loginTimes' \in [Imsis -> Seq(1 .. MaxDay)]
    <2>1. loginTimes \in [Imsis -> Seq(1 .. MaxDay)] /\ <<>> \in Seq(1 .. MaxDay)
      BY LoginTypes DEF LoginInv
    <2> QED BY <1>1, <2>1 DEF ClearTimes
  <1>5. LoginTypeOK'
    BY <1>1, <1>3, <1>4 DEF LoginInv, LoginTypeOK, Query
  <1>6. QueryInStep'
    <2>1. Len(logins) \in Nat
      BY LoginTypes DEF LoginInv
    <2>2. ASSUME NEW i \in Imsis, imsi \in {AnyImsi, i}
          PROVE  TimesOf(loginTimes'[i], logins', RowsOf(logins', engine', i))
      <3>1. loginTimes'[i] = <<>>
        BY <1>1, <2>2 DEF ClearTimes
      <3>2. RowsOf(logins', engine', i) = {}
        BY <1>1 DEF RowsOf
      <3> QED BY <3>1, <3>2, FS_EmptySet DEF TimesOf
    <2>3. engine'.id = 0 /\ engine'.numRecord = 0 /\ engine'.imsi = imsi
      BY <1>1
    <2>4. engine'.id <= Len(logins') /\ engine'.numRecord <= engine'.id
      BY <1>1, <2>1, <2>3
    <2>5. \A i \in Imsis : engine'.imsi \in {AnyImsi, i} =>
                TimesOf(loginTimes'[i], logins', RowsOf(logins', engine', i))
      BY <2>2, <2>3
    <2> QED BY <2>4, <2>5 DEF QueryInStep
  <1> QED BY <1>1, <1>5, <1>6 DEF LoginInv

\* A time filed behind the others belongs to the last row given so far.
LEMMA TimesGrow ==
    ASSUME NEW n \in Nat, NEW rows \in Seq(Rows), n = Len(rows),
           NEW times \in Seq(1 .. MaxDay), NEW given \in SUBSET (1 .. n),
           TimesOf(times, rows, given),
           NEW id \in 1 .. n, \A x \in given : x < id
    PROVE  TimesOf(Append(times, rows[id].time), rows, given \cup {id})
  <1> DEFINE all == given \cup {id}
             time == rows[id].time
             longer == Append(times, time)
  <1>1. IsFiniteSet(given) /\ Cardinality(given) \in Nat /\ Len(times) = Cardinality(given)
    <2>1. IsFiniteSet(1 .. n)
      BY FS_Interval
    <2>2. IsFiniteSet(given)
      BY <2>1, FS_Subset
    <2> QED BY <2>2, FS_CardinalityType DEF TimesOf
  <1>2. Cardinality(all) = Cardinality(given) + 1
    <2>1. id \notin given
      OBVIOUS
    <2> QED BY <1>1, <2>1, FS_AddElement
  <1>3. time \in 1 .. MaxDay
    <2>1. rows[id] \in Rows
      OBVIOUS
    <2> QED BY <2>1 DEF Rows
  <1>4. /\ Len(longer) = Len(times) + 1 /\ longer[Len(times) + 1] = time
        /\ \A i \in 1 .. Len(times) : longer[i] = times[i]
        /\ longer \in Seq(1 .. MaxDay)
    BY <1>3
  <1> HIDE DEF longer
  <1>5. all \in SUBSET Nat /\ all \in SUBSET (1 .. n) /\ all # {} /\ given \in SUBSET Nat
    OBVIOUS
  <1>6. Max(all) = id
    <2>1. Max(all) \in all /\ \A x \in all : x <= Max(all)
      BY <1>5, MaxIsIn
    <2>2. id <= Max(all) /\ id \in 1 .. n /\ Max(all) \in 1 .. n
      BY <1>5, <2>1
    <2>3. Max(all) \in given => Max(all) < id
      OBVIOUS
    <2> HIDE DEF all
    <2>4. Max(all) \in given \/ Max(all) = id
      BY <2>1 DEF all
    <2> QED BY <2>2, <2>3, <2>4
  <1>7. Last(longer) = time
    BY <1>1, <1>4 DEF Last
  <1>8. Head(longer) = rows[Min(all)].time
    <2>1. Min(all) \in all /\ \A x \in all : Min(all) <= x
      BY <1>5, MinIsIn
    <2>2. Head(longer) = longer[1]
      BY <1>1, <1>4
    <2>3. CASE given = {}
      <3>1. Len(times) = 0
        BY <1>1, <2>3, FS_EmptySet
      <3>2. Min(all) = id
        BY <2>1, <2>3
      <3> QED BY <2>2, <3>1, <3>2, <1>4
    <2>4. CASE given # {}
      <3>1. Min(given) \in given /\ \A x \in given : Min(given) <= x
        BY <1>5, <2>4, MinIsIn
      <3>2. Min(all) = Min(given)
        <4>1. Min(all) <= Min(given) /\ Min(given) < id /\ Min(all) \in Nat /\ Min(given) \in Nat
          BY <1>5, <2>1, <3>1
        <4>2. Min(all) \in given
          BY <4>1, <2>1
        <4> QED BY <4>1, <4>2, <3>1
      <3>3. Len(times) # 0
        BY <1>1, <2>4, FS_EmptySet
      <3>4. 1 \in 1 .. Len(times) /\ Head(times) = times[1]
        BY <1>1, <3>3
      <3>5. Head(times) = rows[Min(given)].time
        BY <2>4 DEF TimesOf
      <3> QED BY <2>2, <3>2, <3>4, <3>5, <1>4
    <2> QED BY <2>3, <2>4
  <1>9. Len(longer) = Cardinality(all)
    BY <1>1, <1>2, <1>4
  <1> QED BY <1>6, <1>7, <1>8, <1>9 DEF TimesOf, longer

\* The row given next is the only one between the last one given and its own id.
LEMMA QueryLoginInfoCallbackInv ==
    ASSUME LoginInv, QueryLoginInfoCallback
    PROVE  LoginInv'
  <1> DEFINE id == Min(RowsLeft)
             row == logins[id]
  <1>1. /\ engine.querying /\ RowsLeft # {}
        /\ engine' = [engine EXCEPT !.id = id, !.numRecord = @ + 1]
        /\ loginTimes' = [loginTimes EXCEPT ![row.imsi] = Append(@, row.time)]
        /\ UNCHANGED <<day, logins, behaviors>>
    BY DEF QueryLoginInfoCallback
  <1>2. /\ logins \in Seq(Rows) /\ Len(logins) \in Nat /\ Len(logins) <= MaxLogins
        /\ DOMAIN logins = 1 .. Len(logins) /\ engine \in Query
        /\ loginTimes \in [Imsis -> Seq(1 .. MaxDay)] /\ MaxLogins \in Nat
    BY LoginTypes, LoginInfoAssumption DEF LoginInv
  <1>3. /\ engine.id \in Nat /\ engine.id <= Len(logins)
        /\ engine.numRecord \in Nat /\ engine.numRecord <= engine.id
    BY <1>2 DEF LoginInv, QueryInStep, Query
  <1>4. /\ id \in 1 .. Len(logins) /\ id > engine.id /\ Selects(engine, logins[id])
        /\ \A x \in RowsLeft : id <= x
    <2>1. RowsLeft \in SUBSET Nat
      BY <1>2 DEF RowsLeft
    <2>2. id \in RowsLeft /\ \A x \in RowsLeft : id <= x
      BY <1>1, <2>1, MinIsIn
    <2> QED BY <1>2, <2>2 DEF RowsLeft
  <1> HIDE DEF id
  <1>5. row \in Rows /\ row.imsi \in Imsis /\ row.time \in 1 .. MaxDay
    <2>1. row \in Rows
      BY <1>2, <1>4
    <2> QED BY <2>1 DEF Rows
  <1>6. /\ engine' = [f \in QueryFields |-> engine'[f]]
        /\ engine'.querying = engine.querying /\ engine'.nth = engine.nth /\ engine'.imsi = engine.imsi
        /\ engine'.begin = engine.begin /\ engine'.end = engine.end
        /\ engine'.id = id /\ engine'.numRecord = engine.numRecord + 1
    <2>1. engine = [f \in QueryFields |-> engine[f]]
      BY <1>2, QueryHasFields
    <2> QED BY <1>1, <2>1 DEF QueryFields
  <1>7. engine' \in Query
    <2>1. id \in 0 .. MaxLogins /\ engine.numRecord + 1 \in 0 .. MaxLogins
      BY <1>2, <1>3, <1>4
    <2> QED BY <1>2, <1>6, <2>1 DEF Query, QueryFields
  <1>8. loginTimes' \in [Imsis -> Seq(1 .. MaxDay)]
    BY <1>1, <1>2, <1>5
  <1>9. LoginTypeOK'
    BY <1>1, <1>7, <1>8 DEF LoginInv, LoginTypeOK, Query
  <1>10. ASSUME NEW i \in Imsis, engine.imsi \in {AnyImsi, i}
         PROVE  TimesOf(loginTimes'[i], logins', RowsOf(logins', engine', i))
    <2> DEFINE given == RowsOf(logins, engine, i)
    <2>1. TimesOf(loginTimes[i], logins, given)
      BY <1>1, <1>10 DEF LoginInv, QueryInStep
    <2>2. given \in SUBSET (1 .. Len(logins)) /\ \A x \in given : x < id
      BY <1>3, <1>4 DEF RowsOf
    <2>3. \A r : Selects(engine', r) <=> Selects(engine, r)
      BY <1>6 DEF Selects
    <2>4. \A x \in 1 .. id : x <= engine.id \/ x = id \/ ~Selects(engine, logins[x])
      <3> SUFFICES ASSUME NEW x \in 1 .. id, x > engine.id, x # id, Selects(engine, logins[x])
                   PROVE  FALSE
        BY <1>3, <1>4
      <3>1. x \in RowsLeft
        BY <1>2, <1>4 DEF RowsLeft
      <3> QED BY <1>4, <3>1
    <2>5. RowsOf(logins, engine', i) = IF i = row.imsi THEN given \cup {id} ELSE given
      BY <1>3, <1>4, <1>6, <2>3, <2>4 DEF RowsOf
    <2> HIDE DEF given
    <2>6. CASE i = row.imsi
      <3>1. loginTimes'[i] = Append(loginTimes[i], row.time)
        BY <1>1, <1>2, <2>6
      <3>2. loginTimes[i] \in Seq(1 .. MaxDay)
        BY <1>2
      <3>3. TimesOf(Append(loginTimes[i], row.time), logins, given \cup {id})
        BY <1>2, <1>4, <2>1, <2>2, <3>2, TimesGrow
      <3> QED BY <1>1, <2>5, <2>6, <3>1, <3>3
    <2>7. CASE i # row.imsi
      BY <1>1, <1>2, <2>1, <2>5, <2>7
    <2> QED BY <2>6, <2>7
  <1>11. QueryInStep'
    <2>1. engine'.id <= Len(logins') /\ engine'.numRecord <= engine'.id
      BY <1>1, <1>3, <1>4, <1>6
    <2> QED BY <1>6, <1>10, <2>1 DEF QueryInStep
  <1> QED BY <1>1, <1>9, <1>11 DEF LoginInv

\* What is stored when a query ends is what its rows say.
LEMMA QueryEndsInv ==
    ASSUME LoginInv, QueryEnds
    PROVE  LoginInv'
  <1>1. /\ engine.querying
        /\ behaviors' \in DbInsertUserLoginBehaviour({AnalysisLoginBehavior(i) : i \in Analyzed})
        /\ loginTimes' = [i \in Imsis |->
                IF engine.imsi = i /\ engine.numRecord > 0 /\ i \notin Analyzed
                THEN <<>> ELSE loginTimes[i]]
        /\ engine' = Idle(engine.nth)
        /\ UNCHANGED <<day, logins>>
    BY DEF QueryEnds
  <1>2. /\ logins \in Seq(Rows) /\ Len(logins) \in Nat /\ engine \in Query
        /\ loginTimes \in [Imsis -> Seq(1 .. MaxDay)]
        /\ MaxLogins \in Nat /\ MaxDay \in Nat
    BY LoginTypes, LoginInfoAssumption DEF LoginInv
  <1>3. engine' \in Query /\ engine'.id = 0 /\ engine'.numRecord = 0 /\ ~engine'.querying
    BY <1>1, <1>2 DEF Idle, Query
  <1>4. loginTimes' \in [Imsis -> Seq(1 .. MaxDay)]
    <2>1. <<>> \in Seq(1 .. MaxDay)
      OBVIOUS
    <2>2. \A i \in Imsis : (IF engine.imsi = i /\ engine.numRecord > 0 /\ i \notin Analyzed
                            THEN <<>> ELSE loginTimes[i]) \in Seq(1 .. MaxDay)
      BY <1>2, <2>1
    <2> QED BY <1>1, <2>2
  <1>5. ASSUME NEW i \in Analyzed
        PROVE  BehaviorOK(AnalysisLoginBehavior(i), logins)
    <2> DEFINE b == AnalysisLoginBehavior(i)
               given == RowsOf(logins, engine, i)
    <2>1. i \in Imsis /\ engine.imsi \in {AnyImsi, i} /\ Len(loginTimes[i]) # 0
      <3>1. CASE engine.imsi = AnyImsi
        <4>1. i \in Imsis /\ loginTimes[i] # <<>>
          BY <3>1 DEF Analyzed
        <4> QED BY <1>2, <3>1, <4>1
      <3>2. CASE engine.imsi # AnyImsi
        <4>1. i = engine.imsi /\ Len(loginTimes[i]) = engine.numRecord /\ engine.numRecord # 0
          BY <3>2 DEF Analyzed
        <4> QED BY <1>2, <3>2, <4>1 DEF Query
      <3> QED BY <3>1, <3>2
    <2>2. TimesOf(loginTimes[i], logins, given)
      BY <1>1, <2>1 DEF LoginInv, QueryInStep
    <2>3. given # {}
      BY <2>1, <2>2, FS_EmptySet DEF TimesOf
    <2>4. /\ b.imsi = i /\ b.query = engine /\ b.count = Len(loginTimes[i])
          /\ b.first = Head(loginTimes[i]) /\ b.last = Last(loginTimes[i])
      BY DEF AnalysisLoginBehavior
    <2>5. engine.id <= Len(logins)
      BY DEF LoginInv, QueryInStep
    <2> HIDE DEF b, given
    <2>6. /\ b.count = Cardinality(given) /\ b.first = logins[Min(given)].time
          /\ b.last = logins[Max(given)].time
      BY <2>2, <2>3, <2>4 DEF TimesOf
    <2>7. given = RowsOf(logins, b.query, b.imsi)
      BY <2>4 DEF given
    <2>8. BehaviorOK(b, logins)
      BY <1>2, <2>1, <2>3, <2>4, <2>5, <2>6, <2>7 DEF BehaviorOK
    <2> QED BY <2>8 DEF b
  <1>6. \A b \in behaviors' : BehaviorOK(b, logins')
    <2>1. \A b \in behaviors' : b \in behaviors \/ \E i \in Analyzed : b = AnalysisLoginBehavior(i)
      BY <1>1 DEF DbInsertUserLoginBehaviour
    <2> QED BY <1>1, <1>5, <2>1 DEF LoginInv
  <1>7. LoginTypeOK'
    BY <1>1, <1>3, <1>4, <1>6 DEF LoginInv, LoginTypeOK, BehaviorOK, Query
  <1>8. QueryInStep'
    BY <1>1, <1>2, <1>3 DEF QueryInStep
  <1> QED BY <1>6, <1>7, <1>8 DEF LoginInv

\* Every step of the engine keeps the invariant.
LEMMA LoginNextInv ==
    ASSUME LoginInv, LoginNext
    PROVE  LoginInv'
  BY NextDayInv, HandleUserRequestInv, QueryLoginInfoCallbackInv, QueryEndsInv DEF LoginNext

\* The tables are empty at first.
LEMMA LoginInitInv ==
    ASSUME LoginInit
    PROVE  LoginInv
  <1>1. LoginTypeOK
    <2>1. /\ MaxDay \in Nat /\ MaxDay >= 1 /\ MaxLogins \in Nat /\ MaxRequests \in Nat
      BY LoginInfoAssumption
    <2>2. Idle(0) \in Query
      BY <2>1 DEF Idle, Query
    <2>3. [i \in Imsis |-> <<>>] \in [Imsis -> Seq(1 .. MaxDay)]
      OBVIOUS
    <2> QED BY <2>1, <2>2, <2>3 DEF LoginInit, LoginTypeOK, Query
  <1>2. QueryInStep
    BY DEF LoginInit, QueryInStep, Idle
  <1> QED BY <1>1, <1>2 DEF LoginInit, LoginInv

\* The invariant says of each behaviour what the property does.
LEMMA LoginInvMeans ==
    ASSUME LoginInv
    PROVE  BehaviorsAreOfTheirQuery
  BY DEF LoginInv, BehaviorOK, RowsOf, BehaviorsAreOfTheirQuery

-----------------------------------------------------------------------------
(***************************************************************************)
(* Fifth part: the data processing engine as a whole.                      *)
(***************************************************************************)
Datagrams ==
    [msgType : {"establish"}, content : Seq(Infos)] \cup
    [msgType : {"identity"}, content : Seq(Identities)]

UlpSideOK ==
    /\ build \in Builds
    /\ estabInd \in Seq(Infos) /\ Len(estabInd) <= MaxReport
    /\ seen \in 0 .. MaxInfos
    /\ inbox \in Seq(Datagrams) /\ Len(inbox) <= MaxInbox

DpeInv == TrackerOK(tracker) /\ LoginInv /\ UlpSideOK

\* A target is lost by a step only after more than two intervals.
Patient ==
    Tracked(tracker) /\ ~Tracked(tracker') => tracker.target.last.age > MaxTimeDiff(1)

\* The constants by their types.
LEMMA DpeBounds ==
    /\ MaxReport \in Nat \ {0} /\ MaxInfos \in Nat \ {0} /\ MaxInbox \in Nat \ {0}
    /\ \A info \in Infos : IsInfo(info)
    /\ \A u \in Identities : IsIdentity(u)
  <1>1. /\ MaxReport \in Nat \ {0} /\ MaxInfos \in Nat \ {0} /\ MaxInbox \in Nat \ {0}
        /\ Infos \subseteq [prbPower : Int, ta : Int]
        /\ \A u \in Identities : u.imsi \in Imsis \cup {AnyImsi} /\ u.mTmsiPresent \in BOOLEAN
    BY DpeAssumption
  <1> QED BY <1>1 DEF IsInfo, IsIdentity

\* A socket that is full drops the datagram.
LEMMA SentIsOK ==
    ASSUME inbox \in Seq(Datagrams), Len(inbox) <= MaxInbox, NEW datagram \in Datagrams
    PROVE  Sent(datagram) \in Seq(Datagrams) /\ Len(Sent(datagram)) <= MaxInbox
  <1>1. CASE Len(inbox) < MaxInbox
    <2>1. Append(inbox, datagram) \in Seq(Datagrams) /\ Len(Append(inbox, datagram)) = Len(inbox) + 1
          /\ Len(inbox) \in Nat
      OBVIOUS
    <2> QED BY <1>1, <2>1, DpeBounds DEF Sent
  <1>2. CASE ~(Len(inbox) < MaxInbox)
    BY <1>2 DEF Sent
  <1> QED BY <1>1, <1>2

\* What leaves the logins alone keeps their invariant.
LEMMA UnchangedLogins ==
    ASSUME LoginInv, UNCHANGED loginVars
    PROVE  LoginInv'
  <1>1. UNCHANGED <<day, logins, engine, loginTimes, behaviors>>
    BY DEF loginVars
  <1>2. LoginTypeOK'
    BY <1>1 DEF LoginInv, LoginTypeOK
  <1>3. QueryInStep'
    BY <1>1 DEF LoginInv, QueryInStep, RowsOf, TimesOf, Selects
  <1> QED BY <1>1, <1>2, <1>3 DEF LoginInv

\* At first nothing is tracked.
LEMMA DpeInitInv ==
    ASSUME DpeInit
    PROVE  DpeInv
  <1>1. TrackerOK(tracker)
    <2>1. /\ tracker = [target |-> NoSightings, candidates |-> <<>>, missCount |-> 0,
                        reportCount |-> 0, oam |-> "nothing"]
      BY DEF DpeInit, TrackerInit
    <2>2. /\ IsTracker(tracker) /\ tracker.target = NoSightings /\ tracker.candidates = <<>>
          /\ tracker.missCount = 0 /\ tracker.reportCount = 0 /\ tracker.oam = "nothing"
      BY <2>1 DEF IsTracker, Fields
    <2>3. ~Tracked(tracker)
      BY <2>2 DEF Tracked, NoSightings
    <2>4. 0 \in 0 .. ReportPeriod - 1
      BY TargetTrackerAssumption
    <2> QED BY <2>2, <2>3, <2>4, EmptyIsOK DEF TrackerOK, OamOK, MissesOK
  <1>2. LoginInv
    BY LoginInitInv DEF DpeInit
  <1>3. UlpSideOK
    BY DpeBounds DEF DpeInit, UlpSideOK
  <1> QED BY <1>1, <1>2, <1>3 DEF DpeInv

\* A turn of the receiver with a message of sightings: checkTarget, then the entries.
LEMMA RunEstablishInv ==
    ASSUME DpeInv, NEW random \in Int, RunEstablish(random)
    PROVE  DpeInv' /\ Patient
  <1> DEFINE infos == Head(inbox).content
             c == CheckTarget(tracker, random)
             start == [tracker |-> c, done |-> FALSE]
  <1>1. /\ inbox # <<>> /\ Head(inbox).msgType = "establish"
        /\ tracker' = ProcessUeEstablishInfo(c, infos)
        /\ inbox' = Tail(inbox)
        /\ UNCHANGED <<loginVars, build, estabInd, seen>>
    BY DEF RunEstablish
  <1>2. Head(inbox) \in Datagrams /\ inbox \in Seq(Datagrams)
    BY <1>1 DEF DpeInv, UlpSideOK
  <1>3. infos \in Seq(Infos)
    BY <1>1, <1>2 DEF Datagrams
  <1>4. Len(infos) \in Nat /\ \A i \in 1 .. Len(infos) : IsInfo(infos[i])
    BY <1>3, DpeBounds
  <1>5. /\ TrackerOK(c)
        /\ Tracked(tracker) => \/ tracker.target.last.age > MaxTimeDiff(1)
                               \/ Tracked(c) /\ c.target = tracker.target
    BY CheckTargetOK DEF DpeInv
  <1> HIDE DEF c, infos
  <1>6. LoopOK(tracker, start)
    BY <1>5 DEF LoopOK, Kept
  <1>7. /\ TrackerOK(tracker')
        /\ Tracked(tracker) => tracker.target.last.age > MaxTimeDiff(1) \/ Tracked(tracker')
    BY <1>1, <1>4, <1>6, ProcessUeEstablishInfoOK
  <1>8. LoginInv'
    BY <1>1, UnchangedLogins DEF DpeInv
  <1>9. UlpSideOK'
    <2>1. Tail(inbox) \in Seq(Datagrams) /\ Len(Tail(inbox)) = Len(inbox) - 1 /\ Len(inbox) \in Nat
      BY <1>1, <1>2
    <2> QED BY <1>1, <2>1, DpeBounds DEF DpeInv, UlpSideOK
  <1> QED BY <1>7, <1>8, <1>9 DEF DpeInv, Patient

\* A turn of the receiver with a message of identities.
LEMMA RunIdentityInv ==
    ASSUME DpeInv, NEW random \in Int, RunIdentity(random)
    PROVE  DpeInv' /\ Patient
  <1> DEFINE identities == Head(inbox).content
  <1>1. /\ inbox # <<>> /\ Head(inbox).msgType = "identity"
        /\ tracker' = CheckTarget(tracker, random)
        /\ SaveUeIdentity(identities)
        /\ inbox' = Tail(inbox)
        /\ UNCHANGED <<build, estabInd, seen>>
    BY DEF RunIdentity
  <1>2. Head(inbox) \in Datagrams /\ inbox \in Seq(Datagrams)
    BY <1>1 DEF DpeInv, UlpSideOK
  <1>3. Len(identities) \in Nat
    BY <1>1, <1>2 DEF Datagrams
  <1> HIDE DEF identities
  <1>4. LoginInv'
    BY <1>1, <1>3, SaveUeIdentityGrows, GrowingKeepsInv DEF DpeInv, LoginInv
  <1>5. TrackerOK(tracker') /\ Patient
    BY <1>1, CheckTargetOK DEF DpeInv, Patient
  <1>6. UlpSideOK'
    <2>1. Tail(inbox) \in Seq(Datagrams) /\ Len(Tail(inbox)) = Len(inbox) - 1 /\ Len(inbox) \in Nat
      BY <1>1, <1>2
    <2> QED BY <1>1, <2>1, DpeBounds DEF DpeInv, UlpSideOK
  <1> QED BY <1>4, <1>5, <1>6 DEF DpeInv

\* Every step keeps the invariant and loses no target early.
LEMMA DpeNextInv ==
    ASSUME DpeInv, [DpeNext]_dpeVars
    PROVE  DpeInv' /\ Patient
  <1>1. ASSUME NEW info \in Infos, TgtProcessUeEstablishInfo(info)
        PROVE  DpeInv' /\ Patient
    <2>1. LoginInv'
      BY <1>1, UnchangedLogins DEF DpeInv, TgtProcessUeEstablishInfo
    <2>2. Append(estabInd, info) \in Seq(Infos) /\ Len(Append(estabInd, info)) = Len(estabInd) + 1
          /\ Len(estabInd) \in Nat
      BY DEF DpeInv, UlpSideOK
    <2>3. UlpSideOK'
      BY <1>1, <2>2, DpeBounds DEF DpeInv, UlpSideOK, TgtProcessUeEstablishInfo
    <2> QED BY <1>1, <2>1, <2>3 DEF DpeInv, Patient, TgtProcessUeEstablishInfo
  <1>2. ASSUME TgtSendUeEstablishInd
        PROVE  DpeInv' /\ Patient
    <2>1. LoginInv'
      BY <1>2, UnchangedLogins DEF DpeInv, TgtSendUeEstablishInd
    <2>2. [msgType |-> "establish", content |-> estabInd] \in Datagrams
      BY DEF DpeInv, UlpSideOK, Datagrams
    <2>3. UlpSideOK'
      BY <1>2, <2>2, SentIsOK, DpeBounds DEF DpeInv, UlpSideOK, TgtSendUeEstablishInd
    <2> QED BY <1>2, <2>1, <2>3 DEF DpeInv, Patient, TgtSendUeEstablishInd
  <1>3. ASSUME NEW identity \in Identities, UlpSendUeIdentity(identity)
        PROVE  DpeInv' /\ Patient
    <2>1. LoginInv'
      BY <1>3, UnchangedLogins DEF DpeInv, UlpSendUeIdentity
    <2>2. [msgType |-> "identity", content |-> <<identity>>] \in Datagrams
      BY DEF Datagrams
    <2>3. UlpSideOK'
      BY <1>3, <2>2, SentIsOK, DpeBounds DEF DpeInv, UlpSideOK, UlpSendUeIdentity
    <2> QED BY <1>3, <2>1, <2>3 DEF DpeInv, Patient, UlpSendUeIdentity
  <1>4. ASSUME Run
        PROVE  DpeInv' /\ Patient
    <2>1. PICK random \in -4 .. 5 : RunWithout(random) \/ RunEstablish(random) \/ RunIdentity(random)
      BY <1>4 DEF Run
    <2>2. random \in Int
      BY <2>1
    <2>3. CASE RunWithout(random)
      <3>1. LoginInv' /\ UlpSideOK'
        BY <2>3, UnchangedLogins DEF DpeInv, RunWithout, ulpVars, UlpSideOK
      <3>2. TrackerOK(tracker') /\ Patient
        BY <2>2, <2>3, CheckTargetOK DEF DpeInv, Patient, RunWithout
      <3> QED BY <3>1, <3>2 DEF DpeInv
    <2> QED BY <2>1, <2>2, <2>3, RunEstablishInv, RunIdentityInv
  <1>5. ASSUME TimePasses
        PROVE  DpeInv' /\ Patient
    <2>1. LoginInv' /\ UlpSideOK'
      BY <1>5, UnchangedLogins DEF DpeInv, TimePasses, ulpVars, UlpSideOK
    <2>2. TrackerOK(tracker') /\ Patient
      BY <1>5, AgedOK DEF DpeInv, Patient, TimePasses
    <2> QED BY <2>1, <2>2 DEF DpeInv
  <1>6. ASSUME Engine
        PROVE  DpeInv' /\ Patient
    <2>1. LoginInv'
      BY <1>6, LoginNextInv DEF DpeInv, Engine
    <2>2. UNCHANGED tracker /\ UlpSideOK'
      BY <1>6 DEF DpeInv, Engine, ulpVars, UlpSideOK
    <2> QED BY <2>1, <2>2 DEF DpeInv, Patient
  <1>7. ASSUME UNCHANGED dpeVars
        PROVE  DpeInv' /\ Patient
    <2>1. UNCHANGED tracker /\ UNCHANGED loginVars /\ UNCHANGED ulpVars
      BY <1>7 DEF dpeVars
    <2>2. UlpSideOK'
      BY <2>1 DEF ulpVars, UlpSideOK, DpeInv
    <2> QED BY <2>1, <2>2, UnchangedLogins DEF DpeInv, Patient
  <1> QED BY <1>1, <1>2, <1>3, <1>4, <1>5, <1>6, <1>7 DEF DpeNext

\* The inductive invariant of the data processing engine: the tracker is in order, the
\* query in step with its rows, and the messages have their types.
THEOREM DpeInvariant == DpeSpec => []DpeInv
  <1>1. DpeInv /\ [DpeNext]_dpeVars => DpeInv'
    BY DpeNextInv
  <1> QED BY <1>1, DpeInitInv, PTL DEF DpeSpec

\* DpeTypeOK: the receiver's state and the messages have their types.
THEOREM DpeTypesAreKept == DpeSpec => []DpeTypeOK
  <1>1. DpeInv => DpeTypeOK
    <2>1. ASSUME TrackerOK(tracker) PROVE TrackerTypeOK
      <3>1. IsVector(tracker.target)
        BY <2>1 DEF TrackerOK, TargetOK
      <3>2. tracker.target \in [size : Nat, last : [age : Int, trueAge : Nat, prbPower : Int, ta : Int]]
        BY <3>1 DEF IsVector, IsSighting
      <3> QED BY <2>1, <3>2 DEF TrackerOK, TrackerTypeOK, CandidatesOK, Chain, OamOK, MissesOK
    <2> QED BY <2>1 DEF DpeInv, LoginInv, UlpSideOK, DpeTypeOK, Datagrams
  <1> QED BY <1>1, DpeInvariant, PTL

\* OamHearsOfLoss: the OAM server knows whether a target is followed (reportTargetUe).
THEOREM OamKnowsTheTarget == DpeSpec => []OamHearsOfLoss
  <1>1. DpeInv => OamHearsOfLoss
    BY DEF DpeInv, TrackerOK, OamOK, OamHearsOfLoss
  <1> QED BY <1>1, DpeInvariant, PTL

\* MissesAreReal: checkTarget and processUeEstablishInfo both count misses, and never
\* more than the time that has passed.
THEOREM MissesAreCountedOnce == DpeSpec => []MissesAreReal
  <1>1. DpeInv => MissesAreReal
    BY DEF DpeInv, TrackerOK, MissesOK, MissesAreReal
  <1> QED BY <1>1, DpeInvariant, PTL

\* NominalTimesStayTrue: the nominal times of processUeEstablishInfo do not drift from
\* the times of the sightings, however long a target is followed.
THEOREM SightingsStayTrue == DpeSpec => []NominalTimesStayTrue
  <1>1. DpeInv => NominalTimesStayTrue
    <2> SUFFICES ASSUME TrackerOK(tracker), NEW v \in Vectors(tracker)
                 PROVE  Near(v)
      BY DEF DpeInv, NominalTimesStayTrue, Near
    <2>1. CASE v \in Range(tracker.candidates)
      <3>1. DOMAIN tracker.candidates = 1 .. Len(tracker.candidates)
        BY DEF TrackerOK, CandidatesOK
      <3> QED BY <2>1, <3>1 DEF Range, TrackerOK, CandidatesOK
    <2>2. CASE v \notin Range(tracker.candidates)
      <3>1. Tracked(tracker) /\ v = tracker.target
        BY <2>2 DEF Vectors
      <3> QED BY <3>1 DEF TrackerOK, TargetOK, Tracked
    <2> QED BY <2>1, <2>2
  <1> QED BY <1>1, DpeInvariant, PTL

\* LostOnlyWhenSilent: neither checkTarget nor a message, nor both in one turn of the
\* receiver, give up a target after a single missed sighting.
THEOREM TargetsAreNotLostEarly == DpeSpec => LostOnlyWhenSilent
  <1>1. DpeInv /\ [DpeNext]_dpeVars => [Patient]_tracker
    BY DpeNextInv
  <1>2. LostOnlyWhenSilent <=> [][Patient]_tracker
    BY DEF LostOnlyWhenSilent, Patient
  <1> QED BY <1>1, <1>2, DpeInvariant, PTL DEF DpeSpec

\* BehaviorsAreOfTheirQuery: what analysisLoginBehavior stores is what the rows of its
\* query say, although logins are inserted while the query runs.
THEOREM BehaviorsAreTrue == DpeSpec => []BehaviorsAreOfTheirQuery
  <1>1. DpeInv => BehaviorsAreOfTheirQuery
    BY LoginInvMeans DEF DpeInv
  <1> QED BY <1>1, DpeInvariant, PTL

=============================================================================
