----------------------------- MODULE EventLoop -----------------------------
(***************************************************************************)
(* How the ULP threads are driven.  A trigger thread calls                 *)
(* UlpOneMilliSecondIsr on every tick, which sends the event of the ULP    *)
(* worker, of the resource cleaner and, on every KpiPeriod-th tick, of the *)
(* KPI thread (lteUlpMgr.c, lteTrigger.c, lteKpi.c).  Each of these        *)
(* threads loops over EventWait and one pass of its work.                  *)
(*                                                                         *)
(* An Event (ulp/src/event.c, dpe/src/EventIndicator.cpp) is a flag under  *)
(* a mutex and a condition variable.  A thread in pthread_cond_wait has    *)
(* released the mutex; it may wake up without being signalled.             *)
(***************************************************************************)
EXTENDS Integers, Sequences

CONSTANTS Events,     \* the events, each with one waiting thread
          KpiEvent,   \* gKpiEvent
          TickOrder,  \* the order in which a tick sends the events
          KpiPeriod,  \* gKpiNotifyCount
          Nobody      \* a mutex that is free

ASSUME EventLoopAssumption ==
    /\ KpiEvent \in Events
    /\ TickOrder \in Seq(Events)
    /\ Events \subseteq {TickOrder[i] : i \in 1 .. Len(TickOrder)}
    /\ KpiPeriod \in Nat \ {0}
    /\ Nobody \notin {"trigger", "waiter"}

VARIABLES mutex,    \* Event.mutex: who holds it
          setFlag,  \* Event.setFlag
          waiter,   \* where the waiting thread of each event is
          trigger,  \* where the trigger thread is
          nth,      \* the event of TickOrder the trigger is at; 0 when it sleeps
          count     \* NotifyKpi's static counter

vars == <<mutex, setFlag, waiter, trigger, nth, count>>

Init ==
    /\ mutex = [e \in Events |-> Nobody]
    /\ setFlag = [e \in Events |-> 0]
    /\ waiter = [e \in Events |-> "work"]
    /\ trigger = "asleep"
    /\ nth = 0
    /\ count = 0

Current == TickOrder[nth]

-----------------------------------------------------------------------------
(***************************************************************************)
(* The trigger thread.                                                     *)
(***************************************************************************)
\* Mutant: the counter of NotifyKpi starts again on every tick
ToNotification_ResetsAlways(i) ==
    IF i > Len(TickOrder)
    THEN trigger' = "asleep" /\ nth' = 0 /\ count' = 0
    ELSE IF TickOrder[i] # KpiEvent
    THEN trigger' = "lock" /\ nth' = i /\ UNCHANGED count
    ELSE IF count + 1 = KpiPeriod
    THEN trigger' = "lock" /\ nth' = i /\ count' = 0
    ELSE trigger' = "skip" /\ nth' = i /\ count' = count + 1

\* from one notification to the next: NotifyKpi sends only when its counter
\* reaches the period, and the counter then starts again
ToNotification(i) ==
    IF i > Len(TickOrder)
    THEN trigger' = "asleep" /\ nth' = 0 /\ UNCHANGED count
    ELSE IF TickOrder[i] # KpiEvent
    THEN trigger' = "lock" /\ nth' = i /\ UNCHANGED count
    ELSE IF count + 1 = KpiPeriod
    THEN trigger' = "lock" /\ nth' = i /\ count' = 0
    ELSE trigger' = "skip" /\ nth' = i /\ count' = count + 1

UlpOneMilliSecondIsr ==
    /\ trigger = "asleep"
    /\ ToNotification(1)
    /\ UNCHANGED <<mutex, setFlag, waiter>>

SkipNotification ==
    /\ trigger = "skip"
    /\ ToNotification(nth + 1)
    /\ UNCHANGED <<mutex, setFlag, waiter>>

\* Mutant: the flag is set without the mutex
EventSendLock_Skipped ==
    /\ trigger = "lock"
    /\ trigger' = "set"
    /\ UNCHANGED <<mutex, setFlag, waiter, nth, count>>

EventSendLock ==
    /\ trigger = "lock"
    /\ mutex[Current] = Nobody
    /\ mutex' = [mutex EXCEPT ![Current] = "trigger"]
    /\ trigger' = "set"
    /\ UNCHANGED <<setFlag, waiter, nth, count>>

EventSendSet ==
    /\ trigger = "set"
    /\ setFlag' = [setFlag EXCEPT ![Current] = 1]
    /\ trigger' = "signal"
    /\ UNCHANGED <<mutex, waiter, nth, count>>

\* Mutant: the flag is set without a signal
EventSendSignal_Missing ==
    /\ trigger = "signal"
    /\ trigger' = "unlock"
    /\ UNCHANGED <<mutex, setFlag, waiter, nth, count>>

\* pthread_cond_signal: a signal with no thread waiting is lost
EventSendSignal ==
    /\ trigger = "signal"
    /\ waiter' = [waiter EXCEPT ![Current] = IF @ = "asleep" THEN "relock" ELSE @]
    /\ trigger' = "unlock"
    /\ UNCHANGED <<mutex, setFlag, nth, count>>

EventSendUnlock ==
    /\ trigger = "unlock"
    /\ mutex' = [mutex EXCEPT ![Current] = Nobody]
    /\ ToNotification(nth + 1)
    /\ UNCHANGED <<setFlag, waiter>>

Trigger ==
    \/ UlpOneMilliSecondIsr
    \/ SkipNotification
    \/ EventSendLock
    \/ EventSendSet
    \/ EventSendSignal
    \/ EventSendUnlock

-----------------------------------------------------------------------------
(***************************************************************************)
(* The thread that waits for event e.                                      *)
(***************************************************************************)
\* one pass over its work ends, and the loop calls EventWait again
FinishPass(e) ==
    /\ waiter[e] = "work"
    /\ waiter' = [waiter EXCEPT ![e] = "lock"]
    /\ UNCHANGED <<mutex, setFlag, trigger, nth, count>>

\* pthread_mutex_lock, or the return from pthread_cond_wait
EventWaitLock(e) ==
    /\ waiter[e] \in {"lock", "relock"}
    /\ mutex[e] = Nobody
    /\ mutex' = [mutex EXCEPT ![e] = "waiter"]
    /\ waiter' = [waiter EXCEPT ![e] = "test"]
    /\ UNCHANGED <<setFlag, trigger, nth, count>>

\* the flag is down
EventWaitTest(e) ==
    /\ waiter[e] = "test"
    /\ setFlag[e] = 0
    /\ waiter' = [waiter EXCEPT ![e] = "wait"]
    /\ UNCHANGED <<mutex, setFlag, trigger, nth, count>>

\* pthread_cond_wait gives the mutex back and sleeps, which is one step for the
\* threads that signal
EventWaitSleep(e) ==
    /\ waiter[e] = "wait"
    /\ mutex' = [mutex EXCEPT ![e] = Nobody]
    /\ waiter' = [waiter EXCEPT ![e] = "asleep"]
    /\ UNCHANGED <<setFlag, trigger, nth, count>>

\* the flag is up: take it and return to the caller
EventWaitTake(e) ==
    /\ waiter[e] = "test"
    /\ setFlag[e] = 1
    /\ setFlag' = [setFlag EXCEPT ![e] = 0]
    /\ mutex' = [mutex EXCEPT ![e] = Nobody]
    /\ waiter' = [waiter EXCEPT ![e] = "work"]
    /\ UNCHANGED <<trigger, nth, count>>

SpuriousWakeUp(e) ==
    /\ waiter[e] = "asleep"
    /\ waiter' = [waiter EXCEPT ![e] = "relock"]
    /\ UNCHANGED <<mutex, setFlag, trigger, nth, count>>

Waiter(e) ==
    \/ FinishPass(e)
    \/ EventWaitLock(e)
    \/ EventWaitTest(e)
    \/ EventWaitSleep(e)
    \/ EventWaitTake(e)

Next == Trigger \/ \E e \in Events : Waiter(e) \/ SpuriousWakeUp(e)

(***************************************************************************)
(* Every thread keeps running and its passes end.  A mutex that is free    *)
(* again and again is got in the end: the trigger sleeps for the polling   *)
(* interval between two ticks, and the waiting threads have real-time      *)
(* priorities.  Nothing is assumed of spurious wake-ups.                   *)
(***************************************************************************)
Fairness ==
    /\ WF_vars(Trigger)
    /\ SF_vars(EventSendLock)
    /\ \A e \in Events : WF_vars(Waiter(e)) /\ SF_vars(EventWaitLock(e))

Spec == Init /\ [][Next]_vars /\ Fairness

-----------------------------------------------------------------------------
\* Every variable has its type; the trigger is at an event unless it sleeps.
TypeOK ==
    /\ mutex \in [Events -> {"trigger", "waiter", Nobody}]
    /\ setFlag \in [Events -> {0, 1}]
    /\ waiter \in [Events -> {"work", "lock", "test", "wait", "asleep", "relock"}]
    /\ trigger \in {"asleep", "skip", "lock", "set", "signal", "unlock"}
    /\ nth \in IF trigger = "asleep" THEN {0} ELSE 1 .. Len(TickOrder)
    /\ count \in 0 .. KpiPeriod - 1

\* the mutex of an event is held by the thread that is between locking and
\* unlocking it
MutexIsOwned ==
    \A e \in Events :
        mutex[e] = IF waiter[e] \in {"test", "wait"} THEN "waiter"
                   ELSE IF trigger \in {"set", "signal", "unlock"} /\ Current = e THEN "trigger"
                   ELSE Nobody

\* and not by both
OneInTheCriticalSection ==
    trigger \in {"set", "signal", "unlock"} => waiter[Current] \notin {"test", "wait"}

\* NoSleeperIsForgotten: a thread sleeps in EventWait, or has just decided to, with
\* the flag up only while the sender is between setting the flag and signalling; a
\* signal is never sent before the waiting thread can receive it.
NoSleeperIsForgotten ==
    \A e \in Events :
        /\ waiter[e] = "asleep" /\ setFlag[e] = 1 => trigger = "signal" /\ Current = e
        /\ waiter[e] = "wait" => setFlag[e] = 0
=============================================================================
