---------------------------- MODULE Supervision ----------------------------
(***************************************************************************)
(* The program kept alive and watched from outside.                        *)
(*                                                                         *)
(* The daemon (exe/deamon/src/deamon.cpp) forks a child that becomes the   *)
(* ULP program by execv, waits for it and forks again when it ends.  A     *)
(* child whose execv fails does not end: it goes on in the daemon's loop   *)
(* and forks children of its own, so the daemons form a chain.             *)
(*                                                                         *)
(* The heartbeat tester (exe/hbt/src/hbt.c) sends a request on every pass  *)
(* and measures for how long the ULP has not answered; the ULP worker      *)
(* answers one request per pass (UlpRecvAndHandleOamData).  The threads of *)
(* the running program are those of EventLoop; a crash takes them all, and *)
(* the next program starts them anew.                                      *)
(***************************************************************************)
EXTENDS EventLoop, FiniteSets, FiniteSetsExt

CONSTANTS
    UlpEvent,            \* gUlpHandlerEvent
    MaxProcesses,        \* enough numbers for the daemons and the program
    MaxContinueFail,     \* failures in a row after which a daemon gives up (10)
    MaxForkFailures,     \* bound on fork failures in a behaviour
    MaxExecFailures,     \* bound on execv failures in a behaviour
    MaxCrashes,          \* bound on ends of the program in a behaviour
    MaxHeartbeatReqSend, \* gMaxHeartbeatReqSend
    MaxQueue             \* datagrams a socket holds; it drops the others

ASSUME SupervisionAssumption ==
    /\ UlpEvent \in Events
    /\ {MaxProcesses, MaxContinueFail, MaxHeartbeatReqSend, MaxQueue} \subseteq Nat \ {0}
    /\ {MaxForkFailures, MaxExecFailures, MaxCrashes} \subseteq Nat
    /\ MaxProcesses >= MaxExecFailures + 2

VARIABLES
    processes,    \* the daemons and the program, by number; 1 is the first daemon
    faults,       \* how many of the bounded faults have happened
    requests,     \* datagrams waiting in the ULP's heartbeat socket
    responses,    \* datagrams waiting in the tester's socket
    tester        \* the heartbeat tester's counters

heartbeatVars == <<requests, responses, tester>>
supervisionVars == <<vars, processes, faults, heartbeatVars>>

Numbers == 1 .. MaxProcesses
Free == [at |-> "free", parent |-> 0, fails |-> 0]
Process == [at : {"free", "fork", "exec", "wait", "program", "zombie"},
            parent : 0 .. MaxProcesses, fails : 0 .. MaxContinueFail - 1]

\* a response is missed once gUlpDisconnecTime exceeds MissTime; the model
\* stops counting there, since the tester only compares
MissTime == 6
RequestInterval == 3

SupervisionInit ==
    /\ Init
    /\ processes = [p \in Numbers |-> IF p = 1 THEN [Free EXCEPT !.at = "fork"] ELSE Free]
    /\ faults = [fork |-> 0, exec |-> 0, crash |-> 0]
    /\ requests = 0
    /\ responses = 0
    /\ tester = [running |-> TRUE, sent |-> 0, disconnectTime |-> 0]

Programs == {p \in Numbers : processes[p].at = "program"}
Running == Programs # {}

\* the first daemon has ended: nothing will start the program again
Abandoned == processes[1].at = "free"

\* the process p stands elsewhere in its loop
Goes(p, at) == [processes EXCEPT ![p].at = at]

\* the process p ends; wait() tells its parent
Ends(p) == [processes EXCEPT ![p] = IF p = 1 THEN Free ELSE [@ EXCEPT !.at = "zombie"]]

-----------------------------------------------------------------------------
(***************************************************************************)
(* The daemons.  gContinueFailCount is copied by fork, and a failure that  *)
(* makes it MaxContinueFail breaks the loop.                               *)
(***************************************************************************)
\* the process p, which is at "fork" or "exec", fails
Fails(p) ==
    IF processes[p].fails + 1 = MaxContinueFail
    THEN Ends(p)
    ELSE [Goes(p, "fork") EXCEPT ![p].fails = @ + 1]

ForkFails(p) ==
    /\ processes[p].at = "fork"
    /\ faults.fork < MaxForkFailures
    /\ processes' = Fails(p)
    /\ faults' = [faults EXCEPT !.fork = @ + 1]
    /\ UNCHANGED <<vars, heartbeatVars>>

\* Mutant: the daemon does not wait for its child
Fork_NoWait(p) ==
    LET free == {q \in Numbers : processes[q].at = "free"}
    IN  /\ processes[p].at = "fork"
        /\ processes' = [processes EXCEPT
                ![Min(free)] = [at |-> "exec", parent |-> p, fails |-> processes[p].fails]]
        /\ UNCHANGED <<vars, faults, heartbeatVars>>

\* the child starts with its parent's count, and the parent waits for it
Fork(p) ==
    LET free == {q \in Numbers : processes[q].at = "free"}
    IN  /\ processes[p].at = "fork"
        /\ processes' = [Goes(p, "wait") EXCEPT
                ![Min(free)] = [at |-> "exec", parent |-> p, fails |-> processes[p].fails]]
        /\ UNCHANGED <<vars, faults, heartbeatVars>>

\* the child stays a daemon, below its waiting parent
ExecFails(p) ==
    /\ processes[p].at = "exec"
    /\ faults.exec < MaxExecFailures
    /\ processes' = Fails(p)
    /\ faults' = [faults EXCEPT !.exec = @ + 1]
    /\ UNCHANGED <<vars, heartbeatVars>>

\* the program starts: its threads and its sockets are new (Init holds here)
Exec(p) ==
    /\ processes[p].at = "exec"
    /\ processes' = Goes(p, "program")
    /\ UNCHANGED <<vars, faults, heartbeatVars>>

\* wait() returns: the child is gone, the failures are forgotten
Wait(p) ==
    /\ processes[p].at = "wait"
    /\ \E q \in Numbers :
        /\ processes[q].at = "zombie" /\ processes[q].parent = p
        /\ processes' = [Goes(p, "fork") EXCEPT ![q] = Free, ![p].fails = 0]
    /\ UNCHANGED <<vars, faults, heartbeatVars>>

\* the program ends, at whatever point its threads are; what waited in its
\* sockets is lost with it
Crash(p) ==
    /\ processes[p].at = "program"
    /\ faults.crash < MaxCrashes
    /\ processes' = Ends(p)
    /\ faults' = [faults EXCEPT !.crash = @ + 1]
    /\ mutex' = [e \in Events |-> Nobody]
    /\ setFlag' = [e \in Events |-> 0]
    /\ waiter' = [e \in Events |-> "work"]
    /\ trigger' = "asleep"
    /\ nth' = 0
    /\ count' = 0
    /\ requests' = 0
    /\ UNCHANGED <<responses, tester>>

Daemon(p) == Fork(p) \/ Exec(p) \/ Wait(p)

-----------------------------------------------------------------------------
(***************************************************************************)
(* The heartbeat.                                                          *)
(***************************************************************************)
\* the ULP worker leaves EventWait and reads one request of its socket
UlpRecvAndHandleOamData ==
    /\ Running
    /\ EventWaitTake(UlpEvent)
    /\ IF requests = 0
       THEN UNCHANGED <<requests, responses>>
       ELSE requests' = requests - 1 /\ responses' = Min({responses + 1, MaxQueue})
    /\ UNCHANGED <<processes, faults, tester>>

\* the rest of the program
Threads ==
    /\ Running
    /\ \/ Trigger
       \/ \E e \in Events : FinishPass(e) \/ EventWaitLock(e) \/ EventWaitTest(e)
                            \/ EventWaitSleep(e) \/ SpuriousWakeUp(e)
       \/ \E e \in Events \ {UlpEvent} : EventWaitTake(e)
    /\ UNCHANGED <<processes, faults, heartbeatVars>>

\* Mutant: the time since the last response is not counted
SendRequest_NoTime(time) ==
    /\ requests' = IF Running THEN Min({requests + 1, MaxQueue}) ELSE requests
    /\ tester' = [tester EXCEPT !.sent = Min({@ + 1, MaxHeartbeatReqSend}),
                                !.disconnectTime = time]

\* a request goes out, and the interval counts until a response comes.  It is
\* lost when no program has the socket, or when the socket is full.
SendRequest(time) ==
    /\ requests' = IF Running THEN Min({requests + 1, MaxQueue}) ELSE requests
    /\ tester' = [tester EXCEPT !.sent = Min({@ + 1, MaxHeartbeatReqSend}),
                                !.disconnectTime = Min({time + RequestInterval, MissTime + RequestInterval})]

\* Mutant: the test ends on the number of requests alone
HeartbeatResponse_NeverEnds ==
    /\ tester.running /\ responses > 0
    /\ responses' = responses - 1
    /\ SendRequest(0)
    /\ UNCHANGED <<vars, processes, faults>>

\* one pass of HeartbeatTesterEntryFunc with a response: the test ends when
\* the requests it was asked for have been sent
HeartbeatResponse ==
    /\ tester.running /\ responses > 0
    /\ responses' = responses - 1
    /\ IF tester.sent = MaxHeartbeatReqSend
       THEN /\ tester' = [tester EXCEPT !.running = FALSE, !.disconnectTime = 0]
            /\ UNCHANGED requests
       ELSE SendRequest(0)
    /\ UNCHANGED <<vars, processes, faults>>

\* one pass without a response
HeartbeatMiss ==
    /\ tester.running /\ responses = 0
    /\ SendRequest(tester.disconnectTime)
    /\ UNCHANGED <<vars, processes, faults, responses>>

HeartbeatTester == HeartbeatResponse \/ HeartbeatMiss

SupervisionNext ==
    \/ \E p \in Numbers : Daemon(p) \/ ForkFails(p) \/ ExecFails(p) \/ Crash(p)
    \/ UlpRecvAndHandleOamData
    \/ Threads
    \/ HeartbeatTester

(***************************************************************************)
(* The daemons, the tester (a 3 s timer) and the threads of the program    *)
(* run; the faults need not happen.                                        *)
(***************************************************************************)
Keeps(A) == Running /\ A /\ UNCHANGED <<processes, faults, heartbeatVars>>

SupervisionFairness ==
    /\ \A p \in Numbers : WF_supervisionVars(Daemon(p))
    /\ WF_supervisionVars(HeartbeatTester)
    /\ WF_supervisionVars(Keeps(Trigger))
    /\ SF_supervisionVars(Keeps(EventSendLock))
    /\ WF_supervisionVars(UlpRecvAndHandleOamData)
    /\ \A e \in Events :
        /\ WF_supervisionVars(Keeps(FinishPass(e) \/ EventWaitTest(e) \/ EventWaitSleep(e)
                                    \/ (e # UlpEvent /\ EventWaitTake(e))))
        /\ SF_supervisionVars(Keeps(EventWaitLock(e)))

SupervisionSpec == SupervisionInit /\ [][SupervisionNext]_supervisionVars /\ SupervisionFairness

-----------------------------------------------------------------------------
\* Every variable has its type.
SupervisionTypeOK ==
    /\ TypeOK
    /\ processes \in [Numbers -> Process]
    /\ faults \in [fork : 0 .. MaxForkFailures, exec : 0 .. MaxExecFailures,
                   crash : 0 .. MaxCrashes]
    /\ requests \in 0 .. MaxQueue
    /\ responses \in 0 .. MaxQueue
    /\ tester \in [running : BOOLEAN, sent : 0 .. MaxHeartbeatReqSend,
                   disconnectTime : {t \in 0 .. MissTime + RequestInterval : t % RequestInterval = 0}]

\* the processes that are not waiting for another one
Acting == {p \in Numbers : processes[p].at \in {"fork", "exec", "program", "zombie"}}

\* a daemon waits for a process that is there, or whose end it can still be told of
WaitersHaveChildren ==
    \A p \in Numbers : processes[p].at = "wait" =>
        \E q \in Numbers \ {1} : processes[q].at # "free" /\ processes[q].parent = p

\* OneInstance: every variable has its type, and however the chain of daemons has
\* grown, exactly one process of it acts and every other one waits for a child
\* that has not been waited for: no two programs share the sockets, and no daemon
\* waits for ever for a process that is gone.
OneInstance ==
    /\ SupervisionTypeOK
    /\ Cardinality(Acting) = IF Abandoned THEN 0 ELSE 1
    /\ WaitersHaveChildren

\* the daemons that failed to become the program, and the first one, are all there
\* is beside the process the last of them has forked
Used == {p \in Numbers : processes[p].at # "free"}

ChainIsShort ==
    /\ processes[1].at # "zombie"
    /\ \A p \in Acting : Cardinality(Used) <=
        faults.exec + IF processes[p].at = "fork" THEN 1 ELSE 2

\* HeartbeatTestEnds: the program that ends is started again, its worker answers
\* again, and the tester reaches its last response, unless the daemon gave up.
HeartbeatTestEnds == <>(~tester.running \/ Abandoned)

\* DeadUlpIsNoticed: once nothing will start the program again, the tester reports
\* it, however many responses were still waiting to be read.
DeadUlpIsNoticed == Abandoned ~> (tester.disconnectTime > MissTime \/ ~tester.running)

\* EveryThreadRunsAgain: a crash at any point of a notification leaves nothing
\* behind: every thread of the next program is notified and leaves EventWait again
\* and again.
EveryThreadRunsAgain ==
    \A e \in Events : []<>(setFlag[e] = 1 \/ Abandoned) /\ []<>(waiter[e] = "work" \/ Abandoned)
=============================================================================
