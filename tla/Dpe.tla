-------------------------------- MODULE Dpe --------------------------------
(***************************************************************************)
(* The data processing engine beside the ULP.                              *)
(*                                                                         *)
(* The ULP collects what it saw of UEs (ulp/src/target.c) and sends it in  *)
(* datagrams.  UeLoginInfoReceiver::run wakes up every 10 ms, looks after  *)
(* its target and handles one datagram.  The build decides what the ULP    *)
(* sends (README.md): TARGET_LOCATION makes it send the times UEs come up, *)
(* TARGET_ANALYSIS the identities it has found.                            *)
(***************************************************************************)
EXTENDS TargetTracker, LoginInfo

CONSTANTS Builds,       \* the macros defined, one of a build
          Infos,        \* what is seen of a UE: [prbPower, ta]
          Identities,   \* what is found of a UE: [imsi, mTmsiPresent]
          MaxReport,    \* MAX_NUM_UE_INFO_REPORT
          MaxInfos,     \* bound on the sightings of a behaviour
          MaxInbox      \* datagrams a socket holds; it drops the others

ASSUME DpeAssumption ==
    /\ Builds \subseteq {"TARGET_LOCATION", "TARGET_ANALYSIS"}
    /\ \A u \in Identities : u.imsi \in Imsis \cup {AnyImsi} /\ u.mTmsiPresent \in BOOLEAN
    /\ Infos \subseteq [prbPower : Int, ta : Int]
    /\ {MaxReport, MaxInfos, MaxInbox} \subseteq Nat \ {0}

VARIABLES build,
          estabInd,  \* the entries of gUeEstablishDataInd
          seen,      \* how many sightings the ULP has had
          inbox      \* the datagrams in the receiver's socket

ulpVars == <<build, estabInd, seen, inbox>>
dpeVars == <<tracker, loginVars, ulpVars>>

DpeInit ==
    /\ TrackerInit
    /\ LoginInit
    /\ build \in Builds
    /\ estabInd = <<>>
    /\ seen = 0
    /\ inbox = <<>>

\* SocketUdpSend to the receiver, which drops what it cannot hold
Sent(datagram) == IF Len(inbox) < MaxInbox THEN Append(inbox, datagram) ELSE inbox

-----------------------------------------------------------------------------
(***************************************************************************)
(* The ULP's side.                                                         *)
(***************************************************************************)
\* Mutant: the message is full one entry too late
TgtProcessUeEstablishInfo_OffByOne(info) ==
    /\ build = "TARGET_LOCATION"
    /\ seen < MaxInfos
    /\ seen' = seen + 1
    /\ estabInd' = IF Len(estabInd) > MaxReport THEN estabInd ELSE Append(estabInd, info)
    /\ UNCHANGED <<tracker, loginVars, build, inbox>>

\* the entry is added under gTgtSem, or dropped when the message is full
TgtProcessUeEstablishInfo(info) ==
    /\ build = "TARGET_LOCATION"
    /\ seen < MaxInfos
    /\ seen' = seen + 1
    /\ estabInd' = IF Len(estabInd) >= MaxReport THEN estabInd ELSE Append(estabInd, info)
    /\ UNCHANGED <<tracker, loginVars, build, inbox>>

TgtSendUeEstablishInd ==
    /\ estabInd # <<>>
    /\ inbox' = Sent([msgType |-> "establish", content |-> estabInd])
    /\ estabInd' = <<>>
    /\ UNCHANGED <<tracker, loginVars, build, seen>>

\* the worker reports the identities of this pass (UeReport models which)
UlpSendUeIdentity(identity) ==
    /\ build = "TARGET_ANALYSIS"
    /\ seen < MaxInfos
    /\ seen' = seen + 1
    /\ inbox' = Sent([msgType |-> "identity", content |-> <<identity>>])
    /\ UNCHANGED <<tracker, loginVars, build, estabInd>>

-----------------------------------------------------------------------------
(***************************************************************************)
(* One turn of UeLoginInfoReceiver::run.                                   *)
(***************************************************************************)
\* no datagram waits.  (A heartbeat request, or a message of another type, is read
\* and changes nothing of what is modelled here.)
RunWithout(random) ==
    /\ inbox = <<>>
    /\ tracker' = CheckTarget(tracker, random)
    /\ UNCHANGED <<loginVars, ulpVars>>

RunEstablish(random) ==
    /\ inbox # <<>> /\ Head(inbox).msgType = "establish"
    /\ tracker' = ProcessUeEstablishInfo(CheckTarget(tracker, random), Head(inbox).content)
    /\ inbox' = Tail(inbox)
    /\ UNCHANGED <<loginVars, build, estabInd, seen>>

RunIdentity(random) ==
    /\ inbox # <<>> /\ Head(inbox).msgType = "identity"
    /\ tracker' = CheckTarget(tracker, random)
    /\ SaveUeIdentity(Head(inbox).content)
    /\ inbox' = Tail(inbox)
    /\ UNCHANGED <<build, estabInd, seen>>

\* 5 - (rand() % 10)
Run == \E random \in -4 .. 5 : RunWithout(random) \/ RunEstablish(random) \/ RunIdentity(random)

\* a unit of time is far longer than a turn of the receiver, which has emptied its
\* socket before
TimePasses ==
    /\ inbox = <<>>
    /\ tracker' = Aged(tracker)
    /\ UNCHANGED <<loginVars, ulpVars>>

Engine == build = "TARGET_ANALYSIS" /\ LoginNext /\ UNCHANGED <<tracker, ulpVars>>

DpeNext ==
    \/ \E info \in Infos : TgtProcessUeEstablishInfo(info)
    \/ TgtSendUeEstablishInd
    \/ \E identity \in Identities : UlpSendUeIdentity(identity)
    \/ Run
    \/ TimePasses
    \/ Engine

(***************************************************************************)
(* The receiver is notified every 10 ms and time passes.                   *)
(***************************************************************************)
DpeFairness == WF_dpeVars(Run) /\ WF_dpeVars(TimePasses)

DpeSpec == DpeInit /\ [][DpeNext]_dpeVars /\ DpeFairness

-----------------------------------------------------------------------------
\* Every variable has its type.
DpeTypeOK ==
    /\ TrackerTypeOK
    /\ LoginTypeOK
    /\ build \in Builds
    /\ estabInd \in Seq(Infos) /\ Len(estabInd) <= MaxReport
    /\ seen \in 0 .. MaxInfos
    /\ inbox \in Seq([msgType : {"establish"}, content : Seq(Infos)] \cup
                    [msgType : {"identity"}, content : Seq(Identities)])
    /\ Len(inbox) <= MaxInbox

\* SilentTargetIsGivenUp: a target that is not seen any more is given up in the end, by
\* checkTarget alone.
SilentTargetIsGivenUp == Tracked(tracker) ~> ~Tracked(tracker)
=============================================================================
