--------------------------- MODULE TargetTracker ---------------------------
(***************************************************************************)
(* How the data processing engine tells one phone from all others by its   *)
(* rhythm (UeLoginInfoReceiver::checkTarget, processUeEstablishInfo and    *)
(* reportTargetUe in dpe/src/UeLoginInfoReceiver.cpp).                     *)
(*                                                                         *)
(* The target is made to come up every Interval, give or take Margin.      *)
(* Sightings at that distance form candidate chains; a chain of three is   *)
(* the target, which is then followed from one nominal time to the next.   *)
(* The OAM server is told the power of the target, or that it is lost.     *)
(*                                                                         *)
(* The code compares timestamps only with the present.  A sighting here    *)
(* carries its age instead, present minus timestamp, so no clock is needed *)
(* and the age of a timestamp ahead of the present is negative.  Of a      *)
(* vector of sightings the code reads the size and the last element.       *)
(***************************************************************************)
EXTENDS Integers, Sequences, SequencesExt

CONSTANTS Interval,     \* m_targetAccTimeInterval
          Margin,       \* m_targetAccTimeMargin
          ReportPeriod  \* every so many checks the power is repeated (200)

ASSUME TargetTrackerAssumption ==
    /\ Interval \in Nat \ {0}
    /\ Margin \in 0 .. Interval
    /\ ReportPeriod \in Nat \ {0}

VARIABLE tracker  \* the members of UeLoginInfoReceiver that follow the target

\* m_maxTargetAccTimeInterval and m_minTargetAccTimeInterval
MaxTimeInterval == Interval + Margin
MinTimeInterval == Interval - Margin

\* when a target missed so many times is overdue, in checkTarget and in
\* processUeEstablishInfo, and from when on it may come up again
CheckLimit(missCount) == MaxTimeInterval + missCount * (Interval + Margin \div 2)
MaxTimeDiff(missCount) == MaxTimeInterval + missCount * (Interval + Margin \div 4)
MinTimeDiff(missCount) == MinTimeInterval + missCount * (Interval - Margin \div 4)

-----------------------------------------------------------------------------
(***************************************************************************)
(* Vectors of sightings, and what is reported.  "trueAge" is what the age  *)
(* would be had the timestamp not been moved to the nominal time: the      *)
(* program does not keep it, the properties do.                            *)
(***************************************************************************)
Sighting(info) ==
    [age |-> 0, trueAge |-> 0, prbPower |-> info.prbPower, ta |-> info.ta]

NoSightings ==
    [size |-> 0, last |-> [age |-> 0, trueAge |-> 0, prbPower |-> 0, ta |-> 0]]

PushBack(vector, sighting) == [size |-> vector.size + 1, last |-> sighting]

TrackerInit ==
    tracker = [target |-> NoSightings,   \* m_targetVect
               candidates |-> <<>>,      \* m_potentialTargetMap, by its keys
               missCount |-> 0,
               reportCount |-> 0,
               oam |-> "nothing"]        \* what the OAM server was told last

Tracked(t) == t.target.size > 0

\* a power of -1 is the very value that says the target is lost
Report(t, prbPower) == [t EXCEPT !.oam = IF prbPower = -1 THEN "lost" ELSE "power"]

\* Mutant: the server is not told
LoseTarget_Silent(t) ==
    [t EXCEPT !.target = NoSightings, !.candidates = <<>>, !.missCount = 0]

LoseTarget(t) ==
    [Report(t, -1) EXCEPT !.target = NoSightings, !.candidates = <<>>, !.missCount = 0]

TooManyMisses(missCount, target) ==
    missCount > target.size \div 2 \/ missCount > 2

\* the target did not come up in time
Miss(t) ==
    LET missCount == t.missCount + 1
    IN  IF TooManyMisses(missCount, t.target)
        THEN LoseTarget(t)
        ELSE [Report(t, t.target.last.prbPower - 5 * missCount) EXCEPT !.missCount = missCount]

-----------------------------------------------------------------------------
(***************************************************************************)
(* checkTarget, on every pass; random is 5 - (rand() % 10).                *)
(***************************************************************************)
\* Mutant: the limit does not move with the misses
CheckTarget_FixedLimit(t, random) ==
    LET counted == [t EXCEPT !.reportCount = (@ + 1) % ReportPeriod]
    IN  IF ~Tracked(t) THEN t
        ELSE IF t.target.last.age > MaxTimeInterval THEN Miss(counted)
        ELSE IF counted.reportCount = 0
        THEN Report(counted, t.target.last.prbPower + random)
        ELSE counted

\* Mutant: a target that is overdue is not given up
CheckTarget_Never(t, random) ==
    LET counted == [t EXCEPT !.reportCount = (@ + 1) % ReportPeriod]
    IN  IF ~Tracked(t) THEN t
        ELSE IF counted.reportCount = 0
        THEN Report(counted, t.target.last.prbPower + random)
        ELSE counted

CheckTarget(t, random) ==
    LET counted == [t EXCEPT !.reportCount = (@ + 1) % ReportPeriod]
    IN  IF ~Tracked(t) THEN t
        ELSE IF t.target.last.age > CheckLimit(t.missCount) THEN Miss(counted)
        ELSE IF counted.reportCount = 0
        THEN Report(counted, t.target.last.prbPower + random)
        ELSE counted

-----------------------------------------------------------------------------
(***************************************************************************)
(* processUeEstablishInfo.  A step over one entry of the message returns   *)
(* the tracker and whether the loop is left.                               *)
(***************************************************************************)
Follows(sighting, vector) ==
    /\ vector.last.age \in MinTimeInterval .. MaxTimeInterval
    /\ sighting.ta - vector.last.ta \in -1 .. 1
    /\ sighting.prbPower - vector.last.prbPower \in -20 .. 20

\* the sighting starts a chain of its own; before that the older chains are
\* cleared when the one compared last is out of time
NewCandidate(t, sighting, cleared) ==
    [t EXCEPT !.candidates = Append(IF cleared THEN <<>> ELSE @, PushBack(NoSightings, sighting))]

\* Mutant: the chains stay when one of them becomes the target
TargetFound_KeepsChains(t, vector) ==
    Report([t EXCEPT !.target = vector, !.missCount = 0], vector.last.prbPower)

TargetFound(t, vector) ==
    Report([t EXCEPT !.target = vector, !.missCount = 0, !.candidates = <<>>],
           vector.last.prbPower)

\* the first chain that the sighting follows grows by it, at its nominal time;
\* a chain of three is the target.  The sighting is a candidate of its own too.
TryCandidates(t, sighting) ==
    LET chains == t.candidates
        chain == SelectInSeq(chains, LAMBDA v : Follows(sighting, v))
    IN  IF chain = 0
        THEN [tracker |-> NewCandidate(t, sighting,
                             chains # <<>> /\ Last(chains).last.age > MaxTimeInterval),
              done |-> FALSE]
        ELSE LET nominal == [sighting EXCEPT !.age = chains[chain].last.age - Interval]
                 grown == PushBack(chains[chain], nominal)
             IN  IF grown.size = 3
                 THEN [tracker |-> TargetFound(t, grown), done |-> TRUE]
                 ELSE [tracker |-> NewCandidate([t EXCEPT !.candidates[chain] = grown],
                                                nominal, FALSE),
                       done |-> FALSE]

\* Mutant: the misses are forgotten before the nominal time is computed
FollowTarget_ResetsFirst(t, sighting) ==
    LET nominal == [sighting EXCEPT !.age = t.target.last.age - Interval]
    IN  Report([t EXCEPT !.target = PushBack(@, nominal), !.missCount = 0], sighting.prbPower)

\* Mutant: the misses are not forgotten
FollowTarget_KeepsMisses(t, sighting) ==
    LET nominal == [sighting EXCEPT
                      !.age = t.target.last.age - (t.missCount + 1) * Interval]
    IN  Report([t EXCEPT !.target = PushBack(@, nominal)], sighting.prbPower)

\* the target came up again
FollowTarget(t, sighting) ==
    LET nominal == [sighting EXCEPT
                      !.age = t.target.last.age - (t.missCount + 1) * Interval]
    IN  Report([t EXCEPT !.target = PushBack(@, nominal), !.missCount = 0], sighting.prbPower)

ProcessEntry(s, info) ==
    LET t == s.tracker
        age == t.target.last.age
        missed == Miss(t)
    IN  IF s.done THEN s
        ELSE IF ~Tracked(t) THEN TryCandidates(t, Sighting(info))
        ELSE IF age < MinTimeDiff(t.missCount) THEN s
        ELSE IF age <= MaxTimeDiff(t.missCount)
        THEN IF info.prbPower = 0 THEN s
             ELSE [tracker |-> FollowTarget(t, Sighting(info)), done |-> TRUE]
        ELSE IF Tracked(missed) THEN [s EXCEPT !.tracker = missed]
        ELSE TryCandidates(missed, Sighting(info))

\* after[i] is the state of the loop behind its first i entries
ProcessUeEstablishInfo(t, infos) ==
    LET after[i \in 0 .. Len(infos)] ==
            IF i = 0 THEN [tracker |-> t, done |-> FALSE]
            ELSE ProcessEntry(after[i - 1], infos[i])
    IN  after[Len(infos)].tracker

-----------------------------------------------------------------------------
(***************************************************************************)
(* The passage of time, as the receiver sees it.                           *)
(***************************************************************************)
\* an age past "limit" is not told apart from a greater one, and grows no more
Older(vector, limit) ==
    IF vector.last.age > limit THEN vector
    ELSE [vector EXCEPT !.last.age = @ + 1, !.last.trueAge = @ + 1]

\* one unit of time: a chain is compared with MaxTimeInterval only, a target with
\* the limit of its last miss at most
Aged(t) ==
    [t EXCEPT !.target = IF Tracked(t) THEN Older(@, CheckLimit(2)) ELSE @,
              !.candidates = [i \in DOMAIN @ |-> Older(@[i], MaxTimeInterval)]]

Vectors(t) == Range(t.candidates) \cup (IF Tracked(t) THEN {t.target} ELSE {})

-----------------------------------------------------------------------------
\* Every component of the tracker has its type; the ages are integers, since a
\* nominal time may be ahead of the present.
TrackerTypeOK ==
    LET SightingType == [age : Int, trueAge : Nat, prbPower : Int, ta : Int]
    IN  /\ tracker.target \in [size : Nat, last : SightingType]
        /\ tracker.candidates \in Seq([size : 1 .. 2, last : SightingType])
        /\ tracker.missCount \in 0 .. 2
        /\ tracker.reportCount \in 0 .. ReportPeriod - 1
        /\ tracker.oam \in {"nothing", "power", "lost"}

\* OamHearsOfLoss: while nothing is tracked, the last word the OAM server got is that
\* the target is lost, or nothing at all; and while a target is tracked the server has
\* heard of it and no other chain is followed.
OamHearsOfLoss ==
    IF Tracked(tracker)
    THEN tracker.oam # "nothing" /\ tracker.candidates = <<>>
    ELSE tracker.oam \in {"nothing", "lost"}

\* MissesAreReal: m_missCount never runs ahead of the time that has passed since the
\* nominal time of the last sighting, although checkTarget and each entry of a message
\* may count a miss; and it never says that a target should have been given up.
MissesAreReal ==
    tracker.missCount > 0 =>
        /\ Tracked(tracker)
        /\ ~TooManyMisses(tracker.missCount, tracker.target)
        /\ tracker.target.last.age > MaxTimeDiff(tracker.missCount - 1)

\* NominalTimesStayTrue: a sighting is stored under its nominal time, computed from the
\* one before it, and yet the stored time never drifts from the time the sighting was
\* received by more than the tolerance of one comparison.
NominalTimesStayTrue ==
    \A v \in Vectors(tracker) :
        v.last.age - v.last.trueAge \in -(Margin + 2 * (Margin \div 4)) .. Margin + 2 * (Margin \div 4)

\* LostOnlyWhenSilent: a target is given up only when no sighting was taken for longer
\* than two intervals: a single missed sighting never loses it.
LostOnlyWhenSilent ==
    [][Tracked(tracker) /\ ~Tracked(tracker') =>
            tracker.target.last.age > MaxTimeDiff(1)]_tracker
=============================================================================
