----------------------------- MODULE LoginInfo -----------------------------
(***************************************************************************)
(* The logins the data processing engine stores and analyses               *)
(* (UeLoginInfoReceiver::saveUeIdentity, DpEngine.cpp, db/src/dbImpl.c).   *)
(*                                                                         *)
(* The receiver inserts a row of login_info for every IMSI it is told of.  *)
(* DpEngine answers a request by a query of its own connection, whose rows *)
(* a callback collects by IMSI, and stores the first and last time and the *)
(* number of logins of each IMSI in another database.                      *)
(*                                                                         *)
(* sqlite3 is modelled by how dbImpl.c uses it: a statement may fail at    *)
(* any call, and while a query stands on a row the other connection cannot *)
(* commit, so an insert fails.  dbImpl.c takes any result but SQLITE_ROW   *)
(* for the end of the rows.                                                *)
(***************************************************************************)
EXTENDS Integers, Sequences, FiniteSets, SequencesExt

CONSTANTS Imsis,       \* the IMSIs of the UEs
          AnyImsi,     \* the request is by date alone
          MaxDay,      \* bound on the days that pass; a time is a day
          MaxLogins,   \* bound on the rows of login_info
          MaxRequests  \* bound on requests to the engine

ASSUME LoginInfoAssumption ==
    /\ AnyImsi \notin Imsis
    /\ {MaxLogins, MaxRequests} \subseteq Nat /\ MaxDay \in Nat \ {0}

VARIABLES
    day,         \* the present, the default of login_info.time
    logins,      \* login_info: the rows by id
    engine,      \* where DpEngine::handleUserRequest is
    loginTimes,  \* m_imsiLoginTimeMap; an IMSI that is not in the map has no times
    behaviors    \* user_login_behavior; each row also says which query it is of

loginVars == <<day, logins, engine, loginTimes, behaviors>>

\* id is the row the query stands on; nth numbers the requests
Idle(nth) ==
    [querying |-> FALSE, nth |-> nth, imsi |-> AnyImsi, begin |-> 0, end |-> 0,
     id |-> 0, numRecord |-> 0]

LoginInit ==
    /\ day = 1
    /\ logins = <<>>
    /\ engine = Idle(0)
    /\ loginTimes = [i \in Imsis |-> <<>>]
    /\ behaviors = {}

\* the WHERE clause of a query
Selects(query, row) ==
    /\ query.imsi \in {AnyImsi, row.imsi}
    /\ row.time \in query.begin .. query.end

\* the query stands on a row, which locks login_info
Reading == engine.querying /\ engine.id > 0

-----------------------------------------------------------------------------
(***************************************************************************)
(* The receiver's side.                                                    *)
(***************************************************************************)
\* only identities with an IMSI and no M-TMSI are stored
IsStored(identity) == identity.imsi \in Imsis /\ ~identity.mTmsiPresent

\* DbInsertLoginImsi: the rows after it; the insert may fail, and it does while
\* a query holds the table
DbInsertLoginImsi(rows, identity) ==
    {rows} \cup
    IF IsStored(identity) /\ ~Reading /\ Len(rows) < MaxLogins
    THEN {Append(rows, [imsi |-> identity.imsi, time |-> day])}
    ELSE {}

\* saveUeIdentity: tables[i] are the rows there may be behind the first i identities
SaveUeIdentity(identities) ==
    LET tables[i \in 0 .. Len(identities)] ==
            IF i = 0 THEN {logins}
            ELSE UNION {DbInsertLoginImsi(rows, identities[i]) : rows \in tables[i - 1]}
    IN  /\ logins' \in tables[Len(identities)]
        /\ UNCHANGED <<day, engine, loginTimes, behaviors>>

NextDay ==
    /\ day < MaxDay
    /\ day' = day + 1
    /\ UNCHANGED <<logins, engine, loginTimes, behaviors>>

-----------------------------------------------------------------------------
(***************************************************************************)
(* DpEngine::handleUserRequest.                                            *)
(***************************************************************************)
\* Mutant: what an earlier request collected stays
ClearTimes_Keeps(imsi) == loginTimes

\* what an earlier request collected of this IMSI, or of all, is dropped
ClearTimes(imsi) == [i \in Imsis |-> IF imsi \in {AnyImsi, i} THEN <<>> ELSE loginTimes[i]]

\* a request by IMSI and date, or by date alone
HandleUserRequest(imsi, begin, end) ==
    /\ ~engine.querying
    /\ engine.nth < MaxRequests
    /\ loginTimes' = ClearTimes(imsi)
    /\ engine' = [querying |-> TRUE, nth |-> engine.nth + 1, imsi |-> imsi,
                  begin |-> begin, end |-> end, id |-> 0, numRecord |-> 0]
    /\ UNCHANGED <<day, logins, behaviors>>

\* the rows that the loop of DbQueryLoginInfoBy...Date has still to be given
RowsLeft == {id \in DOMAIN logins : id > engine.id /\ Selects(engine, logins[id])}

\* the loop is given the next row, and the callback files its time
QueryLoginInfoCallback ==
    LET row == logins[Min(RowsLeft)]
    IN  /\ engine.querying
        /\ RowsLeft # {}
        /\ engine' = [engine EXCEPT !.id = Min(RowsLeft), !.numRecord = @ + 1]
        /\ loginTimes' = [loginTimes EXCEPT ![row.imsi] = Append(@, row.time)]
        /\ UNCHANGED <<day, logins, behaviors>>

\* the IMSIs whose times are analysed: the one asked for, if the map has as many
\* times as the query had rows, or all that are in the map
Analyzed ==
    IF engine.numRecord = 0 THEN {}
    ELSE IF engine.imsi = AnyImsi THEN {i \in Imsis : loginTimes[i] # <<>>}
    ELSE {i \in {engine.imsi} : Len(loginTimes[i]) = engine.numRecord}

\* analysisLoginBehavior
AnalysisLoginBehavior(imsi) ==
    [imsi |-> imsi, first |-> Head(loginTimes[imsi]), last |-> Last(loginTimes[imsi]),
     count |-> Len(loginTimes[imsi]), query |-> engine]

\* each row is inserted, or its insert fails
DbInsertUserLoginBehaviour(rows) == {behaviors \cup stored : stored \in SUBSET rows}

\* the query ends, after its last row or by an error at any call (of prepare and
\* bind too, and then numRecord is still 0).  Times that do not match the query
\* are dropped.
QueryEnds ==
    /\ engine.querying
    /\ behaviors' \in DbInsertUserLoginBehaviour({AnalysisLoginBehavior(i) : i \in Analyzed})
    /\ loginTimes' = [i \in Imsis |->
            IF engine.imsi = i /\ engine.numRecord > 0 /\ i \notin Analyzed
            THEN <<>> ELSE loginTimes[i]]
    /\ engine' = Idle(engine.nth)
    /\ UNCHANGED <<day, logins>>

LoginNext ==
    \/ NextDay
    \/ \E imsi \in Imsis \cup {AnyImsi}, begin, end \in 1 .. MaxDay :
            HandleUserRequest(imsi, begin, end)
    \/ QueryLoginInfoCallback
    \/ QueryEnds

-----------------------------------------------------------------------------
\* Every variable has its type.
LoginTypeOK ==
    LET Query == [querying : BOOLEAN, nth : 0 .. MaxRequests, imsi : Imsis \cup {AnyImsi},
                  begin : 0 .. MaxDay, end : 0 .. MaxDay, id : 0 .. MaxLogins,
                  numRecord : 0 .. MaxLogins]
    IN  /\ day \in 1 .. MaxDay
        /\ logins \in Seq([imsi : Imsis, time : 1 .. MaxDay]) /\ Len(logins) <= MaxLogins
        /\ engine \in Query
        /\ loginTimes \in [Imsis -> Seq(1 .. MaxDay)]
        /\ \A b \in behaviors : b.imsi \in Imsis /\ b.query \in Query

\* BehaviorsAreOfTheirQuery: a stored behaviour counts each row its query was given
\* exactly once and no row of an earlier request, and its times are those of the first
\* and the last of them, although logins are inserted while the query runs and the
\* times of other requests stay in the map.
BehaviorsAreOfTheirQuery ==
    \A b \in behaviors :
        LET rows == {id \in 1 .. b.query.id :
                        logins[id].imsi = b.imsi /\ Selects(b.query, logins[id])}
        IN  /\ rows # {}
            /\ b.count = Cardinality(rows)
            /\ b.first = logins[Min(rows)].time
            /\ b.last = logins[Max(rows)].time
=============================================================================
