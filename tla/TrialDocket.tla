----------------------------- MODULE TrialDocket -----------------------------
(***************************************************************************)
(* The three endpoints that write the Trial table -- open a trial, record  *)
(* a hearing, assign a judge -- running concurrently in the tasks of the   *)
(* backend service against one PostgreSQL database at READ COMMITTED.      *)
(*                                                                         *)
(* Handlers run in the thread pool of their task; the database session is  *)
(* committed or rolled back by the middleware, on the one event loop of    *)
(* the task, before the response is sent.  Every step below is one SQL     *)
(* statement or one turn of the event loop.                                *)
(*                                                                         *)
(* A case is named by its id: open_case takes ids from one identity column *)
(* and the seed uses each id once, so (case_id, open_date) and case_id     *)
(* name the same cases.                                                    *)
(***************************************************************************)
EXTENDS Integers, Sequences

CONSTANTS Requests,     \* the write requests clients send
          Tasks,        \* the running tasks of the backend service
          Cases,        \* the cases on file
          CaseIds,      \* the case ids a client may name
          TrialIds,     \* the trial numbers a client may name
          Persons,      \* the persons on file
          PersonIds,    \* the person ids a client may name
          Dates,        \* hearing dates
          Courts,       \* court levels and hearing outcomes
          SeedTrials,   \* the trials the database starts with
          Nil,          \* a column that is NULL, a field that is not given
          Keep,         \* a column an UPDATE does not set
          Free          \* an event loop that no request occupies

ASSUME CasesAssumption == Cases \subseteq CaseIds /\ Persons \subseteq PersonIds
ASSUME TrialIdsAssumption == TrialIds \subseteq Int
ASSUME SentinelAssumption ==
    /\ Nil \notin Dates \cup Courts \cup PersonIds
    /\ Keep \notin Dates \cup Courts \cup PersonIds \cup {Nil}
    /\ Free \notin Requests

-----------------------------------------------------------------------------
Given(S) == S \cup {Nil}

\* A row of the Trial table, apart from its key.
Row == [hearing : Given(Dates), judge : Given(Persons), court : Given(Courts)]

ASSUME SeedAssumption == SeedTrials \in [Cases -> Seq(Row)]

\* What an uncommitted INSERT or UPDATE sets the columns of a row to.
Change == [hearing : Given(Dates) \cup {Keep},
           judge   : Given(Persons) \cup {Keep},
           court   : Given(Courts) \cup {Keep}]

NoChange == [hearing |-> Keep, judge |-> Keep, court |-> Keep]

NullRow == [hearing |-> Nil, judge |-> Nil, court |-> Nil]

AddTrial   == [op : {"trial"}, task : Tasks, case : CaseIds, trial : {0},
               hearing : Given(Dates), judge : Given(PersonIds), court : Given(Courts)]
AddHearing == [op : {"hearing"}, task : Tasks, case : CaseIds, trial : TrialIds,
               hearing : Given(Dates), judge : {Nil}, court : Given(Courts)]
SetJudge   == [op : {"judge"}, task : Tasks, case : CaseIds, trial : TrialIds,
               hearing : {Nil}, judge : PersonIds, court : {Nil}]
Request    == AddTrial \cup AddHearing \cup SetJudge

VARIABLES trials,   \* the committed rows: per case, a function from trial numbers
          req,      \* the request each client sends
          pc,       \* how far each request has got
          seen,     \* the row fetch_trial loaded for the request
          num,      \* the trial number the request writes
          write,    \* its uncommitted write to that trial
          locked,   \* the requests that hold FOR UPDATE on their case row
          loop,     \* per task, the request inside a commit on the event loop
          status    \* the outcome the response carries

vars == <<trials, req, pc, seen, num, write, locked, loop, status>>

Stages == {"new", "fetch", "lock", "count", "insert", "fill", "assign", "dirty",
           "flush", "commit", "rollback", "reply", "done", "lost"}

Statuses == {"none", "ok", "not_found", "unknown_judge", "number_taken"}

TypeOK ==
    /\ trials = [c \in Cases |-> [n \in DOMAIN trials[c] |-> trials[c][n]]]
    /\ \A c \in Cases : DOMAIN trials[c] \subseteq Int
    /\ \A c \in Cases : \A n \in DOMAIN trials[c] : trials[c][n] \in Row
    /\ req \in [Requests -> Request]
    /\ pc \in [Requests -> Stages]
    /\ seen \in [Requests -> Row]
    /\ num \in [Requests -> Int]
    /\ write \in [Requests -> Change]
    /\ locked \in SUBSET Requests
    /\ loop \in [Tasks -> Requests \cup {Free}]
    /\ status \in [Requests -> Statuses]

Init ==
    /\ trials = SeedTrials
    /\ req \in [Requests -> Request]
    /\ pc = [r \in Requests |-> "new"]
    /\ seen = [r \in Requests |-> NullRow]
    /\ num = [r \in Requests |-> 0]
    /\ write = [r \in Requests |-> NoChange]
    /\ locked = {}
    /\ loop = [t \in Tasks |-> Free]
    /\ status = [r \in Requests |-> "none"]
-----------------------------------------------------------------------------
Docket(r) == trials[req[r].case]

LoopFree(r) == loop[req[r].task] = Free

Goto(r, stage) == pc' = [pc EXCEPT ![r] = stage]

\* The handler raises: the exception handler of main.py picks the status and
\* the middleware will roll the session back.
Fail(r, s) ==
    /\ Goto(r, "rollback")
    /\ status' = [status EXCEPT ![r] = s]

\* result or 0: the highest committed number of the case, 0 when it has none.
LastNumber(S) == CHOOSE m \in S \cup {0} : \A n \in S : n =< m

\* The row as the UPDATE leaves it.
Apply(row, chg) ==
    [hearing |-> IF chg.hearing = Keep THEN row.hearing ELSE chg.hearing,
     judge   |-> IF chg.judge = Keep THEN row.judge ELSE chg.judge,
     court   |-> IF chg.court = Keep THEN row.court ELSE chg.court]

\* SQLAlchemy sends the columns whose value differs from the one it loaded.
Differing(old, new) == IF new = old THEN Keep ELSE new

\* No other transaction has an uncommitted write to the row r wants to write.
RowFree(r) ==
    \A q \in Requests \ {r} :
        ~ (write[q] # NoChange /\ req[q].case = req[r].case /\ num[q] = num[r])
-----------------------------------------------------------------------------
\* A task takes the request off its socket and hands it to a thread.
Receive(r) ==
    /\ pc[r] = "new"
    /\ LoopFree(r)
    /\ Goto(r, "fetch")
    /\ UNCHANGED <<trials, req, seen, num, write, locked, loop, status>>

\* add_case_trial: fetch_case.
FetchCase(r) ==
    /\ pc[r] = "fetch"
    /\ req[r].op = "trial"
    /\ IF req[r].case \in Cases
       THEN Goto(r, "lock") /\ UNCHANGED status
       ELSE Fail(r, "not_found")
    /\ UNCHANGED <<trials, req, seen, num, write, locked, loop>>

\* A hearing on a trial that has one already goes to a new trial.
AfterFetch(r, row) ==
    IF req[r].op = "judge" THEN "assign"
    ELSE IF row.hearing # Nil THEN "lock" ELSE "fill"

\* add_trial_hearing and assign_judge_to_trial: fetch_trial, without a lock.
FetchTrial(r) ==
    /\ pc[r] = "fetch"
    /\ req[r].op \in {"hearing", "judge"}
    /\ IF req[r].case \in Cases /\ req[r].trial \in DOMAIN Docket(r)
       THEN LET row == Docket(r)[req[r].trial] IN
            /\ seen' = [seen EXCEPT ![r] = row]
            /\ num' = [num EXCEPT ![r] = req[r].trial]
            /\ Goto(r, AfterFetch(r, row))
            /\ UNCHANGED status
       ELSE Fail(r, "not_found") /\ UNCHANGED <<seen, num>>
    /\ UNCHANGED <<trials, req, write, locked, loop>>

\* Mutant: the case row is read without with_for_update().
ReadCaseUnlocked(r) ==
    /\ pc[r] = "lock"
    /\ Goto(r, "count")
    /\ UNCHANGED <<trials, req, seen, num, write, locked, loop, status>>

\* next_trial_number: SELECT ... FOR UPDATE of the case row.
LockCase(r) ==
    /\ pc[r] = "lock"
    /\ \A q \in locked : req[q].case # req[r].case
    /\ locked' = locked \cup {r}
    /\ Goto(r, "count")
    /\ UNCHANGED <<trials, req, seen, num, write, loop, status>>

\* Mutant: a number that was drawn is not drawn again, as from an identity column.
CountDrawn(r) ==
    /\ pc[r] = "count"
    /\ LET drawn == {num[q] : q \in {s \in Requests : req[s].case = req[r].case}} IN
       num' = [num EXCEPT ![r] = LastNumber(DOMAIN Docket(r) \cup drawn) + 1]
    /\ Goto(r, "insert")
    /\ UNCHANGED <<trials, req, seen, write, locked, loop, status>>

\* next_trial_number: SELECT max(trial_number), a statement with a snapshot of
\* its own.
CountTrials(r) ==
    /\ pc[r] = "count"
    /\ num' = [num EXCEPT ![r] = LastNumber(DOMAIN Docket(r)) + 1]
    /\ Goto(r, "insert")
    /\ UNCHANGED <<trials, req, seen, write, locked, loop, status>>

\* The columns of a new row: the payload's, or a copy of the trial heard before.
RowFromPayload(r) ==
    [hearing |-> req[r].hearing, judge |-> req[r].judge, court |-> req[r].court]
RowFromTrial(r) ==
    [hearing |-> Nil, judge |-> seen[r].judge, court |-> seen[r].court]
NewRow(r) == IF req[r].op = "trial" THEN RowFromPayload(r) ELSE RowFromTrial(r)

\* db.add and db.flush: the INSERT waits for an uncommitted row with its key,
\* and fails on a committed one or on a judge who is no person.
InsertTrial(r) ==
    /\ pc[r] = "insert"
    /\ RowFree(r)
    /\ IF num[r] \in DOMAIN Docket(r) THEN Fail(r, "number_taken") /\ UNCHANGED write
       ELSE IF NewRow(r).judge \notin Given(Persons) THEN Fail(r, "unknown_judge") /\ UNCHANGED write
       ELSE /\ write' = [write EXCEPT ![r] = NewRow(r)]
            /\ Goto(r, IF req[r].op = "trial" THEN "commit" ELSE "fill")
            /\ UNCHANGED status
    /\ UNCHANGED <<trials, req, seen, num, locked, loop>>

\* Mutant: the UPDATE writes back the loaded date and court where none is given.
HearingChangeWhole(r, row) ==
    [hearing |-> IF req[r].hearing = Nil THEN row.hearing ELSE req[r].hearing,
     judge   |-> Keep,
     court   |-> IF req[r].court = Nil THEN row.court ELSE req[r].court]

\* The columns the hearing sets on the row the session holds: the date and the
\* outcome, each when given, the outcome in the court_level column.
HearingChange(r, row) ==
    [hearing |-> IF req[r].hearing = Nil THEN Keep ELSE Differing(row.hearing, req[r].hearing),
     judge   |-> Keep,
     court   |-> IF req[r].court = Nil THEN Keep ELSE Differing(row.court, req[r].court)]

\* add_trial_hearing, the end: an UPDATE of the row just inserted, or of the one
\* fetched, which waits for its row lock; no statement when nothing differs.
FillHearing(r) ==
    /\ pc[r] = "fill"
    /\ IF write[r] # NoChange
       THEN write' = [write EXCEPT ![r] = Apply(write[r], HearingChange(r, write[r]))]
       ELSE /\ HearingChange(r, seen[r]) = NoChange \/ RowFree(r)
            /\ write' = [write EXCEPT ![r] = HearingChange(r, seen[r])]
    /\ Goto(r, "commit")
    /\ UNCHANGED <<trials, req, seen, num, locked, loop, status>>

\* Mutant: the judge is not looked up among the persons.
AssignAnyone(r) ==
    /\ pc[r] = "assign"
    /\ Goto(r, IF seen[r].judge = req[r].judge THEN "commit" ELSE "dirty")
    /\ UNCHANGED <<trials, req, seen, num, write, locked, loop, status>>

\* assign_judge_to_trial: the judge must be a person; the attribute is set on
\* the session's copy and nothing is sent to the database yet.
AssignJudge(r) ==
    /\ pc[r] = "assign"
    /\ IF req[r].judge \notin Persons THEN Fail(r, "not_found")
       ELSE /\ Goto(r, IF seen[r].judge = req[r].judge THEN "commit" ELSE "dirty")
            /\ UNCHANGED status
    /\ UNCHANGED <<trials, req, seen, num, write, locked, loop>>

\* db_transaction: the middleware enters db.commit() with an unflushed change,
\* and the event loop does nothing else until it returns.
BeginCommit(r) ==
    /\ pc[r] = "dirty"
    /\ LoopFree(r)
    /\ loop' = [loop EXCEPT ![req[r].task] = r]
    /\ Goto(r, "flush")
    /\ UNCHANGED <<trials, req, seen, num, write, locked, status>>

\* The UPDATE that db.commit() sends, waiting for the row lock.
FlushJudge(r) ==
    /\ pc[r] = "flush"
    /\ RowFree(r)
    /\ write' = [write EXCEPT ![r] = [NoChange EXCEPT !.judge = req[r].judge]]
    /\ Goto(r, "commit")
    /\ UNCHANGED <<trials, req, seen, num, locked, loop, status>>

\* The transaction of r ends: its locks go, and the event loop moves on.
EndTransaction(r) ==
    /\ write' = [write EXCEPT ![r] = NoChange]
    /\ locked' = locked \ {r}
    /\ loop' = [loop EXCEPT ![req[r].task] = Free]

\* Mutant: the session of a write request is rolled back like that of a GET.
CommitNothing(r) ==
    /\ pc[r] = "commit"
    /\ loop[req[r].task] \in {Free, r}
    /\ status' = [status EXCEPT ![r] = "ok"]
    /\ EndTransaction(r)
    /\ Goto(r, "reply")
    /\ UNCHANGED <<trials, req, seen, num>>

\* _finish_db with commit: the write becomes visible to every other session.
Commit(r) ==
    /\ pc[r] = "commit"
    /\ loop[req[r].task] \in {Free, r}
    /\ IF write[r] = NoChange THEN UNCHANGED trials
       ELSE LET docket == Docket(r)
                old(n) == IF n \in DOMAIN docket THEN docket[n] ELSE NullRow
            IN  trials' = [trials EXCEPT ![req[r].case] =
                  [n \in DOMAIN docket \cup {num[r]} |->
                     IF n = num[r] THEN Apply(old(n), write[r]) ELSE docket[n]]]
    /\ status' = [status EXCEPT ![r] = "ok"]
    /\ EndTransaction(r)
    /\ Goto(r, "reply")
    /\ UNCHANGED <<req, seen, num>>

\* Mutant: a failed request keeps its session, and the locks of its transaction.
RollbackForgotten(r) ==
    /\ pc[r] = "rollback"
    /\ LoopFree(r)
    /\ Goto(r, "reply")
    /\ UNCHANGED <<trials, req, seen, num, write, locked, loop, status>>

\* _finish_db without commit.
Rollback(r) ==
    /\ pc[r] = "rollback"
    /\ LoopFree(r)
    /\ EndTransaction(r)
    /\ Goto(r, "reply")
    /\ UNCHANGED <<trials, req, seen, num, status>>

\* The middleware returns and the response is sent.
Answer(r) ==
    /\ pc[r] = "reply"
    /\ LoopFree(r)
    /\ Goto(r, "done")
    /\ UNCHANGED <<trials, req, seen, num, write, locked, loop, status>>

\* A task dies with the requests it was serving: PostgreSQL rolls back what
\* they had not committed and their clients get no answer.
InFlight(t) == {r \in Requests : req[r].task = t /\ pc[r] \notin {"new", "done", "lost"}}

Crash(t) ==
    /\ InFlight(t) # {}
    /\ pc' = [r \in Requests |-> IF r \in InFlight(t) THEN "lost" ELSE pc[r]]
    /\ write' = [r \in Requests |-> IF r \in InFlight(t) THEN NoChange ELSE write[r]]
    /\ locked' = locked \ InFlight(t)
    /\ loop' = [loop EXCEPT ![t] = Free]
    /\ UNCHANGED <<trials, req, seen, num, status>>

\* The load balancer's GET /health is dispatched by the event loop too: it can
\* only time out, and the task be replaced, while a commit occupies the loop.
Replace(t) == loop[t] # Free /\ Crash(t)

Serve(r) ==
    \/ Receive(r)     \/ FetchCase(r)   \/ FetchTrial(r) \/ LockCase(r)
    \/ CountTrials(r) \/ InsertTrial(r) \/ FillHearing(r)
    \/ AssignJudge(r) \/ BeginCommit(r) \/ FlushJudge(r)
    \/ Commit(r)      \/ Rollback(r)    \/ Answer(r)

Next == (\E r \in Requests : Serve(r)) \/ (\E t \in Tasks : Crash(t))

Spec == Init /\ [][Next]_vars

\* Threads run, the event loop turns and the database answers.
Serving == \A r \in Requests : WF_vars(Serve(r))

\* A task whose health probes time out is replaced.
HealthChecks == \A t \in Tasks : WF_vars(Replace(t))

FairSpec == Spec /\ Serving /\ HealthChecks

\* The service without its load balancer.
UnsupervisedSpec == Spec /\ Serving
-----------------------------------------------------------------------------
\* The trials of a case are numbered from one without a gap, whatever requests
\* overlap, fail or die between taking a number and committing (max + 1 in
\* next_trial_number, under the lock of the case row).
NumbersContiguous ==
    \A c \in Cases : DOMAIN trials[c] = 1 .. LastNumber(DOMAIN trials[c])

\* Two requests that open trials in one case at once are both served: neither
\* is refused with 409 because the other took its number.  This is what the
\* docstring of next_trial_number locks the case row for.
NumberNeverTaken == \A r \in Requests : status[r] # "number_taken"

\* A request answered with success has its effect in the database by the time
\* its client reads the answer: the trial is there, with a hearing when one was
\* given, with a judge when one was assigned (_finish_db before the response).
AnsweredIsCommitted ==
    \A r \in Requests : pc[r] = "done" /\ status[r] = "ok" =>
        /\ num[r] \in DOMAIN Docket(r)
        /\ req[r].hearing # Nil => Docket(r)[num[r]].hearing # Nil
        /\ req[r].op = "judge" => Docket(r)[num[r]].judge # Nil

\* No step takes a trial off its docket or a date off its hearing, not even one
\* that commits what it computed from a row it read before others wrote it
\* (the "is not None" tests of add_trial_hearing).
HearingNeverErased ==
    [][\A c \in Cases : \A n \in DOMAIN trials[c] :
          /\ n \in DOMAIN trials'[c]
          /\ trials[c][n].hearing # Nil => trials'[c][n].hearing # Nil]_vars

\* A hearing that is set is never replaced: a later one opens a new trial row
\* (trial.py:8).
HearingNeverReplaced ==
    [][\A c \in Cases : \A n \in DOMAIN trials[c] :
          trials[c][n].hearing # Nil => trials'[c][n].hearing = trials[c][n].hearing]_vars

\* Every request a task has taken is answered, or lost with its task: no lock
\* outlives the request that holds it.
EveryRequestSettles ==
    \A r \in Requests : pc[r] = "fetch" ~> pc[r] \in {"done", "lost"}

\* A task that runs answers GET /health (tests/conftest.py:28): its event loop
\* is free again and again.
HealthAnswered == \A t \in Tasks : []<>(loop[t] = Free)

\* Read committed rows only, the endpoints are the docket: each step opens one
\* trial, amends one, or changes nothing that another client can see.
HasHearing(row) == row.hearing # Nil
D == INSTANCE Docket WITH docket <- trials, Trials <- Row
DocketSpec == D!Spec
=============================================================================
