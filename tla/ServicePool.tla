---------------------------- MODULE ServicePool ----------------------------
(***************************************************************************)
(* What the requests of the tasks share: in each task the event loop, the  *)
(* threads that run the handlers and, for each database engine, a pool of  *)
(* connections; and in the database the row locks.                         *)
(*                                                                         *)
(* A request needs a thread to open its session, again to run its handler  *)
(* and again to build its response.  Its first statement takes a           *)
(* connection, and waits for one in the thread; later statements lock      *)
(* rows, and wait for them in the thread.  Connection and locks stay with  *)
(* the session until the middleware closes it, on the event loop, after    *)
(* the response is built.  So a request that has what others wait for may  *)
(* itself wait for one of their threads, until the pool gives up on some.  *)
(* A statement that the handler left to the commit is sent on the event    *)
(* loop, and nothing else happens there while it waits for a row.          *)
(***************************************************************************)
EXTENDS Naturals, FiniteSets

CONSTANTS Reads, Writes,      \* the requests that use the database
          Late,               \* the writes that leave an UPDATE or DELETE to the commit
          Probes, Readies,    \* those to /health and to /health/ready
          Tasks, TaskOf,      \* the tasks, and the one that serves each request
          Rows, NoRow,        \* the rows that writes lock
          Threads,            \* the size of a task's thread pool
          Connections         \* how many connections an engine opens at most

Requests == Reads \cup Writes \cup Probes \cup Readies
Sessions == Reads \cup Writes

ASSUME KindsAssumption ==
    /\ IsFiniteSet(Requests) /\ Late \subseteq Writes
    /\ Reads \cap Writes = {} /\ Sessions \cap (Probes \cup Readies) = {}
    /\ Probes \cap Readies = {}
ASSUME TasksAssumption == TaskOf \in [Requests -> Tasks]
ASSUME RowsAssumption == NoRow \notin Rows
ASSUME SizesAssumption == Threads \in Nat \ {0} /\ Connections \in Nat \ {0}

Engines == {"writer", "reader"}

VARIABLES pc,         \* how far each request has got
          engine,     \* the engine it uses
          connected,  \* the requests that have a connection
          locks,      \* the rows that the transaction of each has locked
          wants,      \* the row its next statement needs, or NoRow
          outcome     \* how its handler, or what came before it, ended

poolVars == <<pc, engine, connected, locks, wants, outcome>>

\* The stages in which a request has a thread.
InThread == {"waiting", "running", "locking"}
InFlight == {"opening", "queued", "reply", "closing", "committing"} \cup InThread

PoolTypeOK ==
    /\ pc \in [Requests -> {"new", "settled"} \cup InFlight]
    /\ engine \in [Requests -> Engines]
    /\ connected \subseteq Requests
    /\ locks \in [Requests -> SUBSET Rows]
    /\ wants \in [Requests -> Rows \cup {NoRow}]
    /\ outcome \in [Requests -> {"none", "answer", "error", "raised", "lost"}]

\* get_db: a reading method gets a session of the reader.
PoolInit ==
    /\ pc = [r \in Requests |-> "new"]
    /\ engine = [r \in Requests |-> IF r \in Reads THEN "reader" ELSE "writer"]
    /\ connected = {}
    /\ locks = [r \in Requests |-> {}]
    /\ wants = [r \in Requests |-> NoRow]
    /\ outcome = [r \in Requests |-> "none"]
-----------------------------------------------------------------------------
At(t, stages) == {r \in Requests : TaskOf[r] = t /\ pc[r] \in stages}

\* A commit that waits occupies the event loop of its task, which also starts
\* what runs in a thread and takes note of its end.
LoopFree(t) == At(t, {"committing"}) = {}
OnLoop(r)   == LoopFree(TaskOf[r])

ThreadFree(t) == Cardinality(At(t, InThread)) < Threads

Pool(t, e) == {r \in connected : TaskOf[r] = t /\ engine[r] = e}

ConnectionFree(r) == Cardinality(Pool(TaskOf[r], engine[r])) < Connections

\* r waits for a row that q has locked.
WaitsFor(r, q) == q # r /\ pc[r] \in {"locking", "committing"} /\ wants[r] \in locks[q]
RowFree(r)     == ~ \E q \in Requests : WaitsFor(r, q)

\* r is in a set of requests that all wait for one another.
Blocked       == {r \in Requests : ~ RowFree(r)}
Deadlocked(r) == \E S \in SUBSET Blocked : r \in S /\ \A q \in S : \E s \in S : WaitsFor(q, s)

Goto(r, stage) == pc' = [pc EXCEPT ![r] = stage]
Ends(r, how)   == outcome' = [outcome EXCEPT ![r] = how]
-----------------------------------------------------------------------------
Receive(r) ==
    /\ pc[r] = "new" /\ OnLoop(r)
    /\ Goto(r, IF r \in Sessions THEN "opening" ELSE "queued")
    /\ UNCHANGED <<engine, connected, locks, wants, outcome>>

\* get_db runs in a thread, which it has for a moment.  The session has no
\* connection yet.
OpenSession(r) ==
    /\ pc[r] = "opening" /\ OnLoop(r)
    /\ ThreadFree(TaskOf[r])
    /\ Goto(r, "queued")
    /\ UNCHANGED <<engine, connected, locks, wants, outcome>>

\* get_current_user or the validation of the body refuses the request.
Refuse(r) ==
    /\ pc[r] = "queued" /\ r \in Sessions /\ OnLoop(r)
    /\ Goto(r, "closing")
    /\ Ends(r, "error")
    /\ UNCHANGED <<engine, connected, locks, wants>>

\* The handler gets a thread.
StartHandler(r) ==
    /\ pc[r] = "queued" /\ OnLoop(r)
    /\ ThreadFree(TaskOf[r])
    /\ Goto(r, IF r \in Probes THEN "running" ELSE "waiting")
    /\ UNCHANGED <<engine, connected, locks, wants, outcome>>

\* The first statement checks a connection out.
Connect(r) ==
    /\ pc[r] = "waiting"
    /\ ConnectionFree(r)
    /\ Goto(r, "running")
    /\ connected' = connected \cup {r}
    /\ UNCHANGED <<engine, locks, wants, outcome>>

\* Mutant: the pool of the writer waits without a limit.
WaitForWriter(r) ==
    /\ pc[r] = "waiting" /\ engine[r] = "reader"
    /\ ~ ConnectionFree(r)
    /\ Goto(r, "running") /\ Ends(r, "raised")
    /\ UNCHANGED <<engine, connected, locks, wants>>

\* pool_timeout: the statement raises TimeoutError, which no exception handler
\* takes; health_ready notes the failure and tries the next engine.
PoolTimeout(r) ==
    /\ pc[r] = "waiting"
    /\ ~ ConnectionFree(r)
    /\ IF r \in Readies /\ engine[r] = "writer"
       THEN engine' = [engine EXCEPT ![r] = "reader"] /\ UNCHANGED <<pc, outcome>>
       ELSE Goto(r, "running") /\ Ends(r, "raised") /\ UNCHANGED engine
    /\ UNCHANGED <<connected, locks, wants>>

\* A handler sends a statement that locks a row: a FOR UPDATE, an UPDATE, or an
\* INSERT whose key another transaction may have.
Statement(r) ==
    /\ pc[r] = "running" /\ r \in Writes /\ outcome[r] = "none"
    /\ \E k \in Rows \ locks[r] : wants' = [wants EXCEPT ![r] = k]
    /\ Goto(r, "locking")
    /\ UNCHANGED <<engine, connected, locks, outcome>>

\* The row is free, or becomes free.
LockRow(r) ==
    /\ pc[r] = "locking"
    /\ RowFree(r)
    /\ locks' = [locks EXCEPT ![r] = @ \cup {wants[r]}]
    /\ wants' = [wants EXCEPT ![r] = NoRow]
    /\ Goto(r, "running")
    /\ UNCHANGED <<engine, connected, outcome>>

\* The handler returns, raises what an exception handler answers, or raises
\* something else.  Connection and locks stay with the session.  An UPDATE or
\* DELETE that nothing flushed is left to the commit.
FinishHandler(r) ==
    /\ pc[r] = "running" /\ r \in Sessions /\ OnLoop(r)
    /\ \E how \in IF outcome[r] = "raised" THEN {"raised"} ELSE {"answer", "error", "raised"} :
          /\ Ends(r, how)
          /\ Goto(r, IF how = "raised" THEN "closing" ELSE "reply")
    /\ \/ UNCHANGED wants
       \/ r \in Late /\ \E k \in Rows \ locks[r] : wants' = [wants EXCEPT ![r] = k]
    /\ UNCHANGED <<engine, connected, locks>>

\* /health needs nothing.
FinishProbe(r) ==
    /\ pc[r] = "running" /\ r \in Probes /\ OnLoop(r)
    /\ Goto(r, "settled")
    /\ Ends(r, "answer")
    /\ UNCHANGED <<engine, connected, locks, wants>>

\* health_ready returns the connection of one engine before it takes one of the
\* other.
CheckEngine(r) ==
    /\ pc[r] = "running" /\ r \in Readies
    /\ connected' = connected \ {r}
    /\ IF engine[r] = "writer"
       THEN /\ engine' = [engine EXCEPT ![r] = "reader"]
            /\ Goto(r, "waiting")
            /\ UNCHANGED outcome
       ELSE OnLoop(r) /\ Goto(r, "settled") /\ Ends(r, "answer") /\ UNCHANGED engine
    /\ UNCHANGED <<locks, wants>>

\* The response model is validated, or the exception handler runs, in a thread
\* again; a response that does not fit its model is an exception.
Respond(r) ==
    /\ pc[r] = "reply" /\ OnLoop(r)
    /\ ThreadFree(TaskOf[r])
    /\ Goto(r, "closing")
    /\ \/ UNCHANGED outcome
       \/ outcome[r] = "answer" /\ Ends(r, "raised")
    /\ UNCHANGED <<engine, connected, locks, wants>>

\* Mutant: the pool resets nothing (pool_reset_on_return None), and nobody rolls
\* back after an exception.
CloseUnreset(r) ==
    /\ connected' = connected \ {r}
    /\ locks' = [locks EXCEPT ![r] = IF outcome[r] = "raised" THEN @ ELSE {}]
    /\ wants' = [wants EXCEPT ![r] = NoRow]
    /\ Goto(r, "settled")
    /\ UNCHANGED <<engine, outcome>>

\* The session is closed: its connection goes back and its locks go.
CloseSession(r) ==
    /\ connected' = connected \ {r}
    /\ locks' = [locks EXCEPT ![r] = {}]
    /\ wants' = [wants EXCEPT ![r] = NoRow]
    /\ Goto(r, "settled")
    /\ UNCHANGED <<engine, outcome>>

\* What db.commit() sends, when the response is a success.
Unsent(r) == outcome[r] = "answer" /\ wants[r] # NoRow

\* Mutant: the middleware has no except clause.
FinishAnswered(r) ==
    /\ pc[r] = "closing" /\ OnLoop(r) /\ ~ Unsent(r)
    /\ IF outcome[r] = "raised"
       THEN Goto(r, "settled") /\ UNCHANGED <<engine, connected, locks, wants, outcome>>
       ELSE CloseSession(r)

\* _finish_db: rollback, or a commit with nothing to send, on a response and on
\* an exception.
FinishDb(r) == pc[r] = "closing" /\ OnLoop(r) /\ ~ Unsent(r) /\ CloseSession(r)

\* _finish_db: a commit that sends a statement first, on the event loop,
\* which waits for the row.
FlushAtCommit(r) ==
    /\ pc[r] = "closing" /\ OnLoop(r) /\ Unsent(r)
    /\ Goto(r, "committing")
    /\ UNCHANGED <<engine, connected, locks, wants, outcome>>

FinishCommit(r) == pc[r] = "committing" /\ RowFree(r) /\ CloseSession(r)

\* PostgreSQL aborts a transaction on a cycle of waits: its locks go, and the
\* statement, or the commit, raises.
BreakDeadlock(r) ==
    /\ Deadlocked(r)
    /\ \/ pc[r] = "committing" /\ CloseSession(r)
       \/ /\ pc[r] = "locking"
          /\ locks' = [locks EXCEPT ![r] = {}]
          /\ wants' = [wants EXCEPT ![r] = NoRow]
          /\ Goto(r, "running") /\ Ends(r, "raised")
          /\ UNCHANGED <<engine, connected>>

Serve(r) ==
    \/ OpenSession(r)   \/ StartHandler(r) \/ Connect(r)     \/ PoolTimeout(r)
    \/ Statement(r)     \/ LockRow(r)      \/ BreakDeadlock(r)
    \/ FinishHandler(r) \/ FinishProbe(r)  \/ CheckEngine(r) \/ Respond(r)
    \/ FinishDb(r)      \/ FlushAtCommit(r) \/ FinishCommit(r)

\* A task dies with the requests it serves, and another takes its place.
Replace(t) ==
    LET gone == At(t, InFlight) IN
    /\ gone # {}
    /\ pc' = [r \in Requests |-> IF r \in gone THEN "settled" ELSE pc[r]]
    /\ outcome' = [r \in Requests |-> IF r \in gone THEN "lost" ELSE outcome[r]]
    /\ connected' = connected \ gone
    /\ locks' = [r \in Requests |-> IF r \in gone THEN {} ELSE locks[r]]
    /\ wants' = [r \in Requests |-> IF r \in gone THEN NoRow ELSE wants[r]]
    /\ UNCHANGED engine

\* The target group's GET /health is dispatched by the event loop too.
Unhealthy(t) == ~ LoopFree(t) /\ Replace(t)

PoolNext ==
    \/ \E r \in Requests : Receive(r) \/ Refuse(r) \/ Serve(r)
    \/ \E t \in Tasks : Replace(t)

\* Whoever can go on does: queues are first come, first served, a statement
\* that waits for no row ends, and the pool's timeout expires.  That a row or the
\* event loop is ever free again is not assumed.  A task whose event loop stays
\* occupied fails its health checks and is replaced.
PoolFairness ==
    /\ \A r \in Requests : WF_poolVars(Serve(r))
    /\ \A t \in Tasks : WF_poolVars(Unhealthy(t))

PoolSpec == PoolInit /\ [][PoolNext]_poolVars /\ PoolFairness
-----------------------------------------------------------------------------
\* However a request ends (answered, refused, timed out, aborted or raised,
\* before or after its connection), its connection is back in the pool when it
\* has: what the pools lack is with requests in flight.
NoConnectionLeaks ==
    /\ \A r \in connected : pc[r] \in InFlight \ {"opening", "queued", "waiting"}
    /\ \A t \in Tasks, e \in Engines : Cardinality(Pool(t, e)) <= Connections

\* With every event loop free, nothing moves until a pool times out: whoever is
\* in flight waits for a thread, a connection or a row.
Standstill ==
    /\ \E r \in Requests : pc[r] \in InFlight
    /\ \A t \in Tasks : LoopFree(t)
    /\ \A r \in Requests :
          \/ pc[r] \in {"new", "settled"}
          \/ pc[r] \in {"opening", "queued", "reply"} /\ ~ ThreadFree(TaskOf[r])
          \/ pc[r] = "waiting" /\ ~ ConnectionFree(r)
          \/ pc[r] = "locking" /\ ~ RowFree(r) /\ ~ Deadlocked(r)

\* The service stands still only if some task has more requests in flight than
\* threads: as long as every request finds a thread, connections and rows come
\* free without a timeout.
StandstillNeedsCrowd ==
    Standstill => \E t \in Tasks : Cardinality(At(t, InFlight)) > Threads

\* A standstill is never for good: if an engine has no more connections than the
\* task has threads (30 and 40), somebody waits for a connection, and gives its
\* thread back when the pool times out.  With more connections than threads the
\* threads could all wait for rows, which have no timeout.
StandstillTimesOut ==
    Standstill /\ Connections <= Threads => \E r \in Requests : pc[r] = "waiting"

\* Every request that is received, /health included, is answered, fails, or is
\* lost with its task, however many there are: the pool's timeout ends each
\* standstill, and the health check a commit that waits on the event loop for
\* the row of a request that needs that loop.
EveryRequestEnds == \A r \in Requests : pc[r] \in InFlight ~> pc[r] = "settled"
=============================================================================
