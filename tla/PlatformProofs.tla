---------------------------- MODULE PlatformProofs ----------------------------
(***************************************************************************)
(* Theorems about what the service runs on: the deployments that bring its *)
(* schema and its releases (Migration), and the threads, connections and   *)
(* rows that its requests share (ServicePool).                             *)
(*                                                                         *)
(* Migration, for any deployments, releases and clients: between taking    *)
(* the advisory lock and the end of its transaction a migration is the     *)
(* only one that adds to the schema, so what it checked stays true until   *)
(* it commits; what is committed only grows, so what an exit code 0        *)
(* vouched for stays true for the service that is rolled.                  *)
(*                                                                         *)
(* ServicePool, for any requests, tasks, rows, threads and connections: a  *)
(* connection stays with a request only while the request is between its   *)
(* first statement and the end of its session, and only such a request has *)
(* rows.  So if every request finds a thread, those who have what others   *)
(* wait for all wait for rows themselves, which is a deadlock that         *)
(* PostgreSQL breaks; and if the threads are taken by requests that wait   *)
(* for rows, their connections are all the writer's pool has.              *)
(***************************************************************************)
EXTENDS Migration, ServicePool, FiniteSetTheorems, TLAPS

-----------------------------------------------------------------------------
\* Migration.

\* The stages past the lock.
Inside == {"check", "alter", "schema", "seed", "recheck", "commit"}

\* The advisory lock: it is held by whoever is past it, and by nobody else.
LockHeld == \A d \in Deployments : task[d] \in Inside <=> holder = d

\* What the transaction of d has added at each stage.
Added(d) ==
    CASE task[d] = "seed"                         -> [columns |-> release[d], seeds |-> 0]
      [] task[d] = "recheck"                      -> [columns |-> release[d], seeds |-> 1]
      [] task[d] = "commit" /\ columns = Absent   -> [columns |-> release[d], seeds |-> 1]
      [] task[d] = "commit" /\ columns # Absent   -> [columns |-> release[d], seeds |-> 0]
      [] OTHER                                    -> NoWork

\* The check of the schema is still true, and the work follows from it.
ChecksHold ==
    \A d \in Deployments :
        /\ task[d] = "alter" => columns # Absent
        /\ task[d] \in {"schema", "seed", "recheck"} => columns = Absent
        /\ work[d] = Added(d)

\* The schema and its seed data are there together.
SeededOnce == seeds = IF columns = Absent THEN 0 ELSE 1

InPlace(r) == columns # Absent /\ r \subseteq columns

\* What exit code 0 vouches for is in the database.
ExitsVouch ==
    /\ \A d \in Deployments : task[d] = "exit_0" => InPlace(release[d])
    /\ target # Absent => InPlace(target)
    /\ target = Absent => served = {}
    /\ \A r \in served : InPlace(r)

\* A pipeline starts its task once.
NotStarted == \A d \in Deployments : pipeline[d] = "pushed" => task[d] = "none"

IInv ==
    /\ TypeOK /\ LockHeld /\ ChecksHold /\ SeededOnce
    /\ ExitsVouch /\ NotStarted /\ NeverClash
-----------------------------------------------------------------------------
\* A set of added columns is no Absent.
LEMMA ColumnsArePresent == \A added \in SUBSET Columns : added # Absent
<1> QED
  BY AbsentAssumption DEF Columns

LEMMA ReleasesArePresent == Releases \subseteq SUBSET Columns /\ \A r \in Releases : r # Absent
<1> QED
  BY AbsentAssumption DEF Columns

LEMMA InitIInv == Init => IInv
<1> SUFFICES ASSUME Init PROVE IInv
  OBVIOUS
<1>1. TypeOK
  BY DEF Init, TypeOK, NoWork
<1>2. LockHeld
  BY AbsentAssumption DEF Init, LockHeld, Inside
<1>3. ChecksHold /\ SeededOnce
  BY DEF Init, ChecksHold, Added, SeededOnce
<1>4. ExitsVouch /\ NotStarted /\ NeverClash
  BY DEF Init, ExitsVouch, NotStarted, NeverClash
<1> QED
  BY <1>1, <1>2, <1>3, <1>4 DEF IInv
-----------------------------------------------------------------------------
\* A statement of d that keeps its transaction open: nobody else notices.
LEMMA StatementStep ==
    ASSUME IInv, NEW d \in Deployments,
           Check(d) \/ AddColumns(d) \/ LoadSeed(d) \/ Recheck(d)
    PROVE  IInv'
<1> USE ReleasesArePresent, ColumnsArePresent DEF IInv
<1>1. /\ task[d] \in Inside /\ holder = d
      /\ UNCHANGED <<columns, seeds, release, holder, pipeline, target, served, using>>
      /\ \E stage \in Inside :
            /\ task' = [task EXCEPT ![d] = stage]
            /\ stage \in {"schema", "seed", "recheck"} => columns = Absent
            /\ stage = "alter" => columns # Absent
            /\ \/ work' = work /\ work[d] = NoWork /\ stage \in {"schema", "alter"}
               \/ work' = work /\ stage = "commit" /\ columns = Absent
                  /\ work[d] = [columns |-> release[d], seeds |-> 1]
               \/ /\ work' = [work EXCEPT ![d] = [columns |-> release[d], seeds |-> 1]]
                  /\ stage = "recheck"
               \/ /\ work' = [work EXCEPT ![d] = [columns |-> release[d], seeds |-> 0]]
                  /\ stage = "commit" /\ columns # Absent
  BY DEF TypeOK, LockHeld, ChecksHold, Added, Inside, NoWork, Check, AddColumns, LoadSeed, Recheck,
         OnlyTask, Does, Exit
<1>2. TypeOK'
  BY <1>1 DEF TypeOK, Inside, Running, NoWork
<1>3. LockHeld'
  BY <1>1 DEF TypeOK, LockHeld, Inside
<1>4. ChecksHold'
  BY <1>1 DEF TypeOK, ChecksHold, Added, Inside
<1>5. SeededOnce' /\ ExitsVouch' /\ NotStarted' /\ NeverClash'
  BY <1>1 DEF TypeOK, SeededOnce, ExitsVouch, NotStarted, NeverClash, InPlace, Inside
<1> QED
  BY <1>2, <1>3, <1>4, <1>5

\* The lock is free for the next migration, which has added nothing.
LEMMA LockStep ==
    ASSUME IInv, NEW d \in Deployments, RunTask(d) \/ Lock(d)
    PROVE  IInv'
<1> USE DEF IInv, RunTask, Lock
<1>1. TypeOK'
  BY DEF TypeOK, Running
<1>2. LockHeld'
  BY AbsentAssumption DEF TypeOK, LockHeld, NotStarted, Inside
<1>3. ChecksHold'
  BY DEF TypeOK, ChecksHold, NotStarted, Added
<1>4. SeededOnce' /\ ExitsVouch' /\ NotStarted' /\ NeverClash'
  BY DEF TypeOK, SeededOnce, ExitsVouch, NotStarted, NeverClash, InPlace
<1> QED
  BY <1>1, <1>2, <1>3, <1>4

\* A transaction that ends without a commit leaves the lock to others, and its
\* task does not exit with 0.
LEMMA ExitStep ==
    ASSUME IInv, NEW d \in Deployments, Migrating(d), Exit(d, "failed")
    PROVE  IInv'
<1> USE DEF IInv, Exit
<1>1. TypeOK'
  BY DEF TypeOK, NoWork, Freed, Exits
<1>2. LockHeld'
  BY AbsentAssumption DEF TypeOK, LockHeld, Inside, Freed
<1>3. ChecksHold'
  BY DEF TypeOK, ChecksHold, Added
<1>4. SeededOnce' /\ ExitsVouch' /\ NotStarted' /\ NeverClash'
  BY DEF TypeOK, SeededOnce, ExitsVouch, NotStarted, NeverClash, InPlace, Migrating,
         Running
<1> QED
  BY <1>1, <1>2, <1>3, <1>4

\* schema.sql finds no schema, for only the holder of the lock could have created
\* one since the check.
LEMMA CreateSchemaStep ==
    ASSUME IInv, NEW d \in Deployments, CreateSchema(d)
    PROVE  IInv'
<1> USE ReleasesArePresent DEF IInv, CreateSchema, Does
<1>1. columns = Absent
  BY DEF ChecksHold
<1>2. TypeOK'
  BY <1>1 DEF TypeOK, Running
<1>3. LockHeld'
  BY <1>1 DEF TypeOK, LockHeld, Inside
<1>4. ChecksHold'
  BY <1>1 DEF TypeOK, ChecksHold, Added
<1>5. SeededOnce' /\ ExitsVouch' /\ NotStarted' /\ NeverClash'
  BY <1>1 DEF TypeOK, SeededOnce, ExitsVouch, NotStarted, NeverClash, InPlace
<1> QED
  BY <1>2, <1>3, <1>4, <1>5

\* What a commit does to the schema: it appears whole, or it grows.
LEMMA CommitChange ==
    ASSUME IInv, NEW d \in Deployments, Commit(d)
    PROVE  /\ columns' = IF columns = Absent THEN release[d] ELSE columns \cup release[d]
           /\ columns' \in SUBSET Columns
           /\ seeds' = 1
<1>1. task[d] = "commit" /\ release[d] \in SUBSET Columns /\ columns \in {Absent} \cup SUBSET Columns
  BY ReleasesArePresent DEF IInv, TypeOK, Commit
<1>2. work[d] = [columns |-> release[d], seeds |-> IF columns = Absent THEN 1 ELSE 0]
  BY <1>1 DEF IInv, ChecksHold, Added
<1>3. seeds = IF columns = Absent THEN 0 ELSE 1
  BY DEF IInv, SeededOnce
<1> QED
  BY <1>1, <1>2, <1>3 DEF Commit

LEMMA CommitStep ==
    ASSUME IInv, NEW d \in Deployments, Commit(d)
    PROVE  IInv'
<1> USE DEF IInv
<1>1. PICK how \in {"exit_0", "failed"} : task' = [task EXCEPT ![d] = how]
  BY DEF Commit
<1>2. /\ task[d] = "commit" /\ holder = d /\ holder' = Absent
      /\ work' = [work EXCEPT ![d] = NoWork]
      /\ UNCHANGED <<release, pipeline, target, served, using>>
  BY DEF Commit, LockHeld, Inside, Freed
<1>3. columns' \in SUBSET Columns /\ columns' # Absent /\ seeds' = 1
  BY CommitChange, ColumnsArePresent
<1>4. \A r : InPlace(r) => InPlace(r)'
  BY <1>3, CommitChange DEF InPlace
<1>5. InPlace(release[d])'
  BY <1>2, <1>3, CommitChange DEF InPlace
<1>6. TypeOK'
  BY <1>1, <1>2, <1>3 DEF TypeOK, NoWork, Exits
<1>7. LockHeld'
  BY <1>1, <1>2, AbsentAssumption DEF TypeOK, LockHeld, Inside
<1>8. ChecksHold'
  <2>1. \A e \in Deployments \ {d} : task[e] \notin Inside
    BY <1>2 DEF LockHeld
  <2> QED
    BY <1>1, <1>2, <2>1 DEF TypeOK, ChecksHold, Added, Inside
<1>9. SeededOnce' /\ NotStarted' /\ NeverClash'
  BY <1>1, <1>2, <1>3 DEF TypeOK, SeededOnce, NotStarted, NeverClash
<1>10. ExitsVouch'
  BY <1>1, <1>2, <1>4, <1>5 DEF TypeOK, ExitsVouch
<1> QED
  BY <1>6, <1>7, <1>8, <1>9, <1>10

\* The pipelines and the service; a service is rolled to what is in place.
LEMMA ServiceStep ==
    ASSUME IInv,
           \/ \E d \in Deployments : Roll(d) \/ Stable(d) \/ Stop(d)
           \/ \E c \in Clients : Begin(c) \/ End(c)
           \/ Settle
    PROVE  IInv'
<1> USE DEF IInv, Roll, Stable, Stop, Begin, End, Settle
<1>1. UNCHANGED <<columns, seeds, release, task, holder, work>>
  OBVIOUS
<1>2. TypeOK'
  BY <1>1 DEF TypeOK
<1>3. LockHeld' /\ ChecksHold' /\ SeededOnce' /\ NotStarted' /\ NeverClash'
  BY <1>1 DEF TypeOK, LockHeld, ChecksHold, Added, SeededOnce, NotStarted, NeverClash
<1>4. ExitsVouch'
  BY <1>1, ReleasesArePresent DEF TypeOK, ExitsVouch, InPlace
<1> QED
  BY <1>2, <1>3, <1>4

LEMMA StutterStep == IInv /\ UNCHANGED vars => IInv'
<1> QED
  BY DEF IInv, vars, TypeOK, LockHeld, ChecksHold, Added, SeededOnce, ExitsVouch, InPlace,
         NotStarted, NeverClash

LEMMA Inductive == IInv /\ [Next]_vars => IInv'
<1> SUFFICES ASSUME IInv, [Next]_vars PROVE IInv'
  OBVIOUS
<1>1. ASSUME NEW d \in Deployments, Migrate(d) PROVE IInv'
  BY <1>1, LockStep, StatementStep, CreateSchemaStep, CommitStep DEF Migrate
<1>2. ASSUME NEW d \in Deployments, RunTask(d) PROVE IInv'
  BY <1>2, LockStep
<1>3. ASSUME NEW d \in Deployments, Fail(d) PROVE IInv'
  BY <1>3, ExitStep DEF Fail
<1>4. CASE UNCHANGED vars
  BY <1>4, StutterStep
<1> QED
  BY <1>1, <1>2, <1>3, <1>4, ServiceStep DEF Next

LEMMA Invariance == Spec => []IInv
<1> QED
  BY InitIInv, Inductive, PTL DEF Spec
-----------------------------------------------------------------------------
\* Every variable keeps its type, for any deployments, releases and clients.
THEOREM TypeCorrect == Spec => []TypeOK
<1>1. IInv => TypeOK
  BY DEF IInv
<1> QED
  BY <1>1, Invariance, PTL

\* No migration runs schema.sql into a schema that is there, however many
\* pipelines overlap and wherever their tasks die (run_migration).
THEOREM MigrationsDoNotClash == Spec => []NeverClash
<1>1. IInv => NeverClash
  BY DEF IInv
<1> QED
  BY <1>1, Invariance, PTL

\* Whatever release serves, old or new, its columns are in the database and the
\* seed data was loaded once (deploy.yml: the service is updated after exit 0).
THEOREM ServiceFindsItsSchema == Spec => []ServedOnItsSchema
<1>1. IInv => ServedOnItsSchema
  BY DEF IInv, ExitsVouch, InPlace, SeededOnce, ServedOnItsSchema
<1> QED
  BY <1>1, Invariance, PTL

\* A step of the deployments is a step of the abstract history or leaves the
\* schema alone: only a commit changes what is on file.
LEMMA StepImplementsHistory == IInv /\ [Next]_vars => [History!Next]_<<columns, seeds>>
<1> SUFFICES ASSUME IInv, [Next]_vars PROVE [History!Next]_<<columns, seeds>>
  OBVIOUS
<1>1. ASSUME NEW d \in Deployments, Commit(d) PROVE History!Next
  <2>1. release[d] \in Releases
    BY DEF IInv, TypeOK
  <2>2. CASE columns = Absent
    BY <1>1, <2>1, <2>2, CommitChange DEF History!Next, History!Create
  <2>3. CASE columns # Absent
    <3>1. seeds = 1
      BY <2>3 DEF IInv, SeededOnce
    <3> QED
      BY <1>1, <2>1, <2>3, <3>1, CommitChange DEF History!Next, History!Grow
  <2> QED
    BY <2>2, <2>3
<1>2. CASE ~ \E d \in Deployments : Commit(d)
  BY <1>2 DEF Next, vars, Migrate, RunTask, Lock, Check, AddColumns, CreateSchema, LoadSeed,
     Recheck, Fail, Exit, Does, OnlyTask, Roll, Settle, Stable, Stop, Begin, End
<1> QED
  BY <1>1, <1>2

\* All deployments together do to the database what one migration at a time does:
\* the schema is created once, with its seed data, and then gains columns.
THEOREM ImplementsHistory == Spec => HistorySpec
<1>1. Init => History!Init
  BY DEF Init, History!Init
<1> QED
  BY <1>1, StepImplementsHistory, Invariance, PTL DEF Spec, HistorySpec, History!Spec
-----------------------------------------------------------------------------
\* ServicePool.

\* Probes neither wait for a connection nor have one.
ProbesKeepOff == \A r \in Probes : pc[r] # "waiting" /\ r \notin connected

\* Only a write that has a connection of the writer locks rows.
WritersHold ==
    \A r \in Requests :
        /\ r \in Writes => engine[r] = "writer"
        /\ locks[r] # {} => r \in Writes \cap connected
        /\ pc[r] = "locking" => r \in Writes \cap connected /\ wants[r] \in Rows
        /\ pc[r] = "running" /\ r \in Writes /\ outcome[r] = "none" => r \in connected

PoolInv == PoolTypeOK /\ NoConnectionLeaks /\ ProbesKeepOff /\ WritersHold
-----------------------------------------------------------------------------
LEMMA PoolFinite ==
    ASSUME PoolTypeOK, NEW t, NEW e
    PROVE  /\ Pool(t, e) \subseteq Requests
           /\ IsFiniteSet(Pool(t, e)) /\ Cardinality(Pool(t, e)) \in Nat
<1>1. Pool(t, e) \subseteq Requests /\ IsFiniteSet(Requests)
  BY KindsAssumption DEF PoolTypeOK, Pool
<1>2. IsFiniteSet(Pool(t, e))
  BY <1>1, FS_Subset
<1> QED
  BY <1>1, <1>2, FS_CardinalityType

LEMMA AtFinite ==
    ASSUME NEW t, NEW stages
    PROVE  IsFiniteSet(At(t, stages)) /\ Cardinality(At(t, stages)) \in Nat
<1>1. At(t, stages) \subseteq Requests /\ IsFiniteSet(Requests)
  BY KindsAssumption DEF At
<1>2. IsFiniteSet(At(t, stages))
  BY <1>1, FS_Subset
<1> QED
  BY <1>2, FS_CardinalityType

\* Connections that are given back, or keep their engine, overfill no pool.
LEMMA PoolShrinks ==
    ASSUME PoolTypeOK, NoConnectionLeaks, connected' \subseteq connected,
           \A r \in connected' : engine'[r] = engine[r]
    PROVE  \A t \in Tasks, e \in Engines : Cardinality(Pool(t, e)') <= Connections
<1> SUFFICES ASSUME NEW t \in Tasks, NEW e \in Engines
             PROVE  Cardinality(Pool(t, e)') <= Connections
  OBVIOUS
<1>1. IsFiniteSet(Pool(t, e)) /\ Cardinality(Pool(t, e)) \in Nat
  BY PoolFinite
<1>2. Pool(t, e)' \in SUBSET Pool(t, e)
  BY DEF Pool
<1>3. Cardinality(Pool(t, e)') <= Cardinality(Pool(t, e)) /\ IsFiniteSet(Pool(t, e)')
  BY <1>1, <1>2, FS_Subset
<1>4. Cardinality(Pool(t, e)') \in Nat
  BY <1>3, FS_CardinalityType
<1>5. Cardinality(Pool(t, e)) <= Connections /\ Connections \in Nat
  BY SizesAssumption DEF NoConnectionLeaks
<1> QED
  BY <1>1, <1>3, <1>4, <1>5

\* The one action that takes a connection finds room for it.
LEMMA ConnectFits ==
    ASSUME PoolTypeOK, NoConnectionLeaks, NEW r \in Requests, Connect(r)
    PROVE  \A t \in Tasks, e \in Engines : Cardinality(Pool(t, e)') <= Connections
<1> SUFFICES ASSUME NEW t \in Tasks, NEW e \in Engines
             PROVE  Cardinality(Pool(t, e)') <= Connections
  OBVIOUS
<1>1. IsFiniteSet(Pool(t, e)) /\ Cardinality(Pool(t, e)) \in Nat
  BY PoolFinite
<1>2. Connections \in Nat /\ Cardinality(Pool(t, e)) <= Connections
  BY SizesAssumption DEF NoConnectionLeaks
<1>3. engine' = engine /\ connected' = connected \cup {r}
  BY DEF Connect
<1>4. CASE TaskOf[r] = t /\ engine[r] = e
  <2>1. Pool(t, e)' = Pool(t, e) \cup {r}
    BY <1>3, <1>4 DEF Pool
  <2>2. Cardinality(Pool(t, e)) < Connections
    BY <1>4 DEF Connect, ConnectionFree
  <2>3. Cardinality(Pool(t, e) \cup {r}) =
          IF r \in Pool(t, e) THEN Cardinality(Pool(t, e)) ELSE Cardinality(Pool(t, e)) + 1
    BY <1>1, FS_AddElement
  <2> QED
    BY <1>1, <1>2, <2>1, <2>2, <2>3
<1>5. CASE ~ (TaskOf[r] = t /\ engine[r] = e)
  <2>1. Pool(t, e)' = Pool(t, e)
    BY <1>3, <1>5 DEF Pool
  <2> QED
    BY <1>2, <2>1
<1> QED
  BY <1>4, <1>5
-----------------------------------------------------------------------------
LEMMA PoolInitInv == PoolInit => PoolInv
<1> SUFFICES ASSUME PoolInit PROVE PoolInv
  OBVIOUS
<1>1. PoolTypeOK /\ ProbesKeepOff
  BY DEF PoolInit, PoolTypeOK, ProbesKeepOff, Engines, Requests, Sessions
<1>2. WritersHold
  BY KindsAssumption DEF PoolInit, WritersHold, Requests
<1>3. \A t, e : Pool(t, e) = {}
  BY DEF PoolInit, Pool
<1>4. NoConnectionLeaks
  BY <1>3, FS_EmptySet, SizesAssumption DEF PoolInit, NoConnectionLeaks
<1> QED
  BY <1>1, <1>2, <1>4 DEF PoolInv

\* A request moves through its stages and takes no connection and no row.
LEMMA StageStep ==
    ASSUME PoolInv, NEW r \in Requests,
           Receive(r) \/ OpenSession(r) \/ Refuse(r) \/ StartHandler(r) \/ Statement(r)
             \/ FinishHandler(r) \/ FinishProbe(r) \/ Respond(r) \/ FlushAtCommit(r)
    PROVE  PoolInv'
<1> USE DEF PoolInv, Requests, Sessions, Goto, Ends
<1>1. connected' = connected /\ engine' = engine /\ locks' = locks
  BY DEF Receive, OpenSession, Refuse, StartHandler, Statement, FinishHandler, FinishProbe,
         Respond, FlushAtCommit
<1>2. PoolTypeOK'
  BY <1>1 DEF PoolTypeOK, Receive, OpenSession, Refuse, StartHandler, Statement, FinishHandler,
              FinishProbe, Respond, FlushAtCommit, InFlight, InThread
<1>3. ProbesKeepOff'
  BY <1>1, KindsAssumption DEF PoolTypeOK, ProbesKeepOff, Receive, OpenSession, Refuse,
     StartHandler, Statement, FinishHandler, FinishProbe, Respond, FlushAtCommit
<1>4. WritersHold'
  BY <1>1, KindsAssumption DEF PoolTypeOK, WritersHold, Receive, OpenSession, Refuse,
     StartHandler, Statement, FinishHandler, FinishProbe, Respond, FlushAtCommit
<1>5. \A q \in connected' : pc'[q] \in InFlight \ {"opening", "queued", "waiting"}
  BY <1>1, KindsAssumption DEF PoolTypeOK, NoConnectionLeaks, ProbesKeepOff, Receive, OpenSession,
     Refuse, StartHandler, Statement, FinishHandler, FinishProbe, Respond, FlushAtCommit,
     InFlight, InThread
<1>6. \A t \in Tasks, e \in Engines : Cardinality(Pool(t, e)') <= Connections
  BY <1>1, PoolShrinks
<1> QED
  BY <1>2, <1>3, <1>4, <1>5, <1>6 DEF NoConnectionLeaks

LEMMA ConnectStep ==
    ASSUME PoolInv, NEW r \in Requests, Connect(r)
    PROVE  PoolInv'
<1> USE DEF PoolInv, Requests, Sessions, Connect, Goto
<1>1. PoolTypeOK' /\ ProbesKeepOff'
  BY DEF PoolTypeOK, ProbesKeepOff, InFlight, InThread
<1>2. WritersHold'
  BY DEF PoolTypeOK, WritersHold
<1>3. \A q \in connected' : pc'[q] \in InFlight \ {"opening", "queued", "waiting"}
  BY DEF PoolTypeOK, NoConnectionLeaks, InFlight, InThread
<1>4. \A t \in Tasks, e \in Engines : Cardinality(Pool(t, e)') <= Connections
  BY ConnectFits
<1> QED
  BY <1>1, <1>2, <1>3, <1>4 DEF NoConnectionLeaks

\* A statement that waited for a row gets it, or is the victim of a deadlock.
LEMMA RowStep ==
    ASSUME PoolInv, NEW r \in Requests, pc[r] = "locking", LockRow(r) \/ BreakDeadlock(r)
    PROVE  PoolInv'
<1> USE DEF PoolInv, Requests, LockRow, BreakDeadlock, Goto, Ends
<1>1. connected' = connected /\ engine' = engine
  OBVIOUS
<1>2. r \in Writes /\ r \in connected /\ wants[r] \in Rows
  BY DEF WritersHold
<1>3. PoolTypeOK'
  BY <1>1, <1>2 DEF PoolTypeOK, InFlight, InThread
<1>4. ProbesKeepOff'
  BY <1>1 DEF PoolTypeOK, ProbesKeepOff
<1>5. WritersHold'
  BY <1>1, <1>2 DEF PoolTypeOK, WritersHold
<1>6. \A q \in connected' : pc'[q] \in InFlight \ {"opening", "queued", "waiting"}
  BY <1>1 DEF PoolTypeOK, NoConnectionLeaks, InFlight, InThread
<1>7. \A t \in Tasks, e \in Engines : Cardinality(Pool(t, e)') <= Connections
  BY <1>1, PoolShrinks
<1> QED
  BY <1>3, <1>4, <1>5, <1>6, <1>7 DEF NoConnectionLeaks

\* A request gives its connection back, or gives up waiting for one.
LEMMA ReleaseStep ==
    ASSUME PoolInv, NEW r \in Requests, PoolTimeout(r) \/ CheckEngine(r) \/ CloseSession(r)
    PROVE  PoolInv'
<1> USE DEF PoolInv, Requests, Sessions, PoolTimeout, CheckEngine, CloseSession, Goto, Ends
<1>1. pc[r] = "waiting" => r \notin connected
  BY DEF NoConnectionLeaks
<1>2. /\ connected' \subseteq connected
      /\ \A q \in connected' : engine'[q] = engine[q]
  BY <1>1 DEF PoolTypeOK
<1>3. PoolTypeOK'
  BY DEF PoolTypeOK, InFlight, InThread, Engines
<1>4. ProbesKeepOff'
  BY KindsAssumption DEF PoolTypeOK, ProbesKeepOff
<1>5. WritersHold'
  BY <1>1, KindsAssumption DEF PoolTypeOK, WritersHold
<1>6. \A q \in connected' : pc'[q] \in InFlight \ {"opening", "queued", "waiting"}
  BY <1>1 DEF PoolTypeOK, NoConnectionLeaks
<1>7. \A t \in Tasks, e \in Engines : Cardinality(Pool(t, e)') <= Connections
  BY <1>2, PoolShrinks
<1> QED
  BY <1>3, <1>4, <1>5, <1>6, <1>7 DEF NoConnectionLeaks

\* What a task had goes with it.
LEMMA ReplaceStep ==
    ASSUME PoolInv, NEW t \in Tasks, Replace(t)
    PROVE  PoolInv'
<1> USE DEF PoolInv, Replace
<1>1. connected' \subseteq connected /\ engine' = engine
  OBVIOUS
<1>2. PoolTypeOK'
  BY DEF PoolTypeOK
<1>3. ProbesKeepOff' /\ WritersHold'
  BY DEF PoolTypeOK, ProbesKeepOff, WritersHold, Requests
<1>4. \A q \in connected' : pc'[q] \in InFlight \ {"opening", "queued", "waiting"}
  BY DEF PoolTypeOK, NoConnectionLeaks
<1>5. \A u \in Tasks, e \in Engines : Cardinality(Pool(u, e)') <= Connections
  BY <1>1, PoolShrinks
<1> QED
  BY <1>2, <1>3, <1>4, <1>5 DEF NoConnectionLeaks

LEMMA PoolStutterStep ==
    ASSUME PoolInv, UNCHANGED poolVars
    PROVE  PoolInv'
<1>1. PoolTypeOK' /\ ProbesKeepOff' /\ WritersHold'
  BY DEF PoolInv, PoolTypeOK, ProbesKeepOff, WritersHold, poolVars
<1>2. NoConnectionLeaks'
  BY DEF PoolInv, NoConnectionLeaks, Pool, poolVars
<1> QED
  BY <1>1, <1>2 DEF PoolInv

LEMMA PoolInductive == PoolInv /\ [PoolNext]_poolVars => PoolInv'
<1> SUFFICES ASSUME PoolInv, [PoolNext]_poolVars PROVE PoolInv'
  OBVIOUS
<1>1. CASE UNCHANGED poolVars
  BY <1>1, PoolStutterStep
<1>2. ASSUME NEW t \in Tasks, Replace(t) PROVE PoolInv'
  BY <1>2, ReplaceStep
<1>3. ASSUME NEW r \in Requests, Receive(r) \/ Refuse(r) \/ Serve(r) PROVE PoolInv'
  <2>1. CASE Connect(r)
    BY <2>1, ConnectStep
  <2>2. CASE LockRow(r) \/ (pc[r] = "locking" /\ BreakDeadlock(r))
    <3>1. pc[r] = "locking"
      BY <2>2 DEF LockRow
    <3> QED
      BY <2>2, <3>1, RowStep
  <2>3. CASE PoolTimeout(r) \/ CheckEngine(r) \/ CloseSession(r)
    BY <2>3, ReleaseStep
  <2>4. CASE Receive(r) \/ OpenSession(r) \/ Refuse(r) \/ StartHandler(r) \/ Statement(r)
               \/ FinishHandler(r) \/ FinishProbe(r) \/ Respond(r) \/ FlushAtCommit(r)
    BY <2>4, StageStep
  <2>5. FinishDb(r) \/ FinishCommit(r) \/ (pc[r] # "locking" /\ BreakDeadlock(r)) => CloseSession(r)
    BY DEF FinishDb, FinishCommit, BreakDeadlock
  <2> QED
    BY <1>3, <2>1, <2>2, <2>3, <2>4, <2>5 DEF Serve
<1> QED
  BY <1>1, <1>2, <1>3 DEF PoolNext

LEMMA PoolInvariance == PoolSpec => []PoolInv
<1> QED
  BY PoolInitInv, PoolInductive, PTL DEF PoolSpec
-----------------------------------------------------------------------------
\* If nothing moves and whoever has a row waits for one, all who wait for rows
\* wait for one another: PostgreSQL would abort one of them.
LEMMA HoldersDoNotAllWait ==
    ASSUME PoolInv, Standstill, \A r \in Requests : locks[r] # {} => pc[r] = "locking"
    PROVE  \A r \in Requests : pc[r] # "locking"
<1> DEFINE lockers == {r \in Requests : pc[r] = "locking"}
<1>1. \A r \in lockers : ~ RowFree(r) /\ ~ Deadlocked(r)
  BY DEF Standstill
<1>2. \A q \in lockers : \E s \in lockers : WaitsFor(q, s)
  BY <1>1 DEF RowFree, WaitsFor
<1>3. lockers \in SUBSET Blocked
  BY <1>1 DEF Blocked
<1>4. \A r \in lockers : Deadlocked(r)
  BY <1>2, <1>3 DEF Deadlocked
<1> QED
  BY <1>1, <1>4

\* Who waits for a thread is in flight, with those who have the threads.
LEMMA ThreadWaitersCrowd ==
    ASSUME NEW r \in Requests, pc[r] \in {"opening", "queued", "reply"}, ~ ThreadFree(TaskOf[r])
    PROVE  TaskOf[r] \in Tasks /\ Cardinality(At(TaskOf[r], InFlight)) > Threads
<1> DEFINE t == TaskOf[r]
           busy == At(t, InThread)
           crowd == At(t, InFlight)
<1>1. t \in Tasks
  BY TasksAssumption
<1>2. /\ IsFiniteSet(busy) /\ Cardinality(busy) \in Nat
      /\ IsFiniteSet(crowd) /\ Cardinality(crowd) \in Nat
  BY AtFinite
<1>3. r \notin busy /\ busy \cup {r} \in SUBSET crowd
  BY DEF At, InThread, InFlight
<1>4. Cardinality(busy \cup {r}) = Cardinality(busy) + 1
  BY <1>2, <1>3, FS_AddElement
<1>5. Cardinality(busy \cup {r}) <= Cardinality(crowd)
  BY <1>2, <1>3, FS_Subset
<1>6. Cardinality(busy) >= Threads
  BY <1>2, SizesAssumption DEF ThreadFree
<1> HIDE DEF t, busy, crowd
<1>7. Cardinality(crowd) > Threads
  BY <1>2, <1>4, <1>5, <1>6, SizesAssumption
<1> QED
  BY <1>1, <1>7 DEF crowd, t

\* If every request finds a thread, who has a connection can only wait for a row,
\* so nobody does, and nobody has a connection that another waits for.
LEMMA StandstillIsCrowded == PoolInv => StandstillNeedsCrowd
<1> SUFFICES ASSUME PoolInv, Standstill,
                    ~ \E t \in Tasks : Cardinality(At(t, InFlight)) > Threads
             PROVE  FALSE
  BY DEF StandstillNeedsCrowd
<1>1. \A r \in Requests : pc[r] \in {"new", "settled", "waiting", "locking"}
  BY ThreadWaitersCrowd DEF Standstill
<1>2. \A r \in connected : pc[r] = "locking"
  BY <1>1 DEF PoolInv, PoolTypeOK, NoConnectionLeaks, InFlight, InThread
<1>3. \A r \in Requests : pc[r] # "locking"
  BY <1>2, HoldersDoNotAllWait DEF PoolInv, WritersHold
<1>4. \A t, e : Pool(t, e) = {}
  BY <1>2, <1>3 DEF PoolInv, PoolTypeOK, Pool
<1>5. PICK r \in Requests : pc[r] = "waiting"
  BY <1>1, <1>3 DEF Standstill, InFlight, InThread
<1>6. ~ ConnectionFree(r)
  BY <1>5 DEF Standstill
<1> QED
  BY <1>4, <1>6, FS_EmptySet, SizesAssumption DEF ConnectionFree

\* If nobody waits for a connection, those who have the threads of a full task
\* wait for rows, with every connection of its writer: none is left for one who
\* has a row and waits for a thread.
LEMMA FullTask ==
    ASSUME PoolInv, Standstill, Connections <= Threads,
           \A r \in Requests : pc[r] # "waiting",
           NEW t \in Tasks, ~ ThreadFree(t)
    PROVE  /\ At(t, InThread) = Pool(t, "writer")
           /\ \E r \in Requests : pc[r] = "locking"
<1> DEFINE busy == At(t, InThread)
           pool == Pool(t, "writer")
<1>1. /\ IsFiniteSet(busy) /\ Cardinality(busy) \in Nat
      /\ IsFiniteSet(pool) /\ Cardinality(pool) \in Nat
  BY AtFinite, PoolFinite DEF PoolInv
<1>2. \A r \in busy : pc[r] = "locking"
  BY DEF At, InThread, Standstill
<1>3. busy \in SUBSET pool
  BY <1>2 DEF At, Pool, PoolInv, WritersHold
<1>4. Cardinality(busy) >= Threads /\ Cardinality(pool) <= Connections
  BY <1>1, SizesAssumption DEF ThreadFree, PoolInv, NoConnectionLeaks, Engines
<1>5. Cardinality(busy) <= Cardinality(pool) /\ (Cardinality(busy) = Cardinality(pool) => busy = pool)
  BY <1>1, <1>3, FS_Subset
<1>6. busy # {}
  BY <1>4, FS_EmptySet, SizesAssumption
<1>7. \E r \in Requests : pc[r] = "locking"
  BY <1>2, <1>6 DEF At
<1> HIDE DEF busy, pool
<1>8. busy = pool
  BY <1>1, <1>4, <1>5, SizesAssumption
<1> QED
  BY <1>7, <1>8 DEF busy, pool

\* So nobody who has a row waits for a thread, and nobody waits for rows at all.
LEMMA StandstillHasWaiter == PoolInv => StandstillTimesOut
<1> SUFFICES ASSUME PoolInv, Standstill, Connections <= Threads,
                    \A r \in Requests : pc[r] # "waiting"
             PROVE  FALSE
  BY DEF StandstillTimesOut
<1>1. \A r \in Requests : locks[r] # {} => pc[r] = "locking"
  <2> SUFFICES ASSUME NEW r \in Requests, locks[r] # {}, pc[r] # "locking"
               PROVE  FALSE
    OBVIOUS
  <2>1. r \in connected /\ engine[r] = "writer"
    BY DEF PoolInv, WritersHold
  <2>2. pc[r] = "reply" /\ ~ ThreadFree(TaskOf[r])
    BY <2>1 DEF PoolInv, PoolTypeOK, NoConnectionLeaks, InFlight, InThread, Standstill
  <2>3. r \in Pool(TaskOf[r], "writer") /\ r \notin At(TaskOf[r], InThread)
    BY <2>1, <2>2 DEF Pool, At, InThread
  <2> QED
    BY <2>2, <2>3, FullTask, TasksAssumption
<1>2. \A r \in Requests : pc[r] # "locking"
  BY <1>1, HoldersDoNotAllWait
<1>3. PICK r \in Requests : pc[r] \in {"opening", "queued", "reply"} /\ ~ ThreadFree(TaskOf[r])
  BY <1>2 DEF Standstill, InFlight, InThread
<1> QED
  BY <1>2, <1>3, FullTask, TasksAssumption
-----------------------------------------------------------------------------
\* Every variable keeps its type, for any numbers of requests, tasks, rows,
\* threads and connections.
THEOREM PoolTypeCorrect == PoolSpec => []PoolTypeOK
<1>1. PoolInv => PoolTypeOK
  BY DEF PoolInv
<1> QED
  BY <1>1, PoolInvariance, PTL

\* Whatever way requests end (_finish_db on every path of db_transaction), only
\* requests in flight have connections, and no pool gives out more than it has.
THEOREM ConnectionsReturn == PoolSpec => []NoConnectionLeaks
<1>1. PoolInv => NoConnectionLeaks
  BY DEF PoolInv
<1> QED
  BY <1>1, PoolInvariance, PTL

\* The service stands still only if some task has more requests in flight than
\* threads (40 in the code), whatever connections and rows the requests need.
THEOREM SmallLoadsMove == PoolSpec => []StandstillNeedsCrowd
<1> QED
  BY StandstillIsCrowded, PoolInvariance, PTL

\* With no more connections to an engine than threads (30 and 40 in the code), in
\* every standstill somebody waits for a connection, which pool_timeout ends.
THEOREM StandstillsEnd == PoolSpec => []StandstillTimesOut
<1> QED
  BY StandstillHasWaiter, PoolInvariance, PTL
==============================================================================
