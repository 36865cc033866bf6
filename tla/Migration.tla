----------------------------- MODULE Migration -----------------------------
(***************************************************************************)
(* Deployments: each push starts a pipeline that runs setup_db as a task   *)
(* of its own and then rolls the service.  Pipelines overlap, for nothing  *)
(* orders the pushes; their migrations meet in the database.               *)
(*                                                                         *)
(* A migration is one transaction under an advisory lock.  It creates the  *)
(* schema and loads the seed data, or it adds the columns that later       *)
(* releases brought, which takes the table away from the requests the      *)
(* service is serving.  DDL is transactional: until the commit nobody else *)
(* sees any of it.                                                         *)
(***************************************************************************)
EXTENDS Naturals, FiniteSets

CONSTANTS Deployments,  \* the pipelines
          Releases,     \* what can be deployed: the columns it adds
          Clients,      \* the transactions of the service that use the table
          Absent        \* there is no schema

ASSUME AbsentAssumption ==
    Absent \notin Deployments /\ \A added \in SUBSET UNION Releases : added # Absent

VARIABLES columns, seeds,  \* the committed schema, and how often it was seeded
          release,         \* what each pipeline deploys
          task,            \* how far its migration has got
          holder,          \* the migration that has the advisory lock
          work,            \* what its transaction has added
          pipeline,        \* how far the pipeline itself has got
          target, served,  \* the release the service is to run, and those it runs
          using            \* the transactions of the service on the table

vars == <<columns, seeds, release, task, holder, work, pipeline, target, served, using>>

Columns == UNION Releases

\* The stages of the migration task, and how it exits.
Running == {"lock", "check", "alter", "schema", "seed", "recheck", "commit"}
Exits   == {"exit_0", "clash", "failed"}

Migrating(d) == task[d] \in Running

TypeOK ==
    /\ columns \in {Absent} \cup SUBSET Columns
    /\ seeds \in Nat
    /\ release \in [Deployments -> Releases]
    /\ task \in [Deployments -> {"none"} \cup Running \cup Exits]
    /\ holder \in Deployments \cup {Absent}
    /\ work \in [Deployments -> [columns : {Absent} \cup SUBSET Columns, seeds : Nat]]
    /\ pipeline \in [Deployments -> {"pushed", "migrating", "rolling", "rolled", "stopped"}]
    /\ target \in Releases \cup {Absent}
    /\ served \subseteq Releases
    /\ using \subseteq Clients

NoWork == [columns |-> Absent, seeds |-> 0]

Init ==
    /\ columns = Absent /\ seeds = 0
    /\ release \in [Deployments -> Releases]
    /\ task = [d \in Deployments |-> "none"]
    /\ holder = Absent
    /\ work = [d \in Deployments |-> NoWork]
    /\ pipeline = [d \in Deployments |-> "pushed"]
    /\ target = Absent /\ served = {}
    /\ using = {}
-----------------------------------------------------------------------------
OnlyTask(d, stage) ==
    /\ task' = [task EXCEPT ![d] = stage]
    /\ UNCHANGED <<columns, seeds, release, holder, work, pipeline, target, served, using>>

\* The statement of d at this stage does its work and the next one follows.
Does(d, added, stage) ==
    /\ work' = [work EXCEPT ![d] = added]
    /\ task' = [task EXCEPT ![d] = stage]
    /\ UNCHANGED <<columns, seeds, release, holder, pipeline, target, served, using>>

Freed(d) == IF holder = d THEN Absent ELSE holder

\* Mutant: the connection of a migration that failed is not closed.
ExitConnected(d, how) ==
    /\ work' = [work EXCEPT ![d] = NoWork]
    /\ task' = [task EXCEPT ![d] = how]
    /\ UNCHANGED <<columns, seeds, release, holder, pipeline, target, served, using>>

\* The transaction of d ends without a commit: what it added and its lock are
\* gone, and the task exits with an error.
Exit(d, how) ==
    /\ work' = [work EXCEPT ![d] = NoWork]
    /\ holder' = Freed(d)
    /\ task' = [task EXCEPT ![d] = how]
    /\ UNCHANGED <<columns, seeds, release, pipeline, target, served, using>>

\* The migrations that have altered the table, or are queueing for it.
Altering == {d \in Deployments : task[d] = "alter" \/ (task[d] = "commit" /\ columns # Absent)}
-----------------------------------------------------------------------------
\* The pipeline runs the task and waits for it to stop.
RunTask(d) ==
    /\ pipeline[d] = "pushed"
    /\ pipeline' = [pipeline EXCEPT ![d] = "migrating"]
    /\ task' = [task EXCEPT ![d] = "lock"]
    /\ UNCHANGED <<columns, seeds, release, holder, work, target, served, using>>

\* Mutant: the lock is not taken.
LockNothing(d) == task[d] = "lock" /\ OnlyTask(d, "check")

\* pg_advisory_xact_lock: one transaction at a time gets past it.
Lock(d) ==
    /\ task[d] = "lock"
    /\ holder = Absent
    /\ holder' = d
    /\ task' = [task EXCEPT ![d] = "check"]
    /\ UNCHANGED <<columns, seeds, release, work, pipeline, target, served, using>>

\* _schema_is_populated, which sees what is committed when it runs.
Check(d) ==
    /\ task[d] = "check"
    /\ OnlyTask(d, IF columns = Absent THEN "schema" ELSE "alter")

\* _apply_column_additions: ALTER TABLE waits for every transaction on the table.
AddColumns(d) ==
    /\ task[d] = "alter"
    /\ using = {}
    /\ \A e \in Altering \ {d} : task[e] = "alter"
    /\ Does(d, [columns |-> release[d], seeds |-> 0], "commit")

\* Mutant: autocommit is left on, and a script is kept as soon as it has run.
CreateSchemaAtOnce(d) ==
    /\ task[d] = "schema"
    /\ IF columns # Absent THEN Exit(d, "clash")
       ELSE /\ columns' = release[d]
            /\ work' = [work EXCEPT ![d] = [columns |-> release[d], seeds |-> 0]]
            /\ task' = [task EXCEPT ![d] = "seed"]
            /\ UNCHANGED <<seeds, release, holder, pipeline, target, served, using>>

\* schema.sql: it waits for a schema another transaction is creating, and fails
\* on one that is there.
CreateSchema(d) ==
    /\ task[d] = "schema"
    /\ columns = Absent => \A e \in Deployments \ {d} : work[e] = NoWork
    /\ IF columns # Absent THEN Exit(d, "clash")
       ELSE Does(d, [columns |-> release[d], seeds |-> 0], "seed")

\* seed_data.sql
LoadSeed(d) ==
    /\ task[d] = "seed"
    /\ Does(d, [work[d] EXCEPT !.seeds = @ + 1], "recheck")

\* The second _schema_is_populated sees what the transaction created.
Recheck(d) ==
    /\ task[d] = "recheck"
    /\ IF work[d].columns = Absent THEN Exit(d, "failed") ELSE OnlyTask(d, "commit")

\* conn.commit(), which also frees the advisory lock.  The answer may be lost:
\* the task then exits with an error although the migration is in.
Commit(d) ==
    /\ task[d] = "commit"
    /\ columns' = IF columns = Absent THEN work[d].columns ELSE columns \cup work[d].columns
    /\ seeds' = seeds + work[d].seeds
    /\ work' = [work EXCEPT ![d] = NoWork]
    /\ holder' = Freed(d)
    /\ task' \in {[task EXCEPT ![d] = how] : how \in {"exit_0", "failed"}}
    /\ UNCHANGED <<release, pipeline, target, served, using>>

\* A statement or the task fails; conn.rollback(), or the lost connection,
\* undoes the transaction.
Fail(d) == Migrating(d) /\ Exit(d, "failed")

-----------------------------------------------------------------------------
\* Mutant: the service is rolled when the task has stopped, however it exited.
RollAnyway(d) ==
    /\ pipeline[d] = "migrating"
    /\ task[d] \in Exits
    /\ pipeline' = [pipeline EXCEPT ![d] = "rolling"]
    /\ target' = release[d]
    /\ served' = served \cup {release[d]}
    /\ UNCHANGED <<columns, seeds, release, task, holder, work, using>>

\* After exit code 0, update-service: tasks of the new release start beside
\* those that run.
Roll(d) ==
    /\ pipeline[d] = "migrating"
    /\ task[d] = "exit_0"
    /\ pipeline' = [pipeline EXCEPT ![d] = "rolling"]
    /\ target' = release[d]
    /\ served' = served \cup {release[d]}
    /\ UNCHANGED <<columns, seeds, release, task, holder, work, using>>

\* ECS stops the tasks of other releases than the one it was asked for last.
Settle ==
    /\ served # {target} /\ target # Absent
    /\ served' = {target}
    /\ UNCHANGED <<columns, seeds, release, task, holder, work, pipeline, target, using>>

\* services-stable, after which the pipeline is green.
Stable(d) ==
    /\ pipeline[d] = "rolling"
    /\ served = {target}
    /\ pipeline' = [pipeline EXCEPT ![d] = "rolled"]
    /\ UNCHANGED <<columns, seeds, release, task, holder, work, target, served, using>>

\* The pipeline ends with an error: the task failed, or a wait took too long,
\* which stops neither the task nor the roll that was waited for.
Stop(d) ==
    /\ pipeline[d] \in {"migrating", "rolling"}
    /\ pipeline' = [pipeline EXCEPT ![d] = "stopped"]
    /\ UNCHANGED <<columns, seeds, release, task, holder, work, target, served, using>>

\* A request uses the table, unless an ALTER TABLE has it or queues for it.
Begin(c) ==
    /\ served # {} /\ c \notin using /\ Altering = {}
    /\ using' = using \cup {c}
    /\ UNCHANGED <<columns, seeds, release, task, holder, work, pipeline, target, served>>

End(c) ==
    /\ c \in using
    /\ using' = using \ {c}
    /\ UNCHANGED <<columns, seeds, release, task, holder, work, pipeline, target, served>>

Migrate(d) ==
    \/ Lock(d)     \/ Check(d)   \/ AddColumns(d) \/ CreateSchema(d)
    \/ LoadSeed(d) \/ Recheck(d) \/ Commit(d)

Next ==
    \/ \E d \in Deployments :
          RunTask(d) \/ Migrate(d) \/ Fail(d) \/ Roll(d) \/ Stable(d) \/ Stop(d)
    \/ \E c \in Clients : Begin(c) \/ End(c)
    \/ Settle

\* A task runs, and the transactions of the service end.
Fairness ==
    /\ \A d \in Deployments : WF_vars(Migrate(d))
    /\ \A c \in Clients : WF_vars(End(c))

Spec == Init /\ [][Next]_vars /\ Fairness
-----------------------------------------------------------------------------
\* Whatever pushes overlap and wherever a task dies, the migrations together
\* create the schema once, whole and seeded, and then only add columns to it.
History == INSTANCE SchemaHistory
HistorySpec == History!Spec

\* No migration fails because of another: two that start on an empty database
\* do not both run schema.sql.
NeverClash == \A d \in Deployments : task[d] # "clash"

\* A release that serves finds the schema it was written for, seeded: the
\* service is rolled only after a migration that is in, and no other pipeline
\* takes a column away from it.
ServedOnItsSchema ==
    \A r \in served : columns # Absent /\ r \subseteq columns /\ seeds = 1

\* A migration that was started ends: neither another migration that died, nor
\* the requests the service keeps taking, hold it up for ever.
MigrationEnds == \A d \in Deployments : Migrating(d) ~> ~ Migrating(d)
=============================================================================
