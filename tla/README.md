# Crime Intelligence System: TLA+ specifications

The repository is a case-management service: a FastAPI backend (`App/`) over one
PostgreSQL database, a Streamlit frontend (`streamlit_app/`), S3 for evidence
files, and Terraform (`infra/`) that runs the backend as ECS tasks behind a load
balancer.  These modules specify the part that is hard to test: what happens when
write requests overlap, fail half way, deadlock, exhaust what they share, or lose
the task that serves them, and when deployments overlap.  Paths below are relative to the repository root.

Contents: [1 Inventory](#1-inventory) - [2 How requests run](#2-how-requests-run) -
[3 Modules](#3-modules) - [4 Runs](#4-runs) - [5 Proofs](#5-proofs) -
[6 Where the code departs from what it says](#6-where-the-code-departs-from-what-it-says) -
[7 Not modelled](#7-not-modelled) - [8 Plan](#8-plan)

## 1 Inventory

| Component | Code | State | Operations | Correct means |
|---|---|---|---|---|
| Request transactions | `App/main.py`, `App/API/deps.py`, `App/db/session.py` | one session per request; one event loop, a thread pool and a connection pool per engine and task | open session, handler in a thread, commit or roll back on the event loop, answer | answered with success = committed; a failed request leaves nothing; the loop is never stuck; no connection leaks |
| Trials and hearings | `App/CRUD/trial.py`, `next_trial_number` and `assign_judge_to_trial` in `App/CRUD/common.py` | `Trial` rows, numbered per case | open a trial, record a hearing, assign a judge | numbers 1..n without gap or conflict; no hearing is lost |
| Punishments | `apply_trial_punishment` in `App/CRUD/trial.py` | `Criminal`, `Punishment` | sentence a list of persons | everyone or nobody; fields given stand; a term does not end before it starts |
| Case files | `App/CRUD/case.py`, officer links in `common.py` | `Case_detail`, `Assigned_To` | open, update, close; assign, unlink an officer | a closing stands and is dated; a closed case is not updated; assignments stand |
| Case links | `App/CRUD/suspect.py`, `witness.py`, `victim.py`, `evidence.py` | `Person`, `Suspect`, `Witness`, `Victim`, `Evidence` and six link tables | add and update participants, evidence, testimony | links are grounded; all-or-nothing; no deadlock without cause |
| Evidence files | `App/CRUD/evidence.py`, `App/API/Routing/evidence.py` | file columns of `Evidence`, the S3 bucket | upload, attach, edit | a key on a row leads to the whole file of a successful upload |
| Persons, addresses | `App/CRUD/person.py` | `Person`, `Address`, shared between persons and cases | create, update in place, move | an accepted edit stands, whoever shares the row |
| Accounts, tokens | `App/CRUD/auth.py`, `App/API/Routing/system.py` | `App_User`, bearer tokens | register, log in, refresh, change password | one user per name; sessions end; a password changes by its owner only |
| Read routing | `App/API/deps.py`, `App/db/session.py` | writer and replica engines, pools | GET to the reader, the rest to the writer | a client finds every write in the end |
| Frontend session | `streamlit_app/utils.py`, `forms.py` | tokens, 30 s list cache, what pickers have created | request with refresh-and-resend, two-call dialogs, pickers | a write is sent once; half a dialog is visible as such; an address a picker keeps is on file as saved |
| Migration, deployment | `App/db/setup_db.py`, `Database/*.sql`, `.github/workflows/deploy.yml` | schema, advisory lock, the releases that serve | migrate, then roll the service | applied once and whole; a release finds its columns; migrations end |
| Read endpoints, analytics, pages, load test, Terraform | `App/CRUD/analytics.py`, `streamlit_app/pages/`, `loadtest/`, `infra/` | none of their own | queries, rendering, provisioning | - |

Interactions.  Handlers of different requests meet only in the database: through
row locks, unique keys, foreign keys and what READ COMMITTED shows them.  Within
one task they share the event loop (`db_transaction` in `App/main.py` commits on
it) and a thread pool and connection pool.  The load balancer meets a task through
`GET /health`, S3 meets `Evidence.file_key` through nothing but the order in which
the handler writes them.

What is hard here: rows read without a lock and written later (trials, cases,
evidence, punishments), look-then-insert (`get_or_create_link`), statements that
are only sent at commit (the judge, the deleted officer), UPDATEs that carry only
the columns that differ from a stale copy, lists locked in the caller's order,
and S3 outside the transaction.  `PROJECT.json` lists each hazard at its line with
the properties that watch it.

## 2 How requests run

The models of the backend's endpoints (TrialDocket, Punishments, CaseFile, CaseLinks,
EvidenceFile, Accounts, People) share this reading of the code.

* A write request gets a session (`get_db`), its handler runs in a thread, and the
  middleware then calls `db.commit()` or `db.rollback()` (`_finish_db`) before the
  response is returned.  A handler that raises is a `Fail(r, outcome)`: its writes
  and its locks go.  `not_found`, `refused`, `conflict` and `server_error` stand for
  404, 400, 409 (`IntegrityError`) and 500.
* One action is one SQL statement or one turn of the event loop; Python between two
  statements touches only the request's own state.
* PostgreSQL is at its default READ COMMITTED: a statement sees what is committed
  when it starts and what its own transaction wrote.  `INSERT` waits for an
  uncommitted row with its key and fails on a committed one; `UPDATE` and
  `FOR UPDATE` wait for the row lock.  A cycle of waits is broken by aborting one
  transaction; `OperationalError` has no handler, so the client gets 500.
* SQLAlchemy's identity map keeps the row as first loaded, and a flush sends only
  the columns whose value differs from the loaded one (`Sent`, `Differing`).
* A task may die at any statement (`Crash`); PostgreSQL rolls back what its requests
  had not committed.  A request whose answer is lost after its commit behaves like
  one that was answered, so it has no action of its own outside TrialDocket.

These are assumptions about software outside the repository, marked `external` in
the map; everything else is translated from the lines the map names.

## 3 Modules

**Docket** is the abstract specification of the trial endpoints: a list of rows per
case that grows at its end and whose rows may be amended but never lose a hearing
date.  It knows nothing of requests.

**TrialDocket** models `add_case_trial`, `add_trial_hearing`,
`assign_judge_to_trial` and `next_trial_number`, together with the event loop of
each task.  `trials` is the committed table; `pc`, `seen`, `num`, `write` are a
handler's position, loaded row, number and uncommitted write; `locked` the
`FOR UPDATE` locks on case rows; `loop` who occupies each event loop.  The stages
follow the code: `fetch` (`fetch_case`, `fetch_trial`), `lock` and `count` (the two
statements of `next_trial_number`), `insert` (`db.flush()`), `fill` (the fields of
the hearing), `assign`, then `dirty` and `flush` for the judge, whose UPDATE is not
flushed by the handler and is sent inside `db.commit()`, while the event loop
waits.  `commit`, `rollback` and `reply` are the middleware.  `D!Spec` is Docket
with `docket <- trials`.  A case is named by its id alone: the composite key
`(case_id, open_date)` has one date per id, since ids come from one identity column.

**Punishments** models `apply_trial_punishment`: per person of the list, get or
insert the `Criminal`, find the `Punishment`, insert or update it, flush.  `at` is
the place in the list; `enlisted`, `inserted` and `wrote` are the uncommitted rows,
whose locks pile up in list order; `WaitsFor` and `Deadlocked` are PostgreSQL's lock
waits.

**CaseFile** models `open_case`, `update_case`, `close_case`,
`assign_officer_to_case` and `unlink_officer_from_case`.  `seen` is the row
`fetch_case` loaded; `Target` is what the handler makes of it, in the code's order
(the end date is set on closing, the payload's columns after it); `Sent` is what the
flush sends.  `nextId` is the identity column, which keeps its value on rollback.
The DELETE of an unlinked officer happens at commit, where the unit of work sends
it.  One column, `reporter`, stands for the columns with a foreign key.

**CaseLinks** models the six handlers of suspects, witnesses, victims, evidence and
testimony as what they are: sequences of look-ups, each with what happens when the
row is missing (insert it or give up) and the text it sets when the row is there.
`AddSuspect(r)`, `RecordTestimony(r)`, ... are those sequences; `Look`, `Insert`,
`Update` and `Finish` execute them, `at` is the place in the sequence and `mine` the
uncommitted rows.  Evidence ids that the case does not have are noted and refused at the
end (`link_suspect_evidence`).

**EvidenceFile** models the upload: check, read at most one byte over the limit, put
the file under a new key, then write key, type and size to the row; `PutFails` leaves
the bucket with or without the file, and `Crash` in mid-put too.  Beside it runs
`update_evidence`.

**ClientSession** models the frontend: `_request` with its one refresh and one resend,
`_call` with its timeouts, the dialog that makes one call and the one that makes two
(evidence, then its file), the 30 s cache of the pickers, and the replica their searches
read.  `log` is what the primary committed, `applied` how much of it the replica has.
A request stays on the `wire` after its call was given up and may still be carried out.
The clock is abstracted: a token may have run out on any first send, never on the resend,
whose token was issued a moment before (15 minutes against timeouts of at most 60 s).

**Accounts** models the `/auth` endpoints over `App_User`.  `users` is the committed
table and `nextId` its identity column; `issued` are the tokens clients hold, `shown`
the one a request comes with, `now` the clock.  Registration goes through its two
look-ups (`name`, `email`) to an INSERT that waits for uncommitted rows with its
username or email and meets a committed one with 400; the id it drew is lost.  Login and
password change go through `find` and `touch`.  The token of a session carries `since`,
the time of its login: the code does not store it, the property `SessionsEnd` needs it.

**SchemaHistory** is the abstract specification of migrations: the schema is created
once, with its seed data, and then only gains columns.  **Migration** implements it
(`History`): pipelines (`pipeline`) run `run_migration` as a task (`task`) under the
advisory lock (`holder`), whose transaction (`work`) creates and seeds or adds columns,
and then roll the service (`target`, `served`) only after exit code 0.  `using` are the
service's transactions on the table, which ALTER TABLE waits for and which wait for it.

**ServicePool** models what requests share: in each task the event loop, the threads and a
pool of connections per engine, in the database the row locks.  A request passes `opening`
(`get_db`), `queued`, then with a thread `waiting` (for a connection, at its first statement),
`running` and `locking` (a later statement, such as the `FOR UPDATE` of `next_trial_number`,
waits for a row that another transaction has in `locks`); then `reply` (its response is
validated, or its exception handled, in a thread again) and `closing` (`_finish_db` on the
event loop).  Connection and locks stay with it until its session is closed.  A write in
`Late` may leave a statement to the commit (`assign_judge_to_trial`,
`unlink_officer_from_case`): it is `committing` while that statement waits for its row, and
keeps the event loop of its task, which starts handlers and takes note of their ends.
`BreakDeadlock` is PostgreSQL's, `Replace` a task that dies or fails its health checks with all
the requests it serves.  `/health` takes a thread, `/health/ready` a connection of each
engine in turn.

**People** models `create_address`, `update_address`, `create_person` and
`update_person`.  `seen` is what a handler loaded, `wroteAddress` and `wrotePerson` the
columns it has sent; the UPDATE of the address row is sent before that of the person,
as the unit of work sorts the tables.  `Request` is what the validators let through.  All columns of a person but the address are one,
an address has an optional and a required column.  **Desk** composes it with sessions of
the frontend: the dialog that is open, the id the address picker of New Person has
`saved` in the session, the call a session waits for and may give up, beside the
requests of other clients.

Each `MC...` module gives the constants of one instance.  The theorems about a component
are in a module of their own: **TrialDocketProofs**, **PunishmentsProofs**,
**CaseFileProofs**, **CaseLinksProofs**, **AccountsProofs**, **DeskProofs** (with People),
**EvidenceProofs** (EvidenceFile, and ClientSession, whose second call is the upload) and
**PlatformProofs** (Migration and ServicePool: what a task comes up on and what it shares).

## 4 Runs

| Run | Instance | Shows |
|---|---|---|
| TrialDocketSafety | 3 requests of any kind, 1 task, 1 case with 1 trial, known and unknown ids | numbering, no conflict of numbers, answered = committed, hearings stay, `DocketSpec` |
| TrialDocketLiveness | 2 requests, 2 tasks, 2 cases | every request taken is answered or lost with its task |
| TrialDocketHang | 2 requests, 1 task | the counterexample of section 6 |
| Punishments | 3 requests, 2 persons and an unknown one, lists in both orders and with a repetition, 2 columns | all-or-nothing, fields stand, ordered lists never deadlock |
| CaseFile | 3 requests over a seeded case and one that is opened, 2 officers, an unknown person | a closing stands, closed is dated, opened once and whole, assignments stand |
| CaseLinks | every pair of requests over 6 handlers, lists in both orders, unknown case, person, evidence, suspect | grounded links, all-or-nothing, only disordered lists deadlock |
| EvidenceFile | 3 requests, evidence with and without a file, sizes below, at and above the limit, 3 content types | a row leads to files of successful uploads only, uploads stand |
| Accounts | 3 requests of any kind, one user on file and names, emails and passwords of two, a clock of 3 ticks with lives of 1 and 2 | one user per name and email, sessions end, passwords stand |
| ServicePool | 1 task, 2 writes (one with a statement left to the commit), `/health`, `/health/ready`, 2 rows, 2 threads, 2 connections per engine | no connection leaks, a standstill needs more requests than threads and ends by a timeout, every request ends or is lost with its task |
| Migration | 3 deployments of 2 releases, 2 client transactions | `HistorySpec`, no migration clashes with another, releases serve on their schema, migrations end |
| Desk | 1 session, 3 calls of it or of other clients (9 requests), 2 persons who share an address | accepted edits stand, an address the picker kept is on file as saved when it is submitted |
| ClientSession | 2 sessions, 2 presses of 3 dialogs | a press writes once, what it tells is so, every press settles, every write is found in the end |

Why the bounds suffice for what they look at.  A race on a row needs two requests; a
third lets one commit between the other's read and write *and* another observe it,
and lets a deadlock cycle or a chain of waits have a bystander.  Two persons (or two
pieces of evidence) are the least that can be locked in two orders.  The requests are
not chosen for a scenario: `Init` takes every combination of payloads over the given
sets, valid and not.  A request is sent once; a client that repeats one is two requests
with the same payload, which is among the combinations.  Requests are interchangeable, so the safety runs use
symmetry; the liveness runs do not.  CaseLinks has two requests because its rows and
handlers make three too many, and every hazard it is about is between two.  Deadlock
checking is off in every run because requests are finite in number and the system stops
when all are settled; that nobody waits for ever is `EveryRequestSettles`,
`EveryRequestEnds`, `MigrationEnds` and `CallSettles` instead.

ServicePool shrinks 40 threads and 10 + 20 connections to 2 and 2: with three requests that use the
writer and four that need a thread, one can have a row and a connection and wait for a thread,
while of those that have the threads one waits for that row and one for a connection.  This
is the least standstill; it stands for 41 `POST /trials` on one case.  With as many connections as threads,
`Connections <= Threads` is checked at its limit.  Requests that only read are left out of
the run, for `/health/ready` uses the reader too; reads and several tasks, which
make the run too long, are in the proofs.  Accounts' clock reaches the end of
the life of a refresh token plus that of an access token drawn at its last moment.  In
Migration a third deployment meets both one that migrates and one that has rolled.  In
Desk three calls are an address saved, the person who gets it, and a second person,
or two overlapping edits with a third that commits between them.

Fairness.  Safety runs have none.  `FairSpec` has weak fairness of each request's
next step (`Serving`: a thread that can run does, the event loop takes the next turn,
PostgreSQL answers a statement that is not blocked; lock waits make the step
disabled, and are not assumed to end) and of the replacement of a task whose event
loop stays occupied (`HealthChecks`: the target group's `/health` check in
`infra/modules/alb/main.tf` with an ECS service that keeps its task count).
ClientSession's `Timeouts` says that a call whose answer is missing times out (every
`requests` call has a timeout) and a refresh comes to an end; its `Reading` that the
replica catches up, cached results expire, and users sign in again and go on searching
with not every search failing for ever (strong fairness of `Search` alone: failing
searches are allowed in between).  Nothing is assumed of the network or of presses.
ServicePool's `PoolFairness` lets each request take the step it can take: queues for
threads and connections are first come, first served, a statement that waits for no row ends,
PostgreSQL breaks deadlocks, and `pool_timeout` expires (`PoolTimeout` is part of `Serve`).
It does not assume that a row, a thread or the event loop is ever free again; but a task whose
event loop stays occupied fails its health checks and is replaced (`Unhealthy`), as in
TrialDocket.  So `EveryRequestEnds` says that a request is answered, fails, or is lost with its task;
that the service alone does not achieve this is `TrialDocketHang`.  Migration's lets a task that can run do so
and the service's transactions end; it does not assume that requests stop coming, that
tasks survive, or that the table or the lock is ever free.
`TrialDocketHang` uses `UnsupervisedSpec`, without the latter, since it is about what
the service does by itself.

Each property also has a mutant in `PROJECT.json`: a plausible bug in one modelled
definition under which the same run finds the property violated.

## 5 Proofs

Every safety invariant and every action property that a run checks is proved here, for all
values of the constants.  Each proof has the same shape: an invariant `IInv` of named parts, one lemma
per action (or group of actions that leave the same things alone) that it keeps, `Invariance`
(`Spec => []IInv`), and the theorems that follow from it.  (In ServicePool and ClientSession,
which share a proof module with another component, the names say so: `PoolSpec`, `PoolInv`,
`SessionSpec`, `SessionInv`.)  Each `IInv` was model-checked on
the instance of its component's run before it was proved.  The assumptions are the named
ASSUMEs of the component's module, which TLC evaluates in its run.  A theorem named
`TypeCorrect` is `Spec => []TypeOK` of its module.

### Trials

`TrialDocketProofs` proves, for any number of requests, tasks, cases and persons and any
seed whose dockets are sequences:

| Theorem | States |
|---|---|
| `TypeCorrect` | `Spec => []TypeOK` |
| `CaseLockExclusive` | no two requests hold one case row |
| `ContiguousNumbering` | `Spec => []NumbersContiguous` |
| `NoNumberConflict` | `Spec => []NumberNeverTaken` |
| `ImplementsDocket` | `Spec => DocketSpec` |
| `HearingsStay` | `Spec => HearingNeverErased`, which `DocketSpec` implies |
| `AnswersAreKept` | `Spec => []AnsweredIsCommitted` |

The argument.  `NumbersContiguous` is not inductive: a request about to insert could
hold any number.  `IInv` adds what `next_trial_number` takes the lock for: locks are
exclusive per case (`LocksExclusive`); a request between counting and committing holds
the lock and its number is one past the end of the docket (`Opening`), or it holds no lock
and its number is on the docket (`Amending`, the hearing and judge requests), and what
it has written never sets a hearing to NULL.  Only a lock holder can lengthen a
docket, so nobody moves the end under an `Opening` request, and its commit appends.
There is one lemma per action (`ReceiveStep` ... `CrashStep`), with `CommitStep` the
one that carries the weight.  `ImplementsDocket` maps each commit to `OpenTrial`,
`AmendTrial` or a stutter, and everything else to a stutter.  The assumptions used are
the ASSUMEs of TrialDocket (ids on file are among the ids a client may name, the seed
is a sequence of rows per case, sentinels are no data).

`AnswersAreKept` needs a second invariant on top of `IInv`.  A request that finds the hearing
there, or the judge, writes nothing of it and still answers with success, so what it relies on
must survive every commit between its read and its answer, and after.  `Promises` says, per
request: what it read of its trial still stands in the sense that a date or judge it saw is
still some date or judge (`SeenStands`); its uncommitted write together with what is
committed will leave the trial as its answer says (`Ready`); and once it is to answer `ok`
the trial is so (`Settled`).  `RowsGrow` carries it past the commits of others: no commit takes
a row, a date or a judge off a docket.

### Connections

`PlatformProofs` proves, for any finite set of requests of each kind, and any tasks, rows,
number of threads and number of connections:

| Theorem | States |
|---|---|
| `PoolTypeCorrect` | `PoolSpec => []PoolTypeOK` |
| `ConnectionsReturn` | `PoolSpec => []NoConnectionLeaks` |
| `SmallLoadsMove` | `PoolSpec => []StandstillNeedsCrowd` |
| `StandstillsEnd` | `PoolSpec => []StandstillTimesOut` |

The argument.  `NoConnectionLeaks` with the types is inductive once it is said that
`/health` never waits for a connection or has one (`ProbesKeepOff`): `Connect` alone
adds to a pool and finds room (`ConnectFits`), every other action takes away or keeps
engines as they are (`PoolShrinks`).  `WritersHold` adds that whoever has locked a row, or
waits for one, is a write with a connection of the writer.

A standstill is a state in which every event loop is free and everybody in flight waits: for a
thread, for a connection, or for a row without being in a deadlock.  If everyone who has
locked a row waited for one, those who wait for rows would all wait for one another, which is
a deadlock (`HoldersDoNotAllWait`).  So somebody with a row, or with a connection that is
waited for, waits for a thread (`StandstillIsCrowded`), and a request that waits for a
thread is one more than those that have them (`ThreadWaitersCrowd`): the service cannot
stand still with at most 40 requests in flight per task, and can with 41.  If nobody
waited for a connection, every thread of a full task would be with a write that waits for a row
and has a connection; where `Connections <= Threads` (30 and 40 in the code), these are
all the writer's connections (`FullTask`), none is left for one who has a row and waits for a
thread, and again there is a deadlock (`StandstillHasWaiter`).  So in every standstill
`pool_timeout` is running.  With `DB_POOL_SIZE` and `DB_MAX_OVERFLOW` set to more connections than
threads this would not hold: waits for rows have no timeout.  Assumed are the ASSUMEs of ServicePool: the kinds of
requests are disjoint, each request has a task, no row is called `NoRow`, and the sizes are positive.

### Punishments

`PunishmentsProofs`, for any requests, trials, columns, lists and finitely many persons:

| Theorem | States |
|---|---|
| `SentencesAllOrNone` | `Spec => []EveryoneOrNobody` |
| `GivenFieldsDoStand` | `Spec => []GivenFieldsStand` |
| `OrderedListsDoNotDeadlock` | `Spec => []OrderedListsNeverDeadlock` |

The argument.  `apply_trial_punishment` computes an UPDATE from a row it read without a lock and
leaves out the columns that already have the value given.  So what must be kept is not the row
that was read but a promise about each field (`FieldKept`): the field is in what the request
has written, or it is on file as given, or another accepted request gave it.  `RowsOK`
states it for every person served so far, and for the column an UPDATE is about to leave
out.  A commit of another request can only break "on file as given" by giving the field
itself, which is the third case.  `RowLocks` (two requests never hold the same row) makes
the commits of one row come one at a time; `PlaceOK` ties what is held to the place in the list, and
`Stems` every changed row to an accepted request.

No deadlock: a request waits only for a row of the person it is at, held by one that is
further on in the common order, or at the same person but past its `Criminal` row.
`Height` (twice the person's rank, plus one past the `Criminal` row) therefore climbs along
every wait (`WaitsClimb`); heights are bounded, so a set of requests that each wait for
another of the set would have a highest one that waits for a higher (`Greatest`,
`NoCycle`).  `FiniteAssumption` (finitely many persons: an id is a 32-bit `Integer`) is for
the bound.

### Case files

`CaseFileProofs`, for any requests, persons, officers, dates and seeded cases:

| Theorem | States |
|---|---|
| `ClosingStands` | `Spec => []CloseStands` |
| `ClosedCasesAreDated` | `Spec => []ClosedIsDated` |
| `EachCaseOpenedOnce` | `Spec => []OpenedOnce` |
| `AssignmentsStand` | `Spec => []AssignmentStands` |

The argument.  `close_case` and `update_case` load the case without a lock.  A closing that
overlaps another sends no status and no date when the row it read had them, so it relies on
a row that others may change.  `SeenKept` is what saves it: if a request saw the case
closed, it still is or an accepted PATCH gave a status; the same for the date and a PATCH
that gave null.  `StageOK` says what a request has written at each stage (`Statement`)
and, for officers, that whoever is about to answer has the link inserted or it is there or was
unlinked by an accepted request (`Assigned`).  `RowLocks`, `LinkLocks` are the row locks;
`Numbered` says that ids drawn from the identity column are new, differ, and stay ahead of
the rows on file, from which `OpenedOnce` follows.  `ClosedIsDated` rests on the seed being
so (`SeedAssumption`: cases seeded as closed have an end date, as those of
`Database/seed_data.sql` do).

### Case links

`CaseLinksProofs`, for any requests, cases and texts, finitely many persons and pieces of
evidence (32-bit ids), and lists of any length:

| Theorem | States |
|---|---|
| `LinksStayGrounded` | `Spec => []LinksAreGrounded` |
| `RequestsAreAtomic` | `Spec => []AllOrNothing` |
| `DeadlocksAreDisorder` | `Spec => []OnlyDisorderDeadlocks` |

The argument.  `SuspectHandler` ... `TestimonyHandler` say what the six sequences of look-ups
are, place by place, for lists of any length.  `Progress` is what makes looking before
inserting safe: what a handler has looked up, or inserted, stays in the sight of its session
(`Met`), because rows are never deleted; only evidence that the case lacks is passed over, and
then the request is in `bad` and commits nothing.  `HoldsItsOwn` says that what a
transaction has not yet committed are rows of look-ups behind it.  A link is inserted after
the look-ups for its grounds in the same handler (`InsertIsGrounded`), so what each session sees
is grounded, and stays so when the rows of others join it (`GroundedUnion`).  A handler that is
through has all it wanted in sight, so its commit adds exactly `Wanted`: `AllOrNothing`.

Deadlocks: each handler writes its rows in the order of the tables, a level per table
(`HandlerClimbs`), and a row that one waits for was written by the other at a look-up it has passed.  So
along a wait the level of the row one is about to write does not fall (`WaitsClimb`), and
on a cycle it is the same everywhere.  The only level a handler stays on is that of the links
it makes from its list, so all on the cycle are at their lists, of one kind, in one case; their rows are
those of one person (`SamePerson`: a person created by a request is named by nobody
else before it is done).  If the lists followed one order, the rank of the item would
rise along every wait (`ListWaits`), and the greatest rank on the cycle would not be the greatest (`ListCycle`).
`SeedAssumption` is used for the links on file at the start (grounded, as the rows of
`Database/seed_data.sql` are, with ids that are not drawn again) and `ListsAssumption` says that
lists hold ids.

### Evidence files

`EvidenceProofs`, for any evidence, requests, sizes and keys, if keys are never drawn twice:

| Theorem | States |
|---|---|
| `RowsLeadToAnsweredFiles` | `Spec => []FileOfAnsweredUpload` |
| `UploadsStand` | `Spec => []UploadStands` |

The argument.  The file is put before the row is read again and written, outside any transaction.
`StageOK` says that from the put on the file is stored, whole and within the limit, under the
request's key (`FileStored`), and that the row it loaded never has that key, so that its
UPDATE always carries it.  `KeyOK` says that a row's key is its first one or that of an
accepted upload to it; together they give both theorems, whatever a crash or a failed put
leaves in the bucket beside them.

### Presses of the frontend

`EvidenceProofs`, about ClientSession, for any sessions and any number of presses:

| Theorem | States |
|---|---|
| `SessionTypeCorrect` | `SessionSpec => []SessionTypeOK` |
| `PressesWriteOnce` | `SessionSpec => []WrittenOnce` |
| `DialogsTellTheTruth` | `SessionSpec => []MessageIsTrue` |

The argument.  A call can be sent twice, given up while its request is on the way, and
carried out after that.  `MessageOK`: at most one request of a press and part is on its way,
and none once that part is written.  `CallOK` says what makes the resend safe: a
session that refreshes its token does so because the request was refused, so that request is neither on
its way nor written; and the file is sent only when the evidence is answered.
`PressOK` ties what the user was told to the log: a refusal was told by the only request, and
a timeout claims nothing.  `Carries` passes this over every step of the network.  `SessionSpec`
assumes no fairness, so the theorems hold of `FairSpec`, whose liveness the run checks.

### Accounts

`AccountsProofs`, for any names, passwords, requests, lives of tokens and clock:

| Theorem | States |
|---|---|
| `OverlappingRegistrationsAgree` | `Spec => []RegistrationsAgree` |
| `SessionsDoEnd` | `Spec => SessionsEnd` |
| `PasswordsStand` | `Spec => PasswordStands` |

The argument.  The look-ups of a registration prove nothing, the INSERT does: requests about
to commit differ in both keys (`KeyLocks`) and met nobody with theirs, so `Unique`
survives every commit; `Numbered` and `Stemmed` count one registration per account.  For
sessions, `TokenOK` bounds the end of every token by the login it stems from: a refresh
token ends within one refresh life of it, and a refresh, which is refused after that,
hands out an access token that keeps the login's time and ends one access life later.  It
holds of the tokens issued and of those in answers still on their way.  For passwords, `StageOK` ties the
account a change is about to the token shown; a login's UPDATE does not carry the
password column.

### Persons, addresses and the dialogs

`DeskProofs`, for any calls, sessions, requests of other clients, names and addresses:

| Theorem | States |
|---|---|
| `TypeCorrect` | `Spec => []DeskTypeOK`, with every person's home on file |
| `EditsStand` | `Spec => []EditStands` |
| `KeptAddressesAreSaved` | `Spec => []PickedIsSaved` |
| `AddressesServeOnePerson` | `Spec => []PickedForOne` (a formula of the proof module) |

The argument.  `IInv` has two halves.  `PeopleInv` is about the service alone: `StageOK` says
what a handler knows at each stage and what it has written (`AddressStatement`,
`PersonStatement`), `AddressIds` and `PersonIds` that drawn ids are new until their commit,
`AddressLocks` and `PersonLocks` that no row is held twice.  `EditOK` is the promise for each
column: what is given is in what was written, or on file, or another accepted request gave it
(`FieldKept`, `NameKept`, `HomeKept`), from the moment the row was read if it had the value
then.  An update of a person's address also relies on the home it read: the person still lives
there or an accepted move took the person elsewhere (`Rehoused`).  `EditSurvives` carries
this past the commits of others, `EditCommitted` past its own.  `SessionsInv` is about the
frontend: an address a session keeps is that of a call to create one which it was told of
(`Saved`), of no other session, and of no person a user was told of; ids drawn once make a
new one differ from all of these.  Of the service it needs no more than that calls once in
stay as they are (`CallsStand`).  `PickInv` stands on both: the address that a call created is
on file as that call gave it, but for columns that an accepted edit gave (`CreatedStands`,
which only commits can break, and those of edits do not), and sessions create only
what their user typed; so the id a picker keeps leads to that address, whenever it is submitted.
`PickedForOne` speaks only of persons whose creation was reported done; section 6 has the
case it leaves open.  Used are `NilAssumption` (NULL is no value),
`ClientsAssumption` (requests are what the validators of `schema/core.py` let through) and that the seed
is consistent.

### Deployments

`PlatformProofs`, for any pipelines and releases:

| Theorem | States |
|---|---|
| `MigrationsDoNotClash` | `Spec => []NeverClash` |
| `ServiceFindsItsSchema` | `Spec => []ServedOnItsSchema` |
| `ImplementsHistory` | `Spec => HistorySpec` |

The argument.  `LockHeld`: exactly the migration past the advisory lock holds it.  So what
it found when it looked is still true when it acts (`ChecksHold`, which also gives what its
transaction has added at each stage), nobody else commits a schema meanwhile, and its
commit is one step of the abstract history.  `ExitsVouch` is the promise of exit
code 0: the columns of that release are in the database, where columns are never dropped; so
they are for the release being rolled and for those that serve.

### Not proved

Liveness (`EveryRequestSettles`, the `HealthAnswered` counterexample, `CallSettles`,
`FoundInTheEnd`, `EveryRequestEnds`, `MigrationEnds`) is model-checked only, because fairness is
beyond this prover.  All else that the runs check is proved.  The formulas of section 6 are
false, which TLC shows.

## 6 Where the code departs from what it says

* **A task can hang** (`TrialDocketHang`).  `assign_judge_to_trial` leaves its UPDATE
  to `db.commit()` in the async middleware.  If `add_trial_hearing` of the same trial
  holds the row lock in a thread of the same task, its own commit needs that event
  loop.  PostgreSQL sees no cycle.  `/health` goes unanswered until the task is replaced.
* **A hearing can be replaced** (`trial.py:8` promises a new row): two requests both
  see no hearing and write one row.  `HearingNeverReplaced` in TrialDocket.
* **A sentence can end before it starts** (`schema/case.py:337`): the validator sees
  one payload, the row merges several.  `JailRangeValid` in Punishments.
* **A closed case can be updated** (`case.py:137`): the status is tested on a row
  read without a lock.  `ClosedNotUpdated` in CaseFile.
* **A row can describe another file** (`evidence.py:10`): the key of one upload
  beside the size or type of another.  `RowDescribesFile` in EvidenceFile.

The last four are not runs of their own: adding the named formula to the passing run of
its module makes TLC print the behaviour (for `HearingNeverReplaced`, with a second date
in `Dates` of TrialDocketSafety).  The runs check instead what does hold in these
races: no date is erased, fields given stand, a closing is not undone, uploads are not lost.

Smaller things met while reading, without a formula:

* The answer of `update_person` after a move shows the old address: the loaded
  relationship is not refreshed (`person.py:252`).
* `deploy.yml:202` tests the states with `grep -qv healthy`, which "unhealthy" passes.
* An address saved in a picker survives its dialog (`forms.py:14` clears it only after a
  success): after a dialog that was dismissed, or that reported a failure, it is offered and
  submitted for the next person.
* 41 requests on one case can stand still until `pool_timeout` (30 s): see Connections.
* Two first requests can each create an engine (`session.py:50`), with a pool of its own.
* A password change ends no session: refresh tokens issued before it stay good.

## 7 Not modelled

* A press that interrupts the script of the one before it (Streamlit stops a running
  script at its next call) is left out of ClientSession: it hides the message of the first
  press, and leaves its writes as a timeout does.
* The dialogs not named in section 3: they make one call like New Person, or two like
  Add Evidence, and their pickers work like the one of Desk.
* The models of endpoints assume a thread and a connection for each request; that these
  run out is ServicePool's subject alone, and in it which row a statement locks is open.
  Statement timeouts are left out, for the code sets none, and so are connections that break.
* Read endpoints, analytics, response building, pages, load test, linting and test
  pipelines, Terraform: no state changes of their own.  The read before a response (such as
  `fetch_case` at the end of a handler) is left out with them.
* Data: text columns of a row are one column, locations that do not exist are left out of
  CaseLinks (where a person is created together with the address given), and hashing,
  parsing and formatting are left out.
* A PATCH that gives a required column of an address as null: the database refuses it with 409
  (`IntegrityError`) and nothing is written.
* A person without an address: no code path makes one, so `update_person`'s branch for
  it is left out of People.
* Rows are never deleted by the service except `Assigned_To`, so models have no deletes.
* Requests that hold the case row for other reasons (an UPDATE of the case, foreign-key
  share locks) can delay those in TrialDocket and are left out there: they release the
  row when they commit and take no trial row.

## 8 Plan

Order: the numbering and its lock first, since every other endpoint hangs on a trial or
a case; then the tables that several handlers write without locks; then what lies
around the handlers.

1. Done: Docket, TrialDocket with proofs; Punishments; CaseFile; CaseLinks; EvidenceFile.
2. Done: ClientSession (tokens, resend, timeouts, two-call dialogs, replica and cache).
3. Done: Accounts; SchemaHistory and Migration; ServicePool; People and Desk.
4. Done: proofs about TrialDocket, ServicePool, Punishments, CaseFile, EvidenceFile, Accounts,
   Desk with People, Migration, CaseLinks and ClientSession.

What would come next: the other dialogs of the frontend, statements that meet a broken
connection, and refinements of the endpoints other than trials by abstract tables.
