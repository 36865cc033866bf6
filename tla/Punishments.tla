----------------------------- MODULE Punishments -----------------------------
(***************************************************************************)
(* apply_trial_punishment: one request sentences a list of persons on a    *)
(* trial.  For each person in turn it makes sure there is a Criminal row,  *)
(* then inserts or updates the person's Punishment row for the case, and   *)
(* flushes, so the locks of a request pile up in the order of its list.    *)
(*                                                                         *)
(* PostgreSQL is modelled at READ COMMITTED: a statement sees what is      *)
(* committed and what its own transaction wrote; an INSERT waits for an    *)
(* uncommitted row with its key and an UPDATE for the lock of its row; and *)
(* a transaction in a cycle of waits is aborted.                           *)
(***************************************************************************)
EXTENDS Integers, Sequences, FiniteSets

CONSTANTS Requests,      \* the punishment requests clients send
          Cases, Trials, \* the cases on file, and the trials on their dockets
          CaseOf,        \* the case a trial belongs to
          TrialIds,      \* the trials a client may name
          Persons,       \* the persons on file
          PersonIds,     \* the persons a client may name
          PersonLists,   \* the lists of persons a request may carry
          Columns,       \* fine, jail_start, jail_end, death_penalty
          Values,        \* what they hold
          Sentences,     \* the fields a request may carry, as partial rows
          SeedCriminals, \* the persons with a Criminal row at the start
          SeedPunished,  \* the Punishment rows at the start
          Nil,           \* NULL
          NoRow          \* no such row

ASSUME IdsAssumption == Trials \subseteq TrialIds /\ Persons \subseteq PersonIds
ASSUME FiniteAssumption == IsFiniteSet(PersonIds) \* an id is a 32-bit Integer
ASSUME CaseOfAssumption == CaseOf \in [Trials -> Cases]
ASSUME ListsAssumption == PersonLists \subseteq Seq(PersonIds) \ {<< >>}
ASSUME SeedAssumption == SeedCriminals \subseteq Persons
ASSUME NilAssumption == Nil \notin Values

-----------------------------------------------------------------------------
Row == [Columns -> Values \cup {Nil}]

ASSUME NoRowAssumption == NoRow \notin Row
ASSUME SeedPunishedAssumption ==
    /\ SeedPunished \in [Cases \X Persons -> Row \cup {NoRow}]
    /\ \A c \in Cases, p \in Persons : SeedPunished[<<c, p>>] # NoRow => p \in SeedCriminals

\* Fields that are set: those of a payload (exclude_unset) or of a statement.
Fields == UNION {[S -> Values \cup {Nil}] : S \in SUBSET Columns}

ASSUME SentencesAssumption == Sentences \subseteq Fields

NoFields == [f \in {} |-> Nil]

Request == [trial : TrialIds, persons : PersonLists, given : Sentences]

VARIABLES criminals,   \* committed Criminal rows
          punished,    \* committed Punishment rows, per case and person
          req, pc,     \* each request and how far it has got
          at,          \* the place in its list of the person it is busy with
          found,       \* the Punishment row it loaded for that person, or NoRow
          enlisted,    \* the Criminal rows it inserted and has not committed
          inserted,    \* the persons whose Punishment row it inserted
          wrote        \* the columns it wrote, per person, uncommitted

vars == <<criminals, punished, req, pc, at, found, enlisted, inserted, wrote>>

Stages == {"new", "criminal", "enlist", "find", "sentence", "commit", "done",
           "not_found", "conflict", "server_error", "lost"}

TypeOK ==
    /\ criminals \subseteq Persons
    /\ punished \in [Cases \X Persons -> Row \cup {NoRow}]
    /\ req \in [Requests -> Request]
    /\ pc \in [Requests -> Stages]
    /\ at \in [Requests -> Nat \ {0}]
    /\ found \in [Requests -> Row \cup {NoRow}]
    /\ enlisted \in [Requests -> SUBSET Persons]
    /\ inserted \in [Requests -> SUBSET Persons]
    /\ wrote \in [Requests -> [Persons -> Fields]]

Init ==
    /\ criminals = SeedCriminals
    /\ punished = SeedPunished
    /\ req \in [Requests -> Request]
    /\ pc = [r \in Requests |-> "new"]
    /\ at = [r \in Requests |-> 1]
    /\ found = [r \in Requests |-> NoRow]
    /\ enlisted = [r \in Requests |-> {}]
    /\ inserted = [r \in Requests |-> {}]
    /\ wrote = [r \in Requests |-> [p \in Persons |-> NoFields]]
-----------------------------------------------------------------------------
Case(r) == CaseOf[req[r].trial]

\* Mutant: the list is worked through from its end when a release date is given.
PersonAtFromEnd(r, i) ==
    IF "jail_end" \in DOMAIN req[r].given
    THEN req[r].persons[Len(req[r].persons) + 1 - i]
    ELSE req[r].persons[i]

\* for person_id in payload.person_ids
PersonAt(r, i) == req[r].persons[i]

Person(r) == PersonAt(r, at[r])

Goto(r, stage) == pc' = [pc EXCEPT ![r] = stage]

\* The row with the columns of w set.
Set(row, w) == [f \in Columns |-> IF f \in DOMAIN w THEN w[f] ELSE row[f]]

NullRow == [f \in Columns |-> Nil]

\* The Punishment row of p as the session of r sees it.
Visible(r, p) ==
    IF p \in inserted[r] THEN Set(NullRow, wrote[r][p])
    ELSE IF punished[<<Case(r), p>>] = NoRow THEN NoRow
    ELSE Set(punished[<<Case(r), p>>], wrote[r][p])

\* Mutant: an UPDATE writes the whole row the session holds.
SentWholeRow(r) ==
    IF found[r] = NoRow THEN req[r].given ELSE Set(found[r], req[r].given)

\* The columns the flush sends: all that are given on an INSERT, and on an
\* UPDATE those given a value that differs from the loaded one.
Sent(r) ==
    LET given == req[r].given
        cols  == IF found[r] = NoRow THEN DOMAIN given
                 ELSE {f \in DOMAIN given : given[f] # found[r][f]}
    IN  [f \in cols |-> given[f]]

\* q has written the Punishment row of person p in the case of r.
HoldsRow(q, r, p) ==
    /\ pc[q] \in {"criminal", "enlist", "find", "sentence", "commit"}
    /\ Case(q) = Case(r)
    /\ p \in inserted[q] \/ wrote[q][p] # NoFields

\* The statement r is about to send waits for the transaction of q.
WaitsFor(r, q) ==
    /\ q # r
    /\ \/ pc[r] = "enlist" /\ Person(r) \in enlisted[q]
       \/ /\ pc[r] = "sentence"
          /\ found[r] = NoRow \/ Sent(r) # NoFields
          /\ HoldsRow(q, r, Person(r))

Blocked(r) == \E q \in Requests : WaitsFor(r, q)

\* r is on a cycle of transactions each waiting for the next.
Deadlocked(r) ==
    \E S \in SUBSET Requests :
        r \in S /\ \A q \in S : \E s \in S : WaitsFor(q, s)

\* The transaction of r ends and its uncommitted rows are gone.
Discard(r) ==
    /\ enlisted' = [enlisted EXCEPT ![r] = {}]
    /\ inserted' = [inserted EXCEPT ![r] = {}]
    /\ wrote' = [wrote EXCEPT ![r] = [p \in Persons |-> NoFields]]

\* The handler raises and the middleware rolls back.
Fail(r, outcome) ==
    /\ Goto(r, outcome)
    /\ Discard(r)
    /\ UNCHANGED <<criminals, punished, req, at, found>>

OnlyMoves(r, stage) ==
    /\ Goto(r, stage)
    /\ UNCHANGED <<criminals, punished, req, at, found, enlisted, inserted, wrote>>
-----------------------------------------------------------------------------
\* fetch_trial: 404 when there is no such trial.
FetchTrial(r) ==
    /\ pc[r] = "new"
    /\ IF req[r].trial \in Trials THEN OnlyMoves(r, "criminal") ELSE Fail(r, "not_found")

\* db.get(Criminal, person_id)
GetCriminal(r) ==
    /\ pc[r] = "criminal"
    /\ OnlyMoves(r, IF Person(r) \in criminals \cup enlisted[r] THEN "find" ELSE "enlist")

\* Mutant: Criminal rows without their foreign key to Person.
EnlistAnyone(r) ==
    /\ pc[r] = "enlist"
    /\ ~ Blocked(r)
    /\ enlisted' = [enlisted EXCEPT ![r] = @ \cup {Person(r)}]
    /\ Goto(r, "find")
    /\ UNCHANGED <<criminals, punished, req, at, found, inserted, wrote>>

\* db.add(Criminal) and flush: the person must exist, and nobody may have
\* inserted the row since it was looked for.
Enlist(r) ==
    /\ pc[r] = "enlist"
    /\ ~ Blocked(r)
    /\ IF Person(r) \in Persons \ criminals
       THEN /\ enlisted' = [enlisted EXCEPT ![r] = @ \cup {Person(r)}]
            /\ Goto(r, "find")
            /\ UNCHANGED <<criminals, punished, req, at, found, inserted, wrote>>
       ELSE Fail(r, "conflict")

\* The list named this person just before, so the handler holds the row still,
\* with the given fields set, and a query does not reload it.
StillLoaded(r) == at[r] > 1 /\ PersonAt(r, at[r] - 1) = Person(r)

\* SELECT the Punishment row of the person in the case of the trial.
FindPunishment(r) ==
    /\ pc[r] = "find"
    /\ LET row == Visible(r, Person(r)) IN
       found' = [found EXCEPT ![r] = IF StillLoaded(r) THEN Set(row, req[r].given) ELSE row]
    /\ Goto(r, "sentence")
    /\ UNCHANGED <<criminals, punished, req, at, enlisted, inserted, wrote>>

\* Mutant: db.commit() in the loop in place of db.flush().
SentenceAndCommit(r) ==
    /\ pc[r] = "sentence"
    /\ ~ Blocked(r)
    /\ IF found[r] = NoRow /\ punished[<<Case(r), Person(r)>>] # NoRow
       THEN Fail(r, "conflict")
       ELSE /\ criminals' = criminals \cup enlisted[r]
            /\ punished' = [punished EXCEPT ![<<Case(r), Person(r)>>] =
                 Set(IF found[r] = NoRow THEN NullRow ELSE @, Sent(r))]
            /\ Discard(r)
            /\ IF at[r] < Len(req[r].persons)
               THEN at' = [at EXCEPT ![r] = @ + 1] /\ Goto(r, "criminal")
               ELSE UNCHANGED at /\ Goto(r, "commit")
            /\ UNCHANGED <<req, found>>

\* Set the given fields and flush, then take the next person of the list.
Sentence(r) ==
    /\ pc[r] = "sentence"
    /\ ~ Blocked(r)
    /\ IF found[r] = NoRow /\ punished[<<Case(r), Person(r)>>] # NoRow
       THEN Fail(r, "conflict")
       ELSE LET p == Person(r)
                before == wrote[r][p] IN
            /\ inserted' = IF found[r] = NoRow
                           THEN [inserted EXCEPT ![r] = @ \cup {p}] ELSE inserted
            /\ wrote' = [wrote EXCEPT ![r][p] =
                           [f \in DOMAIN before \cup DOMAIN Sent(r) |->
                              IF f \in DOMAIN Sent(r) THEN Sent(r)[f] ELSE before[f]]]
            /\ IF at[r] < Len(req[r].persons)
               THEN at' = [at EXCEPT ![r] = @ + 1] /\ Goto(r, "criminal")
               ELSE UNCHANGED at /\ Goto(r, "commit")
            /\ UNCHANGED <<criminals, punished, req, found, enlisted>>

\* The middleware commits: every row of the request becomes visible at once.
Commit(r) ==
    /\ pc[r] = "commit"
    /\ criminals' = criminals \cup enlisted[r]
    /\ punished' = [k \in Cases \X Persons |->
                      IF k[1] = Case(r) THEN Visible(r, k[2]) ELSE punished[k]]
    /\ Discard(r)
    /\ Goto(r, "done")
    /\ UNCHANGED <<req, at, found>>

\* PostgreSQL aborts a transaction on a cycle; OperationalError has no handler
\* in main.py, so the middleware rolls back and the client gets 500.
BreakDeadlock(r) == Deadlocked(r) /\ Fail(r, "server_error")

\* The task that serves r dies and PostgreSQL rolls its transaction back.
Crash(r) ==
    /\ pc[r] \in {"criminal", "enlist", "find", "sentence", "commit"}
    /\ Fail(r, "lost")

Serve(r) ==
    \/ FetchTrial(r) \/ GetCriminal(r) \/ Enlist(r) \/ FindPunishment(r)
    \/ Sentence(r)   \/ Commit(r)      \/ BreakDeadlock(r)

Next == \E r \in Requests : Serve(r) \/ Crash(r)

Spec == Init /\ [][Next]_vars
-----------------------------------------------------------------------------
Listed(r) == {req[r].persons[i] : i \in 1 .. Len(req[r].persons)}

\* A request sentences everyone on its list or nobody: after 201 they all have
\* a Punishment row, and no row stems from a request that failed half way
\* through its list.
EveryoneOrNobody ==
    /\ \A r \in Requests : pc[r] = "done" =>
          \A p \in Listed(r) : punished[<<Case(r), p>>] # NoRow
    /\ \A c \in Cases, p \in Persons : punished[<<c, p>>] # SeedPunished[<<c, p>>] =>
          \E r \in Requests : pc[r] = "done" /\ Case(r) = c /\ p \in Listed(r)

\* A field given by a request that was answered with 201 stands, unless another
\* such request gave the same field for the same person: requests that overlap
\* on a row but not on a field do not undo each other.
GivenFieldsStand ==
    \A r \in Requests : pc[r] = "done" =>
        \A p \in Listed(r), f \in DOMAIN req[r].given :
            \/ punished[<<Case(r), p>>][f] = req[r].given[f]
            \/ \E q \in Requests \ {r} :
                  /\ pc[q] = "done" /\ Case(q) = Case(r) /\ p \in Listed(q)
                  /\ f \in DOMAIN req[q].given

\* One order of the persons that every list follows.
OrdersAgree ==
    \E rank \in [PersonIds -> 1 .. Cardinality(PersonIds)] :
        \A r \in Requests : \A i, j \in 1 .. Len(req[r].persons) :
            i < j /\ req[r].persons[i] # req[r].persons[j] =>
                rank[req[r].persons[i]] < rank[req[r].persons[j]]

\* Requests whose lists follow one order never deadlock, however they overlap
\* on Criminal and Punishment rows: the locks are taken person by person, in
\* the order of the list.
OrderedListsNeverDeadlock ==
    (\E r \in Requests : pc[r] = "server_error") => ~ OrdersAgree

\* No sentence ends before it starts (schema/case.py:337).
JailRangeValid ==
    \A c \in Cases, p \in Persons : punished[<<c, p>>] # NoRow =>
        LET row == punished[<<c, p>>] IN
        row["jail_start"] # Nil /\ row["jail_end"] # Nil =>
            row["jail_start"] =< row["jail_end"]
=============================================================================
