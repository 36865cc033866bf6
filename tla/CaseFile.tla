------------------------------ MODULE CaseFile ------------------------------
(***************************************************************************)
(* The endpoints that write a case row and the officers assigned to it:    *)
(* open, update and close a case, assign and unlink an officer.            *)
(*                                                                         *)
(* A handler reads the row without a lock, computes from it, and sends an  *)
(* UPDATE of the columns that differ from what it read; the middleware     *)
(* commits.  PostgreSQL is at READ COMMITTED: an UPDATE waits for the row  *)
(* lock and an INSERT for an uncommitted row with its key.  Every step     *)
(* below is one statement, or the commit.                                  *)
(***************************************************************************)
EXTENDS Integers, Sequences

CONSTANTS Requests,      \* the write requests clients send
          CaseIds,       \* the case ids a client may name
          Persons,       \* the persons on file
          PersonIds,     \* the persons a client may name
          Officers,      \* the persons registered as police officers
          Dates, Today,  \* end dates
          Patches,       \* the columns a PATCH may carry, as partial rows
          SeedCases,     \* the cases the database starts with, numbered from 1
          SeedAssigned,  \* and the officers assigned to them
          Nil            \* NULL, or a field that is not given

ASSUME PeopleAssumption == Officers \subseteq Persons /\ Persons \subseteq PersonIds
ASSUME DatesAssumption == Today \in Dates /\ Nil \notin Dates \cup PersonIds
ASSUME IdsAssumption == CaseIds \subseteq Nat

-----------------------------------------------------------------------------
Given(S) == S \cup {Nil}

Status == {"open", "closed", "on_hold"}

\* A case row: one column stands for all that carry a foreign key.
Row == [status : Status, end : Given(Dates), reporter : Given(Persons)]

ASSUME SeedAssumption ==
    /\ SeedCases \in Seq(Row)
    /\ SeedAssigned \subseteq (1 .. Len(SeedCases)) \X Officers
    /\ \A c \in DOMAIN SeedCases : SeedCases[c].status = "closed" => SeedCases[c].end # Nil

\* Columns that are set: those of a payload (exclude_unset) or of a statement.
Fields ==
    {w \in UNION {[S -> Status \cup Given(Dates) \cup Given(PersonIds)] :
                    S \in SUBSET {"status", "end", "reporter"}} :
        /\ "status" \in DOMAIN w => w.status \in Status
        /\ "end" \in DOMAIN w => w.end \in Given(Dates)
        /\ "reporter" \in DOMAIN w => w.reporter \in Given(PersonIds)}

ASSUME PatchesAssumption == Patches \subseteq Fields

NoFields == [f \in {} |-> Nil]
Ends     == {NoFields} \cup [{"end"} -> Dates]

Open   == [op : {"open"}, case : {0}, given : [{"reporter"} -> PersonIds],
           officer : Given(PersonIds)]
Update == [op : {"update"}, case : CaseIds, given : Patches, officer : Given(PersonIds)]
Close  == [op : {"close"}, case : CaseIds, given : Ends, officer : {Nil}]
Staff  == [op : {"assign", "unlink"}, case : CaseIds, given : {NoFields}, officer : PersonIds]
Request == Open \cup Update \cup Close \cup Staff

VARIABLES cases,     \* the committed case rows, by id
          assigned,  \* the committed Assigned_To rows
          nextId,    \* the identity column, which no rollback resets
          req, pc,   \* each request and how far it has got
          id,        \* the case it is about
          seen,      \* the row fetch_case loaded
          wrote,     \* the columns of the case row it wrote, uncommitted
          linked     \* the requests with an uncommitted Assigned_To row

vars == <<cases, assigned, nextId, req, pc, id, seen, wrote, linked>>

Working  == {"write", "officer", "find", "link", "commit"}
Outcomes == {"done", "not_found", "refused", "conflict", "lost"}

NullRow == [status |-> "open", end |-> Nil, reporter |-> Nil]

TypeOK ==
    /\ DOMAIN cases \subseteq 0 .. nextId - 1
    /\ \A c \in DOMAIN cases : cases[c] \in Row
    /\ assigned \subseteq (DOMAIN cases) \X Officers
    /\ nextId \in Nat
    /\ req \in [Requests -> Request]
    /\ pc \in [Requests -> {"new"} \cup Working \cup Outcomes]
    /\ id \in [Requests -> Nat]
    /\ seen \in [Requests -> Row]
    /\ wrote \in [Requests -> Fields]
    /\ linked \subseteq Requests

Init ==
    /\ cases = SeedCases
    /\ assigned = SeedAssigned
    /\ nextId = 1 + Len(SeedCases)
    /\ req \in [Requests -> Request]
    /\ pc = [r \in Requests |-> "new"]
    /\ id = [r \in Requests |-> req[r].case]
    /\ seen = [r \in Requests |-> NullRow]
    /\ wrote = [r \in Requests |-> NoFields]
    /\ linked = {}
-----------------------------------------------------------------------------
Goto(r, stage) == pc' = [pc EXCEPT ![r] = stage]

\* The row with the columns of w set.
Set(row, w) == [f \in DOMAIN row |-> IF f \in DOMAIN w THEN w[f] ELSE row[f]]

\* The Assigned_To row r asks for.
Link(r) == <<id[r], req[r].officer>>

\* The transaction of r ends without a commit: its rows and its locks are gone.
Fail(r, outcome) ==
    /\ Goto(r, outcome)
    /\ wrote' = [wrote EXCEPT ![r] = NoFields]
    /\ linked' = linked \ {r}
    /\ UNCHANGED <<cases, assigned, req, id, seen>>

OnlyMoves(r, stage) ==
    /\ Goto(r, stage)
    /\ UNCHANGED <<cases, assigned, nextId, req, id, seen, wrote, linked>>

\* What follows the case row: the officer, when the payload names one.
AfterRow(r) == IF req[r].officer = Nil THEN "commit" ELSE "officer"
-----------------------------------------------------------------------------
\* Mutant: a case takes the first id that is not on file.
OpenCaseNumbered(r) ==
    /\ pc[r] = "new"
    /\ req[r].op = "open"
    /\ IF req[r].given.reporter \notin Persons
       THEN Fail(r, "conflict") /\ UNCHANGED nextId
       ELSE /\ id' = [id EXCEPT ![r] = CHOOSE n \in 1 .. nextId : n \notin DOMAIN cases]
            /\ nextId' = nextId + 1
            /\ wrote' = [wrote EXCEPT ![r] = Set(NullRow, req[r].given)]
            /\ Goto(r, AfterRow(r))
            /\ UNCHANGED <<cases, assigned, req, seen, linked>>

\* open_case: the INSERT takes an id, whether it succeeds or not, and fails on
\* a reporter or a location that does not exist.
OpenCase(r) ==
    /\ pc[r] = "new"
    /\ req[r].op = "open"
    /\ nextId' = nextId + 1
    /\ IF req[r].given.reporter \notin Persons
       THEN Fail(r, "conflict")
       ELSE /\ id' = [id EXCEPT ![r] = nextId]
            /\ wrote' = [wrote EXCEPT ![r] = Set(NullRow, req[r].given)]
            /\ Goto(r, AfterRow(r))
            /\ UNCHANGED <<cases, assigned, req, seen, linked>>

\* fetch_case; update_case refuses a case that is closed.
FetchCase(r) ==
    /\ pc[r] = "new"
    /\ req[r].op # "open"
    /\ UNCHANGED nextId
    /\ IF id[r] \notin DOMAIN cases THEN Fail(r, "not_found")
       ELSE IF req[r].op = "update" /\ cases[id[r]].status = "closed" THEN Fail(r, "refused")
       ELSE /\ seen' = [seen EXCEPT ![r] = cases[id[r]]]
            /\ Goto(r, CASE req[r].op \in {"update", "close"} -> "write"
                         [] req[r].op = "assign"              -> "officer"
                         [] req[r].op = "unlink"              -> "find")
            /\ UNCHANGED <<cases, assigned, req, id, wrote, linked>>

\* Mutant: closing through PATCH does not date the end.
TargetUndated(r) ==
    LET given == req[r].given IN
    IF req[r].op = "close"
    THEN [seen[r] EXCEPT !.status = "closed",
                         !.end = IF "end" \in DOMAIN given THEN given.end ELSE Today]
    ELSE Set(seen[r], given)

\* The attributes of the loaded row as update_case or close_case leaves them.
\* Closing dates the end unless a date is given or on file, but an end_date that
\* is given as null is written last.
Target(r) ==
    LET given   == req[r].given
        endGiven == "end" \in DOMAIN given
        closing == "status" \in DOMAIN given /\ given.status = "closed"
        undated == (endGiven => given.end = Nil) /\ seen[r].end = Nil
    IN  IF req[r].op = "close"
        THEN [seen[r] EXCEPT !.status = "closed", !.end = IF endGiven THEN given.end ELSE Today]
        ELSE Set(IF closing /\ undated THEN [seen[r] EXCEPT !.end = Today] ELSE seen[r], given)

\* Mutant: the UPDATE writes every column of the row the session holds.
SentWholeRow(r) == Target(r)

\* The columns the flush sends.
Sent(r) ==
    LET cols == {f \in DOMAIN seen[r] : Target(r)[f] # seen[r][f]}
    IN  [f \in cols |-> Target(r)[f]]

\* The flush: the UPDATE waits for the row lock and fails on a reporter who
\* does not exist; nothing is sent when nothing differs.
WriteCase(r) ==
    /\ pc[r] = "write"
    /\ UNCHANGED nextId
    /\ Sent(r) # NoFields =>
          \A q \in Requests \ {r} : wrote[q] # NoFields => id[q] # id[r]
    /\ IF "reporter" \in DOMAIN Sent(r) /\ Sent(r).reporter \notin Given(Persons)
       THEN Fail(r, "conflict")
       ELSE /\ wrote' = [wrote EXCEPT ![r] = Sent(r)]
            /\ Goto(r, AfterRow(r))
            /\ UNCHANGED <<cases, assigned, req, id, seen, linked>>

\* Mutant: anyone may be assigned.
FindAnyone(r) == pc[r] = "officer" /\ OnlyMoves(r, "find")

\* assign_officer_to_case: the person must be registered as a police officer.
FindOfficer(r) ==
    /\ pc[r] = "officer"
    /\ IF req[r].officer \in Officers THEN OnlyMoves(r, "find")
       ELSE Fail(r, "refused") /\ UNCHANGED nextId

\* The look-up of get_or_create_link and of unlink_officer_from_case.
FindLink(r) ==
    /\ pc[r] = "find"
    /\ IF req[r].op = "unlink"
       THEN IF Link(r) \in assigned THEN OnlyMoves(r, "commit")
            ELSE Fail(r, "not_found") /\ UNCHANGED nextId
       ELSE OnlyMoves(r, IF Link(r) \in assigned THEN "commit" ELSE "link")

\* get_or_create_link, the INSERT: it waits for an uncommitted row with its key
\* and fails on a committed one.
LinkOfficer(r) ==
    /\ pc[r] = "link"
    /\ UNCHANGED nextId
    /\ \A q \in linked : Link(q) # Link(r)
    /\ IF Link(r) \in assigned THEN Fail(r, "conflict")
       ELSE /\ linked' = linked \cup {r}
            /\ Goto(r, "commit")
            /\ UNCHANGED <<cases, assigned, req, id, seen, wrote>>

\* Mutant: the DELETE of unlink_officer_from_case filters on the case alone.
RemovedAll(r) == {k \in assigned : req[r].op = "unlink" /\ k[1] = id[r]}

\* The row unlink_officer_from_case marked, which only the commit deletes.
Removed(r) == {k \in assigned : req[r].op = "unlink" /\ k = Link(r)}

\* _finish_db with commit: all the request wrote becomes visible at once.
Commit(r) ==
    /\ pc[r] = "commit"
    /\ Goto(r, "done")
    /\ cases' =
          IF wrote[r] = NoFields THEN cases
          ELSE [c \in DOMAIN cases \cup {id[r]} |->
                  IF c # id[r] THEN cases[c]
                  ELSE Set(IF c \in DOMAIN cases THEN cases[c] ELSE NullRow, wrote[r])]
    /\ assigned' = (assigned \ Removed(r)) \cup (IF r \in linked THEN {Link(r)} ELSE {})
    /\ wrote' = [wrote EXCEPT ![r] = NoFields]
    /\ linked' = linked \ {r}
    /\ UNCHANGED <<nextId, req, id, seen>>

\* The task that serves r dies and PostgreSQL rolls its transaction back.
Crash(r) == pc[r] \in Working /\ Fail(r, "lost") /\ UNCHANGED nextId

Next ==
    \E r \in Requests :
        \/ OpenCase(r)    \/ FetchCase(r) \/ WriteCase(r)
        \/ FindOfficer(r) \/ FindLink(r)  \/ LinkOfficer(r)
        \/ Commit(r)      \/ Crash(r)

Spec == Init /\ [][Next]_vars
-----------------------------------------------------------------------------
\* r was answered with success and did op to case c.
Did(r, ops, c) == pc[r] = "done" /\ req[r].op \in ops /\ id[r] = c

\* A case that was closed stays closed, unless a PATCH that gives a status was
\* accepted: one that overlaps the closing but leaves the status alone does not
\* reopen the case with the status it read.
CloseStands ==
    \A r \in Requests : \A c \in DOMAIN cases : Did(r, {"close"}, c) =>
        \/ cases[c].status = "closed"
        \/ \E q \in Requests : Did(q, {"update"}, c) /\ "status" \in DOMAIN req[q].given

\* A closed case has an end date, unless an accepted PATCH gave end_date as null:
\* no mixture of a PATCH and a closing from stale rows loses it.
ClosedIsDated ==
    \A c \in DOMAIN cases : cases[c].status = "closed" /\ cases[c].end = Nil =>
        \E q \in Requests :
            /\ Did(q, {"update"}, c)
            /\ "end" \in DOMAIN req[q].given /\ req[q].given.end = Nil

\* Each accepted request to open a case has a case of its own on file, and each
\* case on file stems from the seed or from one such request: a request that
\* fails at its officer leaves no case behind, and no two share an id.
OpenedOnce ==
    /\ \A r \in Requests : pc[r] = "done" /\ req[r].op = "open" =>
          /\ id[r] \in DOMAIN cases \ DOMAIN SeedCases
          /\ \A q \in Requests \ {r} : ~ Did(q, {"open"}, id[r])
    /\ \A c \in DOMAIN cases \ DOMAIN SeedCases : \E r \in Requests : Did(r, {"open"}, c)

\* An officer whose assignment was accepted is on the case, unless a request to
\* unlink that officer was accepted too, whoever else was linked or unlinked
\* meanwhile.
AssignmentStands ==
    \A r \in Requests : pc[r] = "done" /\ req[r].op # "unlink" /\ req[r].officer # Nil =>
        \/ Link(r) \in assigned
        \/ \E q \in Requests : Did(q, {"unlink"}, id[r]) /\ Link(q) = Link(r)

\* A closed case is not updated ("Cannot update a closed case", case.py:137):
\* its row changes only by a closing.
ClosedNotUpdated ==
    [][\A c \in DOMAIN cases : cases[c].status = "closed" /\ cases'[c] # cases[c] =>
          \E r \in Requests : req[r].op = "close" /\ pc[r] = "commit" /\ pc'[r] = "done"]_vars
=============================================================================
