------------------------------ MODULE CaseLinks ------------------------------
(***************************************************************************)
(* The endpoints that tie people and evidence to a case: add a suspect, a  *)
(* witness, a victim or a piece of evidence, update a suspect, and record  *)
(* a witness's testimony against suspects.                                 *)
(*                                                                         *)
(* Each handler is a sequence of look-ups in its transaction: the row is   *)
(* there and may be updated, or it is missing and the handler inserts it   *)
(* or gives up.  PostgreSQL is at READ COMMITTED: a look-up sees what is   *)
(* committed and what its own transaction wrote, an INSERT or UPDATE waits *)
(* for the uncommitted write of another transaction to the same row, and a *)
(* transaction on a cycle of waits is aborted.                             *)
(***************************************************************************)
EXTENDS Integers, Sequences, FiniteSets

CONSTANTS Requests,       \* the write requests clients send
          CaseIds,        \* the case ids a client may name
          PersonIds,      \* the persons a client may name
          EvidenceIds,    \* the pieces of evidence a client may name
          EvidenceLists,  \* the evidence_ids a request may carry
          SuspectLists,   \* the pointed_suspects it may carry
          Texts,          \* statements, testimonies, descriptions
          SeedRows,       \* the rows the database starts with, and their texts
          New,            \* a person given by name and not by id
          Nil             \* NULL, or a field that is not given

ASSUME SentinelAssumption == New \notin PersonIds /\ Nil \notin Texts
ASSUME FiniteAssumption == IsFiniteSet(PersonIds) /\ IsFiniteSet(EvidenceIds)
ASSUME ListsAssumption ==
    EvidenceLists \subseteq Seq(EvidenceIds) /\ SuspectLists \subseteq Seq(PersonIds)

-----------------------------------------------------------------------------
\* The rows, by table and key.  A person or a piece of evidence that a request
\* creates is named by the request: identity columns repeat no id.
People == PersonIds \cup Requests

CaseRow(c)      == <<"case", c>>
Person(p)       == <<"person", p>>
Suspect(p)      == <<"suspect", p>>
Witness(p)      == <<"witness", p>>
Victim(p)       == <<"victim", p>>
Evidence(e)     == <<"evidence", e>>
InvolvedIn(c, p)   == <<"involved_in", c, p>>
TestifiesIn(c, p)  == <<"testifies_in", c, p>>
AffectedBy(c, p)   == <<"affected_by", c, p>>
CollectedFor(e, c) == <<"collected_for", c, e>>
LinkedTo(c, p, e)  == <<"linked_to", c, p, e>>
PointedTo(c, w, p) == <<"pointed_to", c, w, p>>

\* A suspect linked to evidence in a case is involved in that case and the
\* evidence is collected for it, and whoever points to a suspect testifies in
\* the case and is a witness.
Grounded(keys) ==
    \A c \in CaseIds, p \in People :
        /\ \A e \in EvidenceIds : LinkedTo(c, p, e) \in keys =>
              {InvolvedIn(c, p), CollectedFor(e, c)} \subseteq keys
        /\ \A s \in People : PointedTo(c, p, s) \in keys =>
              {TestifiesIn(c, p), Witness(p), Suspect(s)} \subseteq keys

\* So it is with the rows of seed_data.sql, and no id in them is given again.
ASSUME SeedAssumption ==
    /\ \A k \in DOMAIN SeedRows : SeedRows[k] \in Texts \cup {Nil}
    /\ \A r \in Requests : Person(r) \notin DOMAIN SeedRows
    /\ Grounded(DOMAIN SeedRows)

Request ==
    [op : {"suspect"}, case : CaseIds, person : PersonIds \cup {New},
       list : EvidenceLists, text : {Nil}]
    \cup
    [op : {"witness", "victim"}, case : CaseIds, person : PersonIds \cup {New},
       list : { << >> }, text : Texts \cup {Nil}]
    \cup
    [op : {"evidence"}, case : CaseIds, person : {Nil}, list : { << >> }, text : {Nil}]
    \cup
    [op : {"update_suspect"}, case : CaseIds, person : PersonIds, list : { << >> }, text : Texts]
    \cup
    [op : {"testimony"}, case : CaseIds, person : PersonIds, list : SuspectLists, text : Texts]

VARIABLES rows,   \* the committed rows: a function from rows to their text
          req,    \* the request each client sends
          pc,     \* how far it has got: its stage or its outcome
          at,     \* the look-up it is at
          mine,   \* the rows it inserted or updated, uncommitted
          bad     \* the requests that named evidence the case does not have

vars == <<rows, req, pc, at, mine, bad>>

Working  == {"look", "insert", "update"}
Outcomes == {"done", "not_found", "refused", "conflict", "server_error", "lost"}
-----------------------------------------------------------------------------
\* A look-up: of which row, what to set its text to, what to do when the row is
\* missing, and the row it is subject to (or << >>).
LookUp(row, text, missing) == [row |-> row, text |-> text, missing |-> missing, given |-> << >>]

Need(row, outcome) == LookUp(row, Nil, outcome)
Ensure(row)        == LookUp(row, Nil, "insert")

PersonOf(r) == IF req[r].person = New THEN r ELSE req[r].person

\* resolve_person: 404 for an unknown id; a person by name is created, and so is
\* the address that comes with it.
ResolvePerson(r) ==
    IF req[r].person = New THEN Ensure(Person(r)) ELSE Need(Person(req[r].person), "not_found")

\* link_suspect_evidence: the evidence must be collected for the case.
LinkEvidence(c, p, e) ==
    [row |-> LinkedTo(c, p, e), text |-> Nil, missing |-> "insert", given |-> CollectedFor(e, c)]

\* Mutant: a suspect is created, but not involved in the case.
AddSuspectOnly(r) ==
    LET c == req[r].case
        p == PersonOf(r)
        list == req[r].list
    IN  <<Need(CaseRow(c), "not_found"), ResolvePerson(r), Ensure(Suspect(p))>>
        \o [i \in DOMAIN list |-> LinkEvidence(c, p, list[i])]

\* Mutant: the evidence ids are linked in whatever order a set of them has.
AddSuspectUnordered(r) ==
    LET c == req[r].case
        p == PersonOf(r)
        n == Len(req[r].list)
        first == r = CHOOSE q \in Requests : TRUE
        list == IF first THEN req[r].list ELSE [i \in 1 .. n |-> req[r].list[n + 1 - i]]
    IN  <<Need(CaseRow(c), "not_found"), ResolvePerson(r),
          Ensure(Suspect(p)), Ensure(InvolvedIn(c, p))>>
        \o [i \in DOMAIN list |-> LinkEvidence(c, p, list[i])]

AddSuspect(r) ==
    LET c == req[r].case
        p == PersonOf(r)
        list == req[r].list
    IN  <<Need(CaseRow(c), "not_found"), ResolvePerson(r),
          Ensure(Suspect(p)), Ensure(InvolvedIn(c, p))>>
        \o [i \in DOMAIN list |-> LinkEvidence(c, p, list[i])]

AddWitness(r) ==
    LET c == req[r].case
        p == PersonOf(r)
    IN  <<Need(CaseRow(c), "not_found"), ResolvePerson(r),
          LookUp(Witness(p), req[r].text, "insert"), Ensure(TestifiesIn(c, p))>>

AddVictim(r) ==
    LET c == req[r].case
        p == PersonOf(r)
    IN  <<Need(CaseRow(c), "not_found"), ResolvePerson(r),
          LookUp(Victim(p), req[r].text, "insert"), Ensure(AffectedBy(c, p))>>

AddEvidence(r) ==
    <<Need(CaseRow(req[r].case), "not_found"),
      Ensure(Evidence(r)), Ensure(CollectedFor(r, req[r].case))>>

UpdateSuspect(r) ==
    LET c == req[r].case
        p == req[r].person
    IN  <<Need(CaseRow(c), "not_found"), Need(InvolvedIn(c, p), "refused"),
          LookUp(Suspect(p), req[r].text, "refused")>>

\* The text is flushed with the first look-up for a suspect.
RecordTestimony(r) ==
    LET c == req[r].case
        w == req[r].person
        pointed == [i \in 1 .. 2 * Len(req[r].list) |->
                      LET s == req[r].list[(i + 1) \div 2] IN
                      IF i % 2 = 1 THEN Need(Suspect(s), "refused") ELSE Ensure(PointedTo(c, w, s))]
    IN  <<Need(CaseRow(c), "not_found"), Need(Witness(w), "refused"),
          LookUp(TestifiesIn(c, w), req[r].text, "refused")>> \o pointed

Handler(r) ==
    CASE req[r].op = "suspect"        -> AddSuspect(r)
      [] req[r].op = "witness"        -> AddWitness(r)
      [] req[r].op = "victim"         -> AddVictim(r)
      [] req[r].op = "evidence"       -> AddEvidence(r)
      [] req[r].op = "update_suspect" -> UpdateSuspect(r)
      [] req[r].op = "testimony"      -> RecordTestimony(r)

Current(r)  == Handler(r)[at[r]]
Finished(r) == at[r] > Len(Handler(r))
-----------------------------------------------------------------------------
NoRows == [k \in {} |-> Nil]

TypeOK ==
    /\ \A k \in DOMAIN rows : rows[k] \in Texts \cup {Nil}
    /\ req \in [Requests -> Request]
    /\ pc \in [Requests -> Working \cup Outcomes]
    /\ at \in [Requests -> Nat \ {0}]
    /\ \A r \in Requests : at[r] <= Len(Handler(r)) + 1
    /\ mine = [r \in Requests |-> mine[r]]
    /\ \A r \in Requests : \A k \in DOMAIN mine[r] : mine[r][k] \in Texts \cup {Nil}
    /\ bad \subseteq Requests

Init ==
    /\ rows = SeedRows
    /\ req \in [Requests -> Request]
    /\ pc = [r \in Requests |-> "look"]
    /\ at = [r \in Requests |-> 1]
    /\ mine = [r \in Requests |-> NoRows]
    /\ bad = {}

\* What the session of r sees.
Merge(f, g) == [k \in DOMAIN f \cup DOMAIN g |-> IF k \in DOMAIN g THEN g[k] ELSE f[k]]
Visible(r)  == Merge(rows, mine[r])

Goto(r, stage) == pc' = [pc EXCEPT ![r] = stage]

\* On to the next look-up.
Advance(r) == Goto(r, "look") /\ at' = [at EXCEPT ![r] = @ + 1]

\* The transaction ends without a commit.
Fail(r, outcome) ==
    /\ Goto(r, outcome)
    /\ mine' = [mine EXCEPT ![r] = NoRows]
    /\ UNCHANGED <<rows, req, at, bad>>

\* The SELECT of a look-up.  Evidence the case does not have is noted and passed
\* over; a row that is there is updated when a text is given that differs.
Look(r) ==
    /\ pc[r] = "look" /\ ~ Finished(r)
    /\ LET i == Current(r)
           seen == Visible(r)
       IN  \/ /\ i.given # << >> /\ i.given \notin DOMAIN seen
              /\ bad' = bad \cup {r}
              /\ Advance(r)
              /\ UNCHANGED <<rows, req, mine>>
           \/ /\ i.given = << >> \/ i.given \in DOMAIN seen
              /\ IF i.row \in DOMAIN seen
                 THEN IF i.text \in {Nil, seen[i.row]}
                      THEN Advance(r) /\ UNCHANGED <<rows, req, mine, bad>>
                      ELSE Goto(r, "update") /\ UNCHANGED <<rows, req, at, mine, bad>>
                 ELSE IF i.missing = "insert"
                 THEN Goto(r, "insert") /\ UNCHANGED <<rows, req, at, mine, bad>>
                 ELSE Fail(r, i.missing)

\* q has an uncommitted write to the row r is about to write.
WaitsFor(r, q) ==
    /\ q # r
    /\ pc[r] \in {"insert", "update"}
    /\ Current(r).row \in DOMAIN mine[q]

Blocked(r) == \E q \in Requests : WaitsFor(r, q)

\* The INSERT: it fails on a row with its key that was committed since the look.
Insert(r) ==
    /\ pc[r] = "insert"
    /\ ~ Blocked(r)
    /\ IF Current(r).row \in DOMAIN rows THEN Fail(r, "conflict")
       ELSE /\ mine' = [mine EXCEPT ![r] =
                          Merge(@, [k \in {Current(r).row} |-> Current(r).text])]
            /\ Advance(r)
            /\ UNCHANGED <<rows, req, bad>>

Update(r) ==
    /\ pc[r] = "update"
    /\ ~ Blocked(r)
    /\ mine' = [mine EXCEPT ![r] = Merge(@, [k \in {Current(r).row} |-> Current(r).text])]
    /\ Advance(r)
    /\ UNCHANGED <<rows, req, bad>>

\* Mutant: the rows are committed before the evidence ids are judged.
FinishEagerly(r) ==
    /\ pc[r] = "look" /\ Finished(r)
    /\ rows' = Visible(r)
    /\ mine' = [mine EXCEPT ![r] = NoRows]
    /\ Goto(r, IF r \in bad THEN "refused" ELSE "done")
    /\ UNCHANGED <<req, at, bad>>

\* The handler returns and the middleware commits; or it raises for the evidence
\* ids it noted, and the middleware rolls back.
Finish(r) ==
    /\ pc[r] = "look" /\ Finished(r)
    /\ IF r \in bad THEN Fail(r, "refused")
       ELSE /\ rows' = Visible(r)
            /\ mine' = [mine EXCEPT ![r] = NoRows]
            /\ Goto(r, "done")
            /\ UNCHANGED <<req, at, bad>>

\* r is on a cycle of waits: PostgreSQL aborts it, OperationalError has no
\* handler in main.py, and the client gets 500.
BreakDeadlock(r) ==
    /\ \E S \in SUBSET Requests : r \in S /\ \A q \in S : \E s \in S : WaitsFor(q, s)
    /\ Fail(r, "server_error")

\* The task that serves r dies.
Crash(r) == pc[r] \in Working /\ Fail(r, "lost")

Next ==
    \E r \in Requests :
        \/ Look(r)   \/ Insert(r)        \/ Update(r)
        \/ Finish(r) \/ BreakDeadlock(r) \/ Crash(r)

Spec == Init /\ [][Next]_vars
-----------------------------------------------------------------------------
\* What the rows say hangs together, whoever wrote them and in whatever order:
\* the schema ties Linked_to to Collected_For but not to Involved_In, so that
\* part is the code's alone.
LinksAreGrounded == Grounded(DOMAIN rows)

\* The rows r asks for, apart from those it only reads.
Wanted(r) == {Handler(r)[i].row : i \in {j \in DOMAIN Handler(r) : Handler(r)[j].missing = "insert"}}

\* A failed request leaves no partial write (tests/test_api.py:1076), and one
\* that succeeds leaves nothing out: what is on file is the seed and what the
\* requests answered with success asked for.
AllOrNothing ==
    DOMAIN rows =
        DOMAIN SeedRows \cup UNION {Wanted(r) : r \in {q \in Requests : pc[q] = "done"}}

Items(S) == UNION {{req[r].list[i] : i \in DOMAIN req[r].list} : r \in S}

\* There is an order of what they name that the lists of all requests in S follow.
OneOrder(S) ==
    \E rank \in [Items(S) -> 1 .. Cardinality(Items(S))] :
        \A r \in S : \A i, j \in DOMAIN req[r].list :
            i < j => rank[req[r].list[i]] < rank[req[r].list[j]]

\* Requests of one kind, on one person in one case, whose lists follow no common
\* order.
Disorder ==
    \E S \in SUBSET Requests :
        /\ \A p, q \in S : /\ req[p].op = req[q].op /\ req[p].case = req[q].case
                          /\ req[p].person = req[q].person
        /\ ~ OneOrder(S)

\* No mix of handlers deadlocks, nor do two calls of one: the sole cause is
\* disorder in the lists of what they name.
OnlyDisorderDeadlocks == (\E r \in Requests : pc[r] = "server_error") => Disorder
=============================================================================
