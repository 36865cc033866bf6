---------------------------- MODULE CaseFileProofs ----------------------------
(***************************************************************************)
(* Theorems about CaseFile, for any requests, cases, persons and payloads. *)
(* The handlers work on rows they read without a lock, so the invariant    *)
(* says what is left of such a row by the time it is used: what it shows   *)
(* as closed or dated is so still, or an accepted PATCH has changed it.    *)
(***************************************************************************)
EXTENDS CaseFile, TLAPS

Cols == {"status", "end", "reporter"}

\* Columns that may be committed: their reporter is on file.
Sound(w) == w \in Fields /\ ("reporter" \in DOMAIN w => w.reporter \in Given(Persons))

\* An accepted PATCH gave case c a status, or gave its end date as null.
StatusPatched(c) == \E q \in Requests : Did(q, {"update"}, c) /\ "status" \in DOMAIN req[q].given
EndNulled(c) ==
    \E q \in Requests :
        /\ Did(q, {"update"}, c)
        /\ "end" \in DOMAIN req[q].given /\ req[q].given.end = Nil

StatusKept(c) == cases[c].status = "closed" \/ StatusPatched(c)
EndKept(c)    == cases[c].end # Nil \/ EndNulled(c)

\* The officer r names is on the case, or was unlinked since.
Assigned(r) ==
    \/ Link(r) \in assigned
    \/ \E q \in Requests : Did(q, {"unlink"}, id[r]) /\ Link(q) = Link(r)

Names(r) == req[r].op # "unlink" /\ req[r].officer # Nil

\* The stages after the case row was written.
Later == {"officer", "find", "link", "commit"}

\* What r has written of the case row.
Statement(r) ==
    IF pc[r] \notin Later \/ req[r].op \in {"assign", "unlink"} THEN NoFields
    ELSE IF req[r].op = "open" THEN Set(NullRow, req[r].given)
    ELSE Sent(r)

StageOK(r) ==
    /\ req[r].op # "open" => id[r] = req[r].case
    /\ pc[r] = "write" => req[r].op \in {"update", "close"}
    /\ pc[r] \in {"officer", "link"} => Names(r)
    /\ pc[r] \in {"find", "link", "commit"} /\ Names(r) => req[r].officer \in Officers
    /\ pc[r] = "find" => req[r].op = "unlink" \/ Names(r)
    /\ pc[r] \in Working \cup {"done"} /\ req[r].op # "open" => id[r] \in DOMAIN cases
    /\ wrote[r] = Statement(r) /\ Sound(wrote[r])
    /\ r \in linked => pc[r] = "commit" /\ Names(r)
    /\ pc[r] = "commit" /\ Names(r) => r \in linked \/ Assigned(r)

\* What r has read of the row is so still, or a PATCH has changed it.
SeenKept(r) ==
    pc[r] \in Working /\ req[r].op \in {"update", "close"} =>
        /\ seen[r].status = "closed" => StatusKept(id[r])
        /\ seen[r].end # Nil => EndKept(id[r])

\* Uncommitted rows are locked.
RowLocks  == \A r, q \in Requests : r # q /\ wrote[r] # NoFields /\ wrote[q] # NoFields => id[r] # id[q]
LinkLocks == \A r, q \in linked : r # q => Link(r) # Link(q)

\* r has inserted a case.
Opener(r) == req[r].op = "open" /\ pc[r] \in Later \cup {"done"}

Numbered ==
    /\ nextId > Len(SeedCases)
    /\ DOMAIN SeedCases \subseteq DOMAIN cases
    /\ \A r \in Requests : Opener(r) =>
          /\ Len(SeedCases) < id[r] /\ id[r] < nextId
          /\ pc[r] # "done" => id[r] \notin DOMAIN cases
          /\ \A q \in Requests : r # q /\ Opener(q) => id[r] # id[q]

IInv ==
    /\ TypeOK /\ RowLocks /\ LinkLocks /\ Numbered
    /\ \A r \in Requests : StageOK(r) /\ SeenKept(r)
    /\ CloseStands /\ ClosedIsDated /\ OpenedOnce /\ AssignmentStands
-----------------------------------------------------------------------------
LEMMA RowShape ==
    ASSUME NEW row \in Row
    PROVE  /\ DOMAIN row = Cols
           /\ row.status \in Status /\ row.end \in Given(Dates) /\ row.reporter \in Given(Persons)
<1> QED
  BY DEF Row, Cols

LEMMA RowFromColumns ==
    ASSUME NEW row, row = [f \in Cols |-> row[f]],
           row.status \in Status, row.end \in Given(Dates), row.reporter \in Given(Persons)
    PROVE  row \in Row
<1> QED
  BY DEF Row, Cols

LEMMA FieldsShape ==
    ASSUME NEW w \in Fields
    PROVE  /\ DOMAIN w \subseteq Cols
           /\ w = [f \in DOMAIN w |-> w[f]]
           /\ "status" \in DOMAIN w => w.status \in Status
           /\ "end" \in DOMAIN w => w.end \in Given(Dates)
           /\ "reporter" \in DOMAIN w => w.reporter \in Given(PersonIds)
<1> QED
  BY DEF Fields, Cols

LEMMA FieldsFromColumns ==
    ASSUME NEW w, w = [f \in DOMAIN w |-> w[f]], DOMAIN w \subseteq Cols,
           "status" \in DOMAIN w => w.status \in Status,
           "end" \in DOMAIN w => w.end \in Given(Dates),
           "reporter" \in DOMAIN w => w.reporter \in Given(PersonIds)
    PROVE  w \in Fields
<1> DEFINE V == Status \cup Given(Dates) \cup Given(PersonIds)
<1>1. \A f \in DOMAIN w : w[f] \in V
  BY DEF Cols
<1>2. w \in [DOMAIN w -> V]
  BY <1>1
<1>3. DOMAIN w \in SUBSET {"status", "end", "reporter"}
  BY DEF Cols
<1> QED
  BY <1>2, <1>3 DEF Fields

LEMMA NoFieldsShape == NoFields \in Fields /\ DOMAIN NoFields = {} /\ Sound(NoFields)
<1>1. DOMAIN NoFields = {} /\ NoFields = [f \in DOMAIN NoFields |-> NoFields[f]]
  BY DEF NoFields
<1> QED
  BY <1>1, FieldsFromColumns DEF Sound

LEMMA EmptyFields ==
    ASSUME NEW w \in Fields, DOMAIN w = {}
    PROVE  w = NoFields
<1> QED
  BY FieldsShape DEF NoFields

\* A statement replaces the columns it carries and no others.
LEMMA SetColumns ==
    ASSUME NEW row \in Row, NEW w \in Fields
    PROVE  /\ DOMAIN Set(row, w) = Cols
           /\ Set(row, w) = [f \in Cols |-> Set(row, w)[f]]
           /\ Set(row, w).status = IF "status" \in DOMAIN w THEN w.status ELSE row.status
           /\ Set(row, w).end = IF "end" \in DOMAIN w THEN w.end ELSE row.end
           /\ Set(row, w).reporter = IF "reporter" \in DOMAIN w THEN w.reporter ELSE row.reporter
<1>1. DOMAIN row = Cols
  BY RowShape
<1> QED
  BY <1>1 DEF Set, Cols

LEMMA SetType ==
    ASSUME NEW row \in Row, NEW w, Sound(w)
    PROVE  Set(row, w) \in Row
<1>1. w \in Fields
  BY DEF Sound
<1>2. /\ Set(row, w).status \in Status
      /\ Set(row, w).end \in Given(Dates)
      /\ Set(row, w).reporter \in Given(Persons)
  BY <1>1, SetColumns, RowShape, FieldsShape DEF Sound
<1> QED
  BY <1>1, <1>2, SetColumns, RowFromColumns

LEMMA NullRowType == NullRow \in Row
<1> QED
  BY DEF NullRow, Row, Status, Given

\* What a request may carry.
LEMMA RequestType ==
    ASSUME NEW q \in Request
    PROVE  /\ q.op \in {"open", "update", "close", "assign", "unlink"}
           /\ q.given \in Fields
           /\ q.officer \in Given(PersonIds)
           /\ q.op = "open" => q.case = 0 /\ DOMAIN q.given = {"reporter"} /\ q.given.reporter \in PersonIds
           /\ q.op # "open" => q.case \in Nat
           /\ q.op = "close" =>
                 /\ q.officer = Nil
                 /\ DOMAIN q.given \subseteq {"end"}
                 /\ "end" \in DOMAIN q.given => q.given.end \in Dates
           /\ q.op \in {"assign", "unlink"} => q.officer \in PersonIds
<1>1. CASE q \in Open
  <2>1. q.given \in [{"reporter"} -> PersonIds]
    BY <1>1 DEF Open
  <2>2. q.given \in Fields
    BY <2>1, FieldsFromColumns DEF Cols, Given
  <2> QED
    BY <1>1, <2>1, <2>2 DEF Open
<1>2. CASE q \in Update
  BY <1>2, PatchesAssumption, IdsAssumption DEF Update
<1>3. CASE q \in Close
  <2>1. q.given = NoFields \/ q.given \in [{"end"} -> Dates]
    BY <1>3 DEF Close, Ends
  <2>2. q.given \in Fields
    <3>1. CASE q.given = NoFields
      BY <3>1, NoFieldsShape
    <3>2. CASE q.given \in [{"end"} -> Dates]
      BY <3>2, FieldsFromColumns DEF Cols, Given
    <3> QED
      BY <2>1, <3>1, <3>2
  <2> QED
    BY <1>3, <2>1, <2>2, NoFieldsShape, IdsAssumption DEF Close, Given
<1>4. CASE q \in Staff
  BY <1>4, NoFieldsShape, IdsAssumption DEF Staff, Given
<1> QED
  BY <1>1, <1>2, <1>3, <1>4 DEF Request
-----------------------------------------------------------------------------
\* What update_case and close_case make of the row they read.
LEMMA TargetColumns ==
    ASSUME NEW r, seen[r] \in Row, req[r] \in Request, req[r].op \in {"update", "close"}
    PROVE  /\ DOMAIN Target(r) = Cols
           /\ Target(r).status =
                IF req[r].op = "close" THEN "closed"
                ELSE IF "status" \in DOMAIN req[r].given THEN req[r].given.status ELSE seen[r].status
           /\ Target(r).end \in Given(Dates)
           /\ Target(r).end = Nil =>
                \/ req[r].op = "update" /\ "end" \in DOMAIN req[r].given /\ req[r].given.end = Nil
                \/ Target(r).status # "closed" /\ seen[r].end = Nil
                \/ Target(r).status = seen[r].status /\ seen[r].end = Nil
           /\ Target(r).reporter =
                IF "reporter" \in DOMAIN req[r].given THEN req[r].given.reporter ELSE seen[r].reporter
<1> DEFINE given == req[r].given
<1>1. given \in Fields
  BY RequestType
<1>2. Today \in Dates /\ Today # Nil
  BY DatesAssumption
<1>3. CASE req[r].op = "close"
  <2>1. "end" \in DOMAIN given => given.end \in Dates
    BY <1>3, RequestType
  <2>2. DOMAIN given \subseteq {"end"}
    BY <1>3, RequestType
  <2>3. Target(r) = [seen[r] EXCEPT !.status = "closed",
                                   !.end = IF "end" \in DOMAIN given THEN given.end ELSE Today]
    BY <1>3 DEF Target
  <2>4. /\ DOMAIN Target(r) = Cols
        /\ Target(r).status = "closed"
        /\ Target(r).end = IF "end" \in DOMAIN given THEN given.end ELSE Today
        /\ Target(r).reporter = seen[r].reporter
    BY <2>3, RowShape DEF Cols
  <2> QED
    BY <1>2, <1>3, <2>1, <2>2, <2>4, DatesAssumption DEF Given
<1>4. CASE req[r].op = "update"
  <2> DEFINE closing == "status" \in DOMAIN given /\ given.status = "closed"
             lacking == ("end" \in DOMAIN given => given.end = Nil) /\ seen[r].end = Nil
             row     == IF closing /\ lacking THEN [seen[r] EXCEPT !.end = Today] ELSE seen[r]
  <2>1. Target(r) = Set(row, given)
    BY <1>4 DEF Target
  <2>2. /\ row \in Row /\ row.status = seen[r].status /\ row.reporter = seen[r].reporter
        /\ row.end = IF closing /\ lacking THEN Today ELSE seen[r].end
    BY <1>2, RowShape DEF Cols, Row, Given
  <2>3. row.end = Nil =>
          /\ seen[r].end = Nil
          /\ ~ closing \/ ("end" \in DOMAIN given /\ given.end # Nil)
    BY <1>2, <2>2
  <2> HIDE DEF row
  <2>4. /\ DOMAIN Target(r) = Cols
        /\ Target(r).status = IF "status" \in DOMAIN given THEN given.status ELSE seen[r].status
        /\ Target(r).end = IF "end" \in DOMAIN given THEN given.end ELSE row.end
        /\ Target(r).reporter =
             IF "reporter" \in DOMAIN given THEN given.reporter ELSE seen[r].reporter
    BY <1>1, <2>1, <2>2, SetColumns
  <2>5. Target(r).end \in Given(Dates)
    BY <1>1, <2>2, <2>4, FieldsShape, RowShape
  <2>6. ASSUME Target(r).end = Nil, ~ ("end" \in DOMAIN given /\ given.end = Nil)
        PROVE  /\ seen[r].end = Nil
               /\ Target(r).status # "closed" \/ Target(r).status = seen[r].status
    BY <2>3, <2>4, <2>6
  <2> QED
    BY <1>4, <2>4, <2>5, <2>6
<1> QED
  BY <1>3, <1>4

\* The columns an UPDATE carries are those update_case or close_case changed.
LEMMA SentColumns ==
    ASSUME NEW r, seen[r] \in Row, req[r] \in Request, req[r].op \in {"update", "close"}
    PROVE  /\ Sent(r) \in Fields
           /\ \A f \in Cols : f \in DOMAIN Sent(r) <=> Target(r)[f] # seen[r][f]
           /\ \A f \in DOMAIN Sent(r) : Sent(r)[f] = Target(r)[f]
<1>1. DOMAIN seen[r] = Cols
  BY RowShape
<1>2. /\ DOMAIN Sent(r) = {f \in Cols : Target(r)[f] # seen[r][f]}
      /\ Sent(r) = [f \in DOMAIN Sent(r) |-> Sent(r)[f]]
      /\ \A f \in DOMAIN Sent(r) : Sent(r)[f] = Target(r)[f]
  BY <1>1 DEF Sent
<1>3. req[r].given \in Fields
  BY RequestType
<1>4. "status" \in DOMAIN Sent(r) => Sent(r).status \in Status
  BY <1>2, <1>3, TargetColumns, RowShape, FieldsShape DEF Status
<1>5. "end" \in DOMAIN Sent(r) => Sent(r).end \in Given(Dates)
  BY <1>2, TargetColumns
<1>6. "reporter" \in DOMAIN Sent(r) => Sent(r).reporter \in Given(PersonIds)
  BY <1>2, <1>3, TargetColumns, RowShape, FieldsShape, PeopleAssumption DEF Given
<1>7. Sent(r) \in Fields
  BY <1>2, <1>4, <1>5, <1>6, FieldsFromColumns
<1> QED
  BY <1>2, <1>7

LEMMA OpenedRow ==
    ASSUME NEW r, req[r] \in Request, req[r].op = "open", req[r].given.reporter \in Persons
    PROVE  /\ Set(NullRow, req[r].given) \in Row
           /\ Sound(Set(NullRow, req[r].given))
           /\ Set(NullRow, req[r].given) # NoFields
           /\ Set(NullRow, req[r].given).status = "open"
<1>1. Sound(req[r].given) /\ DOMAIN req[r].given = {"reporter"}
  BY RequestType DEF Sound, Given
<1>2. Set(NullRow, req[r].given) \in Row
  BY <1>1, NullRowType, SetType
<1>3. Set(NullRow, req[r].given).status = "open"
  BY <1>1, NullRowType, SetColumns DEF Sound, NullRow
<1>4. Sound(Set(NullRow, req[r].given))
  BY <1>1, <1>2, NullRowType, SetColumns, RowShape, FieldsFromColumns, PeopleAssumption
     DEF Sound, Given
<1> QED
  BY <1>2, <1>3, <1>4, RowShape, NoFieldsShape DEF Cols
-----------------------------------------------------------------------------
\* What everybody but r has is left alone.
Others(r) ==
    \A q \in Requests \ {r} :
        /\ pc'[q] = pc[q] /\ id'[q] = id[q] /\ seen'[q] = seen[q] /\ wrote'[q] = wrote[q]
        /\ q \in linked' <=> q \in linked

LEMMA StatementKept ==
    ASSUME NEW q, req' = req, pc'[q] = pc[q], seen'[q] = seen[q]
    PROVE  Statement(q)' = Statement(q)
<1> QED
  BY DEF Statement, Sent, Target

\* A step that neither commits nor answers with success: what is said of the
\* committed state and of other requests stays true.
LEMMA QuietStep ==
    ASSUME IInv, NEW r \in Requests,
           cases' = cases, assigned' = assigned, req' = req, Others(r),
           pc[r] # "done", pc'[r] # "done",
           TypeOK', RowLocks', LinkLocks', Numbered', StageOK(r)', SeenKept(r)'
    PROVE  IInv'
<1>1. \A q \in Requests : \A ops, c : Did(q, ops, c)' <=> Did(q, ops, c)
  BY DEF Others, Did
<1>2. \A q \in Requests : pc'[q] = "done" => q # r /\ pc[q] = "done" /\ id'[q] = id[q]
  BY DEF Others
<1>3. ASSUME NEW q \in Requests \ {r} PROVE StageOK(q)' /\ SeenKept(q)'
  <2>1. StageOK(q) /\ SeenKept(q)
    BY DEF IInv
  <2>2. Statement(q)' = Statement(q)
    BY StatementKept DEF Others
  <2>3. Assigned(q)' <=> Assigned(q)
    <3>1. Link(q)' = Link(q)
      BY DEF Others, Link
    <3>2. \A p \in Requests : Did(p, {"unlink"}, id[q]) => Link(p)' = Link(p)
      BY DEF Did, Link, Others
    <3> QED
      BY <1>1, <3>1, <3>2 DEF Assigned, Others
  <2>4. StageOK(q)'
    BY <2>1, <2>2, <2>3 DEF StageOK, Others, Names, Sound
  <2>5. SeenKept(q)'
    BY <1>1, <2>1 DEF SeenKept, Others, StatusKept, EndKept, StatusPatched, EndNulled
  <2> QED
    BY <2>4, <2>5
<1>4. CloseStands' /\ ClosedIsDated'
  BY <1>1 DEF IInv, CloseStands, ClosedIsDated
<1>5. OpenedOnce'
  BY <1>1, <1>2 DEF IInv, OpenedOnce
<1>6. AssignmentStands'
  <2>1. ASSUME NEW q \in Requests, pc'[q] = "done", Names(q)
        PROVE  Assigned(q)'
    <3>1. q # r /\ pc[q] = "done" /\ Assigned(q)
      BY <1>2, <2>1 DEF IInv, AssignmentStands, Names, Assigned
    <3> QED
      BY <3>1 DEF Assigned, Others, Did, Link
  <2> QED
    BY <2>1 DEF AssignmentStands, Names, Assigned, Did, Link
<1> QED
  BY <1>3, <1>4, <1>5, <1>6 DEF IInv
-----------------------------------------------------------------------------
LEMMA InitIInv == Init => IInv
<1> SUFFICES ASSUME Init PROVE IInv
  OBVIOUS
<1> USE DEF Init
<1>1. /\ DOMAIN cases = 1 .. Len(SeedCases) /\ Len(SeedCases) \in Nat
      /\ \A c \in DOMAIN cases : cases[c] \in Row
  BY SeedAssumption
<1>2. \A r \in Requests :
        /\ req[r] \in Request /\ pc[r] = "new" /\ id[r] = req[r].case /\ id[r] \in Nat
        /\ seen[r] = NullRow /\ wrote[r] = NoFields
  <2> TAKE r \in Requests
  <2>1. req[r] \in Request
    OBVIOUS
  <2>2. req[r].case \in Nat
    BY <2>1, RequestType
  <2> QED
    BY <2>1, <2>2
<1>3. TypeOK
  <2>1. DOMAIN cases \subseteq 0 .. nextId - 1 /\ nextId \in Nat
    BY <1>1
  <2>2. assigned \subseteq (DOMAIN cases) \X Officers
    BY <1>1, SeedAssumption
  <2> QED
    BY <1>1, <1>2, <2>1, <2>2, NullRowType, NoFieldsShape DEF TypeOK
<1>4. RowLocks /\ LinkLocks /\ Numbered
  BY <1>1, <1>2 DEF RowLocks, LinkLocks, Numbered, Opener, Later
<1>5. ASSUME NEW r \in Requests PROVE StageOK(r) /\ SeenKept(r)
  <2>1. Statement(r) = NoFields
    BY <1>2 DEF Statement, Later
  <2> QED
    BY <1>2, <2>1, NoFieldsShape DEF StageOK, SeenKept, Working
<1>6. CloseStands /\ OpenedOnce /\ AssignmentStands
  BY <1>2 DEF CloseStands, OpenedOnce, AssignmentStands, Did
<1>7. ClosedIsDated
  BY SeedAssumption DEF ClosedIsDated
<1> QED
  BY <1>3, <1>4, <1>5, <1>6, <1>7 DEF IInv

\* The transaction of r ends without a commit.
LEMMA FailStep ==
    ASSUME IInv, NEW r \in Requests, NEW o \in Outcomes \ {"done"}, Fail(r, o),
           pc[r] # "done", nextId' \in Nat, nextId' >= nextId
    PROVE  IInv'
<1> USE DEF IInv, Fail, Goto
<1>1. Others(r) /\ pc'[r] = o /\ wrote'[r] = NoFields /\ r \notin linked'
  BY DEF Others, TypeOK
<1>2. o \notin Later \cup Working \cup {"new", "done"}
  BY DEF Outcomes, Later, Working
<1>3. TypeOK'
  <2>1. DOMAIN cases \subseteq 0 .. nextId' - 1
    BY DEF TypeOK
  <2> QED
    BY <2>1, NoFieldsShape DEF TypeOK
<1>4. RowLocks' /\ LinkLocks'
  BY <1>1 DEF RowLocks, LinkLocks, Others, TypeOK, Link
<1>5. Numbered'
  <2>1. ~ Opener(r)'
    BY <1>1, <1>2 DEF Opener
  <2>2. \A q \in Requests : Opener(q)' => Opener(q) /\ pc'[q] = pc[q]
    BY <1>1, <2>1 DEF Opener, Others
  <2>3. nextId \in Nat /\ Len(SeedCases) \in Nat /\ id \in [Requests -> Nat]
    BY SeedAssumption DEF TypeOK
  <2> QED
    BY <2>2, <2>3 DEF Numbered
<1>6. StageOK(r)'
  <2>1. Statement(r)' = NoFields
    BY <1>1, <1>2 DEF Statement
  <2>2. req[r].op # "open" => id[r] = req[r].case
    BY DEF StageOK
  <2> QED
    BY <1>1, <1>2, <2>1, <2>2, NoFieldsShape DEF StageOK, Working, Later, Sound
<1>7. SeenKept(r)'
  BY <1>1, <1>2 DEF SeenKept
<1> QED
  BY <1>1, <1>2, <1>3, <1>4, <1>5, <1>6, <1>7, QuietStep

LEMMA StageFacts ==
    ASSUME IInv, NEW r \in Requests
    PROVE  /\ req[r] \in Request /\ id[r] \in Nat /\ seen[r] \in Row
           /\ r \in DOMAIN pc /\ r \in DOMAIN id /\ r \in DOMAIN seen /\ r \in DOMAIN wrote
           /\ StageOK(r) /\ SeenKept(r)
           /\ nextId \in Nat /\ Len(SeedCases) \in Nat
<1> QED
  BY SeedAssumption DEF IInv, TypeOK

\* A step of r that only moves it on, having written nothing and with its
\* case as it was.
LEMMA MoveStep ==
    ASSUME IInv, NEW r \in Requests, NEW stage \in Working, OnlyMoves(r, stage),
           pc[r] \in Later \ {"commit"}, stage \in Later,
           StageOK(r)'
    PROVE  IInv'
<1> USE DEF IInv, OnlyMoves, Goto
<1>1. Others(r) /\ pc'[r] = stage
  BY StageFacts DEF Others
<1>2. pc[r] \in Working /\ pc[r] # "done" /\ stage # "done"
  BY DEF Later, Working
<1>3. TypeOK' /\ RowLocks' /\ LinkLocks'
  BY DEF TypeOK, RowLocks, LinkLocks, Link
<1>4. Numbered'
  <2>1. \A q \in Requests : Opener(q)' => Opener(q) /\ (pc'[q] # "done" => pc[q] # "done")
    BY <1>1, <1>2 DEF Opener, Others
  <2> QED
    BY <2>1 DEF Numbered
<1>5. SeenKept(r)'
  <2>1. \A q \in Requests : \A ops, c : Did(q, ops, c)' <=> Did(q, ops, c)
    BY <1>1, <1>2 DEF Others, Did
  <2> QED
    BY <1>2, <2>1 DEF SeenKept, StatusKept, EndKept, StatusPatched, EndNulled
<1> QED
  BY <1>1, <1>2, <1>3, <1>4, <1>5, QuietStep

LEMMA OpenCaseStep ==
    ASSUME IInv, NEW r \in Requests, OpenCase(r)
    PROVE  IInv'
<1> USE DEF IInv, OpenCase
<1> req[r] \in Request /\ nextId \in Nat /\ pc[r] = "new" /\ req[r].op = "open"
  BY StageFacts
<1>1. CASE req[r].given.reporter \notin Persons
  BY <1>1, FailStep DEF Outcomes
<1>2. CASE req[r].given.reporter \in Persons
  <2> DEFINE row == Set(NullRow, req[r].given)
  <2>1. /\ row \in Row /\ Sound(row) /\ row # NoFields
    BY <1>2, OpenedRow
  <2> HIDE DEF row
  <2>2. /\ wrote' = [wrote EXCEPT ![r] = row] /\ id' = [id EXCEPT ![r] = nextId]
        /\ pc' = [pc EXCEPT ![r] = AfterRow(r)] /\ nextId' = nextId + 1
        /\ UNCHANGED <<cases, assigned, req, seen, linked>>
    BY <1>2 DEF Goto, row
  <2>3. Others(r) /\ pc'[r] = AfterRow(r) /\ id'[r] = nextId /\ wrote'[r] = row
    BY <2>2, StageFacts DEF Others
  <2>4. AfterRow(r) \in {"commit", "officer"} /\ (AfterRow(r) = "commit" <=> req[r].officer = Nil)
    BY DEF AfterRow
  <2>5. TypeOK'
    <3>1. DOMAIN cases \subseteq 0 .. nextId' - 1 /\ nextId' \in Nat
      BY <2>2 DEF TypeOK
    <3>2. wrote' \in [Requests -> Fields]
      BY <2>1, <2>2 DEF TypeOK, Sound
    <3> QED
      BY <2>2, <2>4, <3>1, <3>2 DEF TypeOK, Working
  <2>6. nextId \notin DOMAIN cases
    BY DEF TypeOK
  <2>7. \A q \in Requests \ {r} : pc[q] \in Working => id[q] # nextId
    <3> TAKE q \in Requests \ {r}
    <3> HAVE pc[q] \in Working
    <3>1. CASE req[q].op = "open"
      <4>1. pc[q] \in Later
        BY <3>1, StageFacts DEF StageOK, Working, Later
      <4> QED
        BY <3>1, <4>1, StageFacts DEF Numbered, Opener
    <3>2. CASE req[q].op # "open"
      BY <2>6, <3>2, StageFacts DEF StageOK
    <3> QED
      BY <3>1, <3>2
  <2>8. RowLocks'
    <3>1. \A q \in Requests : wrote[q] # NoFields => pc[q] \in Working
      BY StageFacts DEF StageOK, Statement, Later, Working
    <3> QED
      BY <2>2, <2>3, <2>7, <3>1 DEF RowLocks, Others
  <2>9. r \notin linked
    BY StageFacts DEF StageOK
  <2>10. LinkLocks'
    BY <2>2, <2>3, <2>9 DEF LinkLocks, Link, Others, TypeOK
  <2>11. Numbered'
    <3>1. nextId > Len(SeedCases) /\ nextId' > nextId
      BY <2>2, StageFacts DEF Numbered
    <3>2. \A q \in Requests \ {r} : Opener(q)' =>
            Opener(q) /\ pc'[q] = pc[q] /\ id'[q] = id[q] /\ id[q] < nextId /\ id[q] \in Nat
      BY <2>2, <2>3, StageFacts DEF Opener, Others, Numbered
    <3> QED
      BY <2>2, <2>3, <2>6, <3>1, <3>2, StageFacts DEF Numbered
  <2>12. StageOK(r)'
    <3>1. Statement(r)' = row
      BY <2>2, <2>3, <2>4 DEF Statement, Later, row
    <3> QED
      BY <2>1, <2>2, <2>3, <2>4, <2>9, <3>1 DEF StageOK, Names, Sound
  <2>13. SeenKept(r)'
    BY <2>2 DEF SeenKept
  <2> QED
    BY <2>2, <2>3, <2>4, <2>5, <2>8, <2>10, <2>11, <2>12, <2>13, QuietStep
<1> QED
  BY <1>1, <1>2

LEMMA FetchCaseStep ==
    ASSUME IInv, NEW r \in Requests, FetchCase(r)
    PROVE  IInv'
<1> USE DEF IInv, FetchCase
<1> req[r] \in Request /\ nextId \in Nat /\ pc[r] = "new" /\ req[r].op # "open" /\ nextId' = nextId
  BY StageFacts
<1>1. CASE Fail(r, "not_found") \/ Fail(r, "refused")
  BY <1>1, FailStep DEF Outcomes
<1>2. CASE ~ (Fail(r, "not_found") \/ Fail(r, "refused"))
  <2> DEFINE stage == CASE req[r].op \in {"update", "close"} -> "write"
                        [] req[r].op = "assign"              -> "officer"
                        [] req[r].op = "unlink"              -> "find"
  <2>1. /\ id[r] \in DOMAIN cases
        /\ seen' = [seen EXCEPT ![r] = cases[id[r]]]
        /\ pc' = [pc EXCEPT ![r] = stage]
        /\ UNCHANGED <<cases, assigned, req, id, wrote, linked>>
    BY <1>2 DEF Goto
  <2>2. req[r].op \in {"update", "close", "assign", "unlink"}
    BY RequestType
  <2>3. /\ stage = "write" <=> req[r].op \in {"update", "close"}
        /\ stage = "officer" <=> req[r].op = "assign"
        /\ stage = "find" <=> req[r].op = "unlink"
        /\ stage \in {"write", "officer", "find"}
    BY <2>2
  <2> HIDE DEF stage
  <2>4. Others(r) /\ pc'[r] = stage /\ seen'[r] = cases[id[r]]
    BY <2>1, StageFacts DEF Others
  <2>5. TypeOK'
    BY <2>1, <2>3 DEF TypeOK, Working
  <2>6. RowLocks' /\ LinkLocks'
    BY <2>1 DEF RowLocks, LinkLocks, Link
  <2>7. Numbered'
    <3>1. \A q \in Requests : Opener(q)' => Opener(q) /\ pc'[q] = pc[q]
      BY <2>1, <2>4 DEF Opener, Others
    <3> QED
      BY <2>1, <3>1 DEF Numbered
  <2>8. wrote[r] = NoFields /\ r \notin linked /\ id[r] = req[r].case
    BY StageFacts DEF StageOK, Statement, Later
  <2>9. StageOK(r)'
    <3>1. Statement(r)' = NoFields
      BY <2>1, <2>2, <2>3, <2>4 DEF Statement, Later
    <3>2. req[r].op = "assign" => req[r].officer # Nil
      BY RequestType, DatesAssumption
    <3> QED
      BY <2>1, <2>2, <2>3, <2>4, <2>8, <3>1, <3>2, NoFieldsShape DEF StageOK, Names, Sound
  <2>10. SeenKept(r)'
    BY <2>1, <2>4 DEF SeenKept, StatusKept, EndKept
  <2> QED
    BY <2>1, <2>3, <2>4, <2>5, <2>6, <2>7, <2>9, <2>10, QuietStep
<1> QED
  BY <1>1, <1>2

LEMMA WriteCaseStep ==
    ASSUME IInv, NEW r \in Requests, WriteCase(r)
    PROVE  IInv'
<1> USE DEF IInv, WriteCase
<1> req[r] \in Request /\ nextId \in Nat /\ pc[r] = "write" /\ nextId' = nextId
  BY StageFacts
<1> req[r].op \in {"update", "close"}
  BY StageFacts DEF StageOK
<1>1. CASE Fail(r, "conflict")
  BY <1>1, FailStep DEF Outcomes
<1>2. CASE ~ Fail(r, "conflict")
  <2>1. /\ wrote' = [wrote EXCEPT ![r] = Sent(r)]
        /\ pc' = [pc EXCEPT ![r] = AfterRow(r)]
        /\ UNCHANGED <<cases, assigned, req, id, seen, linked>>
    BY <1>2 DEF Goto
  <2>2. Sound(Sent(r))
    BY <1>2, SentColumns, StageFacts DEF Sound
  <2>3. Others(r) /\ pc'[r] = AfterRow(r) /\ wrote'[r] = Sent(r)
    BY <2>1, StageFacts DEF Others
  <2>4. AfterRow(r) \in {"commit", "officer"} /\ (AfterRow(r) = "commit" <=> req[r].officer = Nil)
    BY DEF AfterRow
  <2>5. TypeOK'
    <3>1. wrote' \in [Requests -> Fields]
      BY <2>1, <2>2 DEF TypeOK, Sound
    <3> QED
      BY <2>1, <2>4, <3>1 DEF TypeOK, Working
  <2>6. RowLocks' /\ LinkLocks'
    BY <2>1, <2>3 DEF RowLocks, LinkLocks, Link, Others
  <2>7. Numbered'
    <3>1. \A q \in Requests : Opener(q)' => Opener(q) /\ pc'[q] = pc[q]
      BY <2>1, <2>3 DEF Opener, Others
    <3> QED
      BY <2>1, <3>1 DEF Numbered
  <2>8. StageOK(r)'
    <3>1. Statement(r)' = Sent(r)
      BY <2>1, <2>3, <2>4 DEF Statement, Later, Sent, Target
    <3> QED
      BY <2>1, <2>2, <2>3, <2>4, <3>1, StageFacts DEF StageOK, Names, Sound, Working
  <2>9. SeenKept(r)'
    <3>1. \A q \in Requests : \A ops, c : Did(q, ops, c)' <=> Did(q, ops, c)
      BY <2>1, <2>3, <2>4 DEF Others, Did
    <3> QED
      BY <2>1, <3>1, StageFacts
         DEF SeenKept, StatusKept, EndKept, StatusPatched, EndNulled, Working
  <2> QED
    BY <2>1, <2>3, <2>4, <2>5, <2>6, <2>7, <2>8, <2>9, QuietStep
<1> QED
  BY <1>1, <1>2

LEMMA FindOfficerStep ==
    ASSUME IInv, NEW r \in Requests, FindOfficer(r)
    PROVE  IInv'
<1> nextId \in Nat /\ pc[r] = "officer"
  BY StageFacts DEF FindOfficer
<1>1. CASE Fail(r, "refused") /\ UNCHANGED nextId
  BY <1>1, FailStep DEF Outcomes
<1>2. CASE req[r].officer \in Officers /\ OnlyMoves(r, "find")
  <2>1. pc'[r] = "find" /\ UNCHANGED <<cases, assigned, req, id, seen, wrote, linked>>
    BY <1>2, StageFacts DEF OnlyMoves, Goto
  <2>2. Statement(r)' = Statement(r)
    BY <2>1 DEF Statement, Later, Sent, Target
  <2>3. StageOK(r)'
    BY <1>2, <2>1, <2>2, StageFacts DEF StageOK, Names, Sound, Working
  <2> QED
    BY <1>2, <2>3, MoveStep DEF Later, Working
<1> QED
  BY <1>1, <1>2 DEF FindOfficer

LEMMA FindLinkStep ==
    ASSUME IInv, NEW r \in Requests, FindLink(r)
    PROVE  IInv'
<1> nextId \in Nat /\ pc[r] = "find"
  BY StageFacts DEF FindLink
<1>1. CASE Fail(r, "not_found") /\ UNCHANGED nextId
  BY <1>1, FailStep DEF Outcomes
<1>2. ASSUME NEW stage \in {"commit", "link"}, OnlyMoves(r, stage),
             stage = "link" => Names(r),
             stage = "commit" /\ Names(r) => Link(r) \in assigned
      PROVE  IInv'
  <2>1. pc'[r] = stage /\ UNCHANGED <<cases, assigned, req, id, seen, wrote, linked>>
    BY <1>2, StageFacts DEF OnlyMoves, Goto
  <2>2. Statement(r)' = Statement(r)
    BY <2>1 DEF Statement, Later, Sent, Target
  <2>3. StageOK(r)'
    BY <1>2, <2>1, <2>2, StageFacts DEF StageOK, Names, Sound, Working, Assigned, Link
  <2> QED
    BY <1>2, <2>3, MoveStep DEF Later, Working
<1>3. CASE req[r].op = "unlink"
  BY <1>1, <1>2, <1>3 DEF FindLink, Names
<1>4. CASE req[r].op # "unlink"
  <2>1. Names(r)
    BY <1>4, StageFacts DEF StageOK
  <2> QED
    BY <1>2, <1>4, <2>1 DEF FindLink
<1> QED
  BY <1>3, <1>4

LEMMA LinkOfficerStep ==
    ASSUME IInv, NEW r \in Requests, LinkOfficer(r)
    PROVE  IInv'
<1> USE DEF IInv, LinkOfficer
<1> nextId \in Nat /\ pc[r] = "link" /\ nextId' = nextId
  BY StageFacts
<1>1. CASE Fail(r, "conflict")
  BY <1>1, FailStep DEF Outcomes
<1>2. CASE ~ Fail(r, "conflict")
  <2>1. /\ linked' = linked \cup {r} /\ pc' = [pc EXCEPT ![r] = "commit"]
        /\ UNCHANGED <<cases, assigned, req, id, seen, wrote>>
    BY <1>2 DEF Goto
  <2>2. Others(r) /\ pc'[r] = "commit"
    BY <2>1, StageFacts DEF Others
  <2>3. TypeOK' /\ RowLocks'
    BY <2>1 DEF TypeOK, RowLocks, Working
  <2>4. LinkLocks'
    BY <2>1 DEF LinkLocks, Link
  <2>5. Numbered'
    <3>1. \A q \in Requests : Opener(q)' => Opener(q) /\ (pc'[q] # "done" => pc[q] # "done")
      BY <2>1, <2>2 DEF Opener, Others, Later
    <3> QED
      BY <2>1, <3>1 DEF Numbered
  <2>6. StageOK(r)'
    <3>1. Statement(r)' = Statement(r)
      BY <2>1, <2>2 DEF Statement, Later, Sent, Target
    <3> QED
      BY <2>1, <2>2, <3>1, StageFacts DEF StageOK, Names, Sound, Working
  <2>7. SeenKept(r)'
    <3>1. \A q \in Requests : \A ops, c : Did(q, ops, c)' <=> Did(q, ops, c)
      BY <2>1, <2>2 DEF Others, Did
    <3> QED
      BY <2>1, <3>1, StageFacts
         DEF SeenKept, StatusKept, EndKept, StatusPatched, EndNulled, Working
  <2> QED
    BY <2>1, <2>2, <2>3, <2>4, <2>5, <2>6, <2>7, QuietStep
<1> QED
  BY <1>1, <1>2

LEMMA CrashStep ==
    ASSUME IInv, NEW r \in Requests, Crash(r)
    PROVE  IInv'
<1> QED
  BY StageFacts, FailStep DEF Crash, Working, Outcomes
-----------------------------------------------------------------------------
\* What a commit leaves of the rows on file.
LEMMA CommitRows ==
    ASSUME IInv, NEW r \in Requests, Commit(r)
    PROVE  /\ Others(r) /\ pc[r] = "commit" /\ pc'[r] = "done" /\ wrote'[r] = NoFields /\ r \notin linked'
           /\ UNCHANGED <<nextId, req, id, seen>>
           /\ \A q \in Requests : \A ops, c :
                Did(q, ops, c)' <=> Did(q, ops, c) \/ (q = r /\ req[r].op \in ops /\ id[r] = c)
           /\ DOMAIN cases' = DOMAIN cases \cup (IF req[r].op = "open" THEN {id[r]} ELSE {})
           /\ \A c \in DOMAIN cases' : cases'[c] \in Row
           /\ \A c \in DOMAIN cases : c # id[r] => cases'[c] = cases[c]
           /\ req[r].op \in {"assign", "unlink"} => cases' = cases
           /\ req[r].op = "open" => id[r] \notin DOMAIN cases /\ cases'[id[r]].status = "open"
           /\ req[r].op \in {"update", "close"} =>
                /\ id[r] \in DOMAIN cases
                /\ cases'[id[r]].status =
                     IF "status" \in DOMAIN Sent(r) THEN Target(r).status ELSE cases[id[r]].status
                /\ cases'[id[r]].end =
                     IF "end" \in DOMAIN Sent(r) THEN Target(r).end ELSE cases[id[r]].end
<1> USE DEF IInv, Commit, Goto
<1> req[r] \in Request /\ pc[r] = "commit" /\ req[r].op \in {"open", "update", "close", "assign", "unlink"}
  BY StageFacts, RequestType
<1>1. /\ Others(r) /\ pc'[r] = "done" /\ wrote'[r] = NoFields /\ r \notin linked'
      /\ UNCHANGED <<nextId, req, id, seen>>
  BY StageFacts DEF Others
<1>2. \A q \in Requests : \A ops, c :
        Did(q, ops, c)' <=> Did(q, ops, c) \/ (q = r /\ req[r].op \in ops /\ id[r] = c)
  BY <1>1 DEF Others, Did
<1>3. CASE req[r].op \in {"assign", "unlink"}
  <2>1. cases' = cases
    BY <1>3, StageFacts DEF StageOK, Statement
  <2> QED
    BY <1>1, <1>2, <1>3, <2>1 DEF TypeOK
<1>4. CASE req[r].op = "open"
  <2>1. wrote[r] = Set(NullRow, req[r].given)
    BY <1>4, StageFacts DEF StageOK, Statement, Later
  <2>2. Opener(r) /\ id[r] \notin DOMAIN cases
    BY <1>4 DEF Numbered, Opener, Later
  <2>3. DOMAIN wrote[r] = Cols /\ Sound(wrote[r])
    BY <2>1, StageFacts, NullRowType, RequestType, SetColumns DEF StageOK
  <2>4. wrote[r] # NoFields
    BY <2>3, NoFieldsShape DEF Cols
  <2>5. /\ DOMAIN cases' = DOMAIN cases \cup {id[r]}
        /\ \A c \in DOMAIN cases : c # id[r] => cases'[c] = cases[c]
        /\ cases'[id[r]] = Set(NullRow, wrote[r])
    BY <2>2, <2>4
  <2>6. cases'[id[r]] \in Row
    BY <2>3, <2>5, NullRowType, SetType
  <2>7. wrote[r].status = "open"
    BY <1>4, <2>1, NullRowType, RequestType, SetColumns DEF NullRow
  <2>8. cases'[id[r]].status = "open"
    BY <2>3, <2>5, <2>7, NullRowType, SetColumns DEF Sound, Cols
  <2> QED
    BY <1>1, <1>2, <1>4, <2>2, <2>5, <2>6, <2>8 DEF TypeOK
<1>5. CASE req[r].op \in {"update", "close"}
  <2>1. wrote[r] = Sent(r) /\ id[r] \in DOMAIN cases /\ Sound(wrote[r])
    BY <1>5, StageFacts DEF StageOK, Statement, Later, Working
  <2>2. /\ DOMAIN cases' = DOMAIN cases
        /\ \A c \in DOMAIN cases : c # id[r] => cases'[c] = cases[c]
        /\ wrote[r] = NoFields => cases'[id[r]] = cases[id[r]]
        /\ wrote[r] # NoFields => cases'[id[r]] = Set(cases[id[r]], wrote[r])
    BY <2>1
  <2>3. cases[id[r]] \in Row
    BY <2>1 DEF TypeOK
  <2>4. \A f \in DOMAIN Sent(r) : Sent(r)[f] = Target(r)[f]
    BY <1>5, StageFacts, SentColumns
  <2>5. CASE wrote[r] = NoFields
    BY <1>1, <1>2, <1>5, <2>1, <2>2, <2>5, NoFieldsShape DEF TypeOK
  <2>6. CASE wrote[r] # NoFields
    <3>1. cases'[id[r]] \in Row
      BY <2>1, <2>2, <2>3, <2>6, SetType
    <3>2. /\ cases'[id[r]].status =
               IF "status" \in DOMAIN Sent(r) THEN Target(r).status ELSE cases[id[r]].status
          /\ cases'[id[r]].end =
               IF "end" \in DOMAIN Sent(r) THEN Target(r).end ELSE cases[id[r]].end
      BY <2>1, <2>2, <2>3, <2>4, <2>6, SetColumns DEF Sound
    <3> QED
      BY <1>1, <1>2, <1>5, <2>1, <2>2, <3>1, <3>2 DEF TypeOK
  <2> QED
    BY <2>5, <2>6
<1> QED
  BY <1>3, <1>4, <1>5

\* Nothing a commit does takes back what an earlier reader may rely on.
LEMMA CommitKeeps ==
    ASSUME IInv, NEW r \in Requests, Commit(r), NEW c \in DOMAIN cases
    PROVE  /\ StatusPatched(c) => StatusPatched(c)'
           /\ EndNulled(c) => EndNulled(c)'
           /\ StatusKept(c) => StatusKept(c)'
           /\ EndKept(c) => EndKept(c)'
<1>1. StatusPatched(c) => StatusPatched(c)'
  BY CommitRows DEF StatusPatched
<1>2. EndNulled(c) => EndNulled(c)'
  BY CommitRows DEF EndNulled
<1>3. CASE c # id[r] \/ req[r].op \in {"assign", "unlink"}
  BY <1>1, <1>2, <1>3, CommitRows DEF StatusKept, EndKept
<1>4. CASE c = id[r] /\ req[r].op \in {"update", "close"}
  <2>1. /\ \A f \in Cols : f \in DOMAIN Sent(r) <=> Target(r)[f] # seen[r][f]
        /\ DOMAIN Sent(r) \subseteq Cols
    BY <1>4, StageFacts, SentColumns, FieldsShape
  <2>2. cases[c].status = "closed" => StatusKept(c)'
    <3>1. CASE req[r].op = "update" /\ "status" \in DOMAIN req[r].given
      BY <1>4, <3>1, CommitRows DEF StatusKept, StatusPatched
    <3>2. CASE ~ (req[r].op = "update" /\ "status" \in DOMAIN req[r].given)
      <4>1. Target(r).status = "closed" \/ Target(r).status = seen[r].status
        BY <1>4, <3>2, StageFacts, TargetColumns
      <4> QED
        BY <1>4, <2>1, <4>1, CommitRows DEF StatusKept, Cols
    <3> QED
      BY <3>1, <3>2
  <2>3. cases[c].end # Nil => EndKept(c)'
    <3>1. CASE req[r].op = "update" /\ "end" \in DOMAIN req[r].given /\ req[r].given.end = Nil
      BY <1>4, <3>1, CommitRows DEF EndKept, EndNulled
    <3>2. CASE ~ (req[r].op = "update" /\ "end" \in DOMAIN req[r].given /\ req[r].given.end = Nil)
      <4>1. Target(r).end = Nil => seen[r].end = Nil
        BY <1>4, <3>2, StageFacts, TargetColumns
      <4> QED
        BY <1>4, <2>1, <4>1, CommitRows DEF EndKept, Cols
    <3> QED
      BY <3>1, <3>2
  <2> QED
    BY <1>1, <1>2, <2>2, <2>3 DEF StatusKept, EndKept
<1>5. req[r].op = "open" => c # id[r]
  BY CommitRows
<1> QED
  BY <1>3, <1>4, <1>5, StageFacts, RequestType

LEMMA CommitKeepsLinks ==
    ASSUME IInv, NEW r \in Requests, Commit(r), NEW q \in Requests, Assigned(q)
    PROVE  Assigned(q)'
<1>1. UNCHANGED <<req, id>> /\ assigned' = (assigned \ Removed(r)) \cup (IF r \in linked THEN {Link(r)} ELSE {})
  BY DEF Commit
<1>2. CASE Link(q) \in assigned /\ Link(q) \notin Removed(r)
  BY <1>1, <1>2 DEF Assigned, Link
<1>3. CASE Link(q) \in Removed(r)
  <2>1. req[r].op = "unlink" /\ Link(q) = Link(r) /\ id[q] = id[r]
    BY <1>3 DEF Removed, Link
  <2>2. r \in Requests /\ pc'[r] = "done"
    BY CommitRows
  <2> QED
    BY <1>1, <2>1, <2>2 DEF Assigned, Did, Link
<1>4. CASE \E p \in Requests : Did(p, {"unlink"}, id[q]) /\ Link(p) = Link(q)
  <2>1. PICK p \in Requests : Did(p, {"unlink"}, id[q]) /\ Link(p) = Link(q)
    BY <1>4
  <2>2. pc'[p] = "done"
    BY <2>1, CommitRows DEF Did, Others
  <2> QED
    BY <1>1, <2>1, <2>2 DEF Assigned, Did, Link
<1> QED
  BY <1>2, <1>3, <1>4 DEF Assigned

LEMMA CommitStep ==
    ASSUME IInv, NEW r \in Requests, Commit(r)
    PROVE  IInv'
<1> USE DEF IInv
<1> req[r] \in Request /\ id[r] \in Nat /\ StageOK(r) /\ pc[r] = "commit"
  BY StageFacts DEF Commit
<1>1. /\ Others(r) /\ pc'[r] = "done" /\ wrote'[r] = NoFields /\ r \notin linked'
      /\ UNCHANGED <<nextId, req, id, seen>>
      /\ DOMAIN cases' = DOMAIN cases \cup (IF req[r].op = "open" THEN {id[r]} ELSE {})
  BY CommitRows
<1>2. /\ req[r].op = "open" => Opener(r) /\ id[r] \notin DOMAIN cases
      /\ id[r] \in DOMAIN cases'
      /\ req[r].op # "open" => id[r] \in DOMAIN cases
  BY <1>1 DEF StageOK, Working, Opener, Later, Numbered
<1>3. r \in linked => Names(r) /\ req[r].officer \in Officers
  BY DEF StageOK
<1>4. TypeOK'
  <2>1. DOMAIN cases' \subseteq 0 .. nextId' - 1
    BY <1>1, <1>2 DEF TypeOK, Numbered
  <2>2. \A c \in DOMAIN cases' : cases'[c] \in Row
    BY CommitRows
  <2>3. assigned' \subseteq (DOMAIN cases') \X Officers
    BY <1>1, <1>2, <1>3 DEF TypeOK, Commit, Link
  <2>4. wrote' \in [Requests -> Fields] /\ linked' \subseteq Requests
    BY NoFieldsShape DEF TypeOK, Commit
  <2>5. pc' \in [Requests -> {"new"} \cup Working \cup Outcomes]
    BY DEF TypeOK, Commit, Goto, Outcomes
  <2> QED
    BY <1>1, <2>1, <2>2, <2>3, <2>4, <2>5 DEF TypeOK
<1>5. RowLocks' /\ LinkLocks'
  <2>1. wrote' = [wrote EXCEPT ![r] = NoFields] /\ linked' = linked \ {r}
    BY DEF Commit
  <2> QED
    BY <1>1, <2>1 DEF RowLocks, LinkLocks, Others, Link, TypeOK
<1>6. Numbered'
  <2>1. \A q \in Requests : Opener(q)' <=> Opener(q)
    BY <1>1 DEF Opener, Others, Later
  <2>2. \A q \in Requests \ {r} : Opener(q) /\ pc[q] # "done" => id[q] \notin DOMAIN cases'
    BY <1>1, <1>2 DEF Numbered
  <2>3. \A q \in Requests : Opener(q) /\ pc'[q] # "done" => id[q] \notin DOMAIN cases'
    BY <1>1, <2>2 DEF Others
  <2> QED
    BY <1>1, <2>1, <2>3 DEF Numbered
<1>7. ASSUME NEW q \in Requests PROVE StageOK(q)'
  <2>1. StageOK(q)
    OBVIOUS
  <2>2. CASE q = r
    <3>1. Statement(r)' = NoFields
      BY <1>1 DEF Statement, Later
    <3> QED
      BY <1>1, <2>1, <2>2, <3>1, NoFieldsShape DEF StageOK, Sound, Working
  <2>3. CASE q # r
    <3>1. Statement(q)' = Statement(q) /\ wrote'[q] = wrote[q] /\ pc'[q] = pc[q]
      BY <1>1, <2>3, StatementKept DEF Others
    <3>2. Assigned(q) => Assigned(q)'
      BY CommitKeepsLinks
    <3> QED
      BY <1>1, <2>1, <2>3, <3>1, <3>2 DEF StageOK, Others, Names, Sound
  <2> QED
    BY <2>2, <2>3
<1>8. ASSUME NEW q \in Requests PROVE SeenKept(q)'
  <2>1. ASSUME NEW c, c = id[q], pc'[q] \in Working, req[q].op \in {"update", "close"}
        PROVE  /\ seen[q].status = "closed" => StatusKept(c)'
               /\ seen[q].end # Nil => EndKept(c)'
    <3>1. q # r /\ pc[q] \in Working
      BY <1>1, <2>1 DEF Others, Working
    <3>2. c \in DOMAIN cases
      BY <2>1, <3>1 DEF StageOK
    <3>3. /\ seen[q].status = "closed" => StatusKept(c)
          /\ seen[q].end # Nil => EndKept(c)
      BY <2>1, <3>1 DEF SeenKept
    <3> QED
      BY <3>2, <3>3, CommitKeeps
  <2> QED
    BY <1>1, <2>1 DEF SeenKept, StatusKept, EndKept, StatusPatched, EndNulled, Did
<1>9. CloseStands'
  <2>1. ASSUME NEW q \in Requests, NEW c \in DOMAIN cases', Did(q, {"close"}, c)'
        PROVE  StatusKept(c)'
    <3>1. CASE Did(q, {"close"}, c)
      <4>1. c \in DOMAIN cases /\ StatusKept(c)
        BY <3>1 DEF StageOK, Did, CloseStands, StatusKept, StatusPatched
      <4> QED
        BY <4>1, CommitKeeps
    <3>2. Did(q, {"close"}, c) \/ (q = r /\ req[r].op = "close" /\ c = id[r])
      BY <1>1, <2>1 DEF Did, Others
    <3>3. CASE q = r /\ req[r].op = "close" /\ c = id[r]
      <4>1. Target(r).status = "closed"
        BY <3>3, StageFacts, TargetColumns
      <4>2. "status" \notin DOMAIN Sent(r) => seen[r].status = "closed"
        BY <3>3, <4>1, StageFacts, SentColumns DEF Cols
      <4>3. CASE "status" \in DOMAIN Sent(r)
        BY <3>3, <4>1, <4>3, CommitRows DEF StatusKept
      <4>4. CASE seen[r].status = "closed"
        <5>1. StatusKept(c)
          BY <3>3, <4>4, StageFacts DEF SeenKept, Working
        <5>2. c \in DOMAIN cases
          BY <1>2, <3>3
        <5> QED
          BY <5>1, <5>2, CommitKeeps
      <4> QED
        BY <4>2, <4>3, <4>4
    <3> QED
      BY <3>1, <3>2, <3>3
  <2> QED
    BY <2>1 DEF CloseStands, StatusKept, StatusPatched, Did
<1>10. ClosedIsDated'
  <2>1. ASSUME NEW c \in DOMAIN cases', cases'[c].status = "closed", cases'[c].end = Nil
        PROVE  EndNulled(c)'
    <3>1. CASE c # id[r] \/ req[r].op \in {"assign", "unlink"}
      <4>1. c \in DOMAIN cases /\ cases'[c] = cases[c]
        BY <1>1, <3>1, CommitRows
      <4> QED
        BY <2>1, <4>1, CommitKeeps DEF ClosedIsDated, EndNulled
    <3>2. CASE c = id[r] /\ req[r].op = "open"
      BY <2>1, <3>2, CommitRows
    <3>3. CASE c = id[r] /\ req[r].op \in {"update", "close"}
      <4>1. \A f \in Cols : f \in DOMAIN Sent(r) <=> Target(r)[f] # seen[r][f]
        BY <3>3, StageFacts, SentColumns
      <4>2. c \in DOMAIN cases
        BY <3>3, <1>2
      <4>3. CASE req[r].op = "update" /\ "end" \in DOMAIN req[r].given /\ req[r].given.end = Nil
        BY <1>1, <3>3, <4>3, CommitRows DEF EndNulled
      <4>4. CASE ~ (req[r].op = "update" /\ "end" \in DOMAIN req[r].given /\ req[r].given.end = Nil)
        <5>1. Target(r).end = Nil =>
                seen[r].end = Nil /\ (Target(r).status # "closed" \/ Target(r).status = seen[r].status)
          BY <3>3, <4>4, StageFacts, TargetColumns
        <5>2. "end" \notin DOMAIN Sent(r) /\ cases[c].end = Nil /\ Target(r).end = seen[r].end
          BY <2>1, <3>3, <4>1, <5>1, CommitRows DEF Cols
        <5>3. CASE seen[r].end # Nil
          BY <3>3, <4>2, <5>2, <5>3, StageFacts, CommitKeeps DEF SeenKept, Working, EndKept
        <5>4. CASE seen[r].end = Nil
          <6>1. "status" \notin DOMAIN Sent(r)
            BY <2>1, <3>3, <4>1, <5>1, <5>2, <5>4, CommitRows DEF Cols
          <6>2. cases[c].status = "closed"
            BY <2>1, <3>3, <6>1, CommitRows
          <6> QED
            BY <4>2, <5>2, <6>2, CommitKeeps DEF ClosedIsDated, EndNulled
        <5> QED
          BY <5>3, <5>4
      <4> QED
        BY <4>3, <4>4
    <3> QED
      BY <3>1, <3>2, <3>3, RequestType
  <2> QED
    BY <2>1 DEF ClosedIsDated, EndNulled, Did
<1>11. OpenedOnce'
  <2>1. ASSUME NEW q \in Requests, pc'[q] = "done", req[q].op = "open"
        PROVE  /\ id[q] \in DOMAIN cases' \ DOMAIN SeedCases
               /\ \A p \in Requests \ {q} : ~ (pc'[p] = "done" /\ req[p].op = "open" /\ id[p] = id[q])
    <3>1. /\ Opener(q) /\ id[q] > Len(SeedCases) /\ id[q] \in Nat
          /\ \A p \in Requests \ {q} : Opener(p) => id[p] # id[q]
      BY <1>1, <2>1, StageFacts DEF Opener, Others, Numbered, Later
    <3>2. \A p \in Requests : pc'[p] = "done" /\ req[p].op = "open" => Opener(p)
      BY <1>1 DEF Opener, Others, Later
    <3>3. id[q] \notin DOMAIN SeedCases
      BY <3>1, SeedAssumption
    <3>4. id[q] \in DOMAIN cases'
      BY <1>1, <1>2, <2>1 DEF OpenedOnce, Others
    <3> QED
      BY <3>1, <3>2, <3>3, <3>4
  <2>2. ASSUME NEW c \in DOMAIN cases' \ DOMAIN SeedCases
        PROVE  \E q \in Requests : pc'[q] = "done" /\ req[q].op = "open" /\ id[q] = c
    <3>1. CASE c \in DOMAIN cases
      BY <1>1, <2>2, <3>1 DEF OpenedOnce, Did, Others
    <3>2. CASE c \notin DOMAIN cases
      BY <1>1, <2>2, <3>2
    <3> QED
      BY <3>1, <3>2
  <2> QED
    BY <1>1, <2>1, <2>2 DEF OpenedOnce, Did
<1>12. AssignmentStands'
  <2>1. ASSUME NEW q \in Requests, pc'[q] = "done", Names(q)
        PROVE  Assigned(q)'
    <3>1. CASE q = r
      <4>1. r \in linked => Assigned(r)'
        BY <1>1 DEF Assigned, Commit, Link
      <4> QED
        BY <2>1, <3>1, <4>1, CommitKeepsLinks DEF StageOK
    <3>2. CASE q # r
      <4>1. Assigned(q)
        BY <1>1, <2>1, <3>2 DEF AssignmentStands, Assigned, Names, Others
      <4> QED
        BY <4>1, CommitKeepsLinks
    <3> QED
      BY <3>1, <3>2
  <2> QED
    BY <1>1, <2>1 DEF AssignmentStands, Names, Assigned, Did, Link
<1> QED
  BY <1>4, <1>5, <1>6, <1>7, <1>8, <1>9, <1>10, <1>11, <1>12

LEMMA Inductive == IInv /\ [Next]_vars => IInv'
<1> SUFFICES ASSUME IInv, [Next]_vars PROVE IInv'
  OBVIOUS
<1>1. CASE UNCHANGED vars
  <2>1. (TypeOK /\ RowLocks /\ LinkLocks /\ Numbered)'
    BY <1>1 DEF vars, IInv, TypeOK, RowLocks, LinkLocks, Link, Numbered, Opener
  <2>2. ASSUME NEW r \in Requests PROVE StageOK(r)' /\ SeenKept(r)'
    <3>1. StageOK(r) /\ SeenKept(r)
      BY DEF IInv
    <3>2. Statement(r)' = Statement(r)
      BY <1>1, StatementKept DEF vars
    <3>3. StageOK(r)'
      BY <1>1, <3>1, <3>2 DEF vars, StageOK, Sound, Names, Assigned, Did, Link
    <3>4. SeenKept(r)'
      BY <1>1, <3>1 DEF vars, SeenKept, StatusKept, EndKept, StatusPatched, EndNulled, Did
    <3> QED
      BY <3>3, <3>4
  <2>3. (CloseStands /\ ClosedIsDated /\ OpenedOnce /\ AssignmentStands)'
    BY <1>1 DEF vars, IInv, CloseStands, ClosedIsDated, OpenedOnce, AssignmentStands, Did, Link
  <2> QED
    BY <2>1, <2>2, <2>3 DEF IInv
<1>2. ASSUME NEW r \in Requests,
             \/ OpenCase(r)    \/ FetchCase(r) \/ WriteCase(r)
             \/ FindOfficer(r) \/ FindLink(r)  \/ LinkOfficer(r)
             \/ Commit(r)      \/ Crash(r)
      PROVE  IInv'
  BY <1>2, OpenCaseStep, FetchCaseStep, WriteCaseStep, FindOfficerStep, FindLinkStep,
     LinkOfficerStep, CommitStep, CrashStep
<1> QED
  BY <1>1, <1>2 DEF Next

LEMMA Invariance == Spec => []IInv
<1> QED
  BY InitIInv, Inductive, PTL DEF Spec
-----------------------------------------------------------------------------
\* The state keeps its type: ids stay below the identity column, every row
\* committed has its columns in range and its reporter on file.
THEOREM TypeCorrect == Spec => []TypeOK
<1>1. IInv => TypeOK
  BY DEF IInv
<1> QED
  BY <1>1, Invariance, PTL

\* However requests on a case overlap, a case answered as closed is closed, or
\* an accepted PATCH gave it a status.
THEOREM ClosingStands == Spec => []CloseStands
<1>1. IInv => CloseStands
  BY DEF IInv
<1> QED
  BY <1>1, Invariance, PTL

\* No mixture of PATCHes and closings from stale rows leaves a closed case
\* undated, unless an accepted PATCH gave end_date as null.
THEOREM ClosedCasesAreDated == Spec => []ClosedIsDated
<1>1. IInv => ClosedIsDated
  BY DEF IInv
<1> QED
  BY <1>1, Invariance, PTL

\* Cases on file beyond the seed and accepted requests to open one match one
\* to one.
THEOREM EachCaseOpenedOnce == Spec => []OpenedOnce
<1>1. IInv => OpenedOnce
  BY DEF IInv
<1> QED
  BY <1>1, Invariance, PTL

\* An officer whose assignment was accepted is on the case until unlinked.
THEOREM AssignmentsStand == Spec => []AssignmentStands
<1>1. IInv => AssignmentStands
  BY DEF IInv
<1> QED
  BY <1>1, Invariance, PTL
==============================================================================
