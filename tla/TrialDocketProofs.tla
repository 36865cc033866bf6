-------------------------- MODULE TrialDocketProofs --------------------------
(***************************************************************************)
(* Theorems about TrialDocket, for any number of requests, tasks and cases *)
(* and any seed.  The argument: the case-row lock is exclusive, the number *)
(* a request holds while it holds the lock is one past the end of the      *)
(* docket, and only the holder of the lock can lengthen the docket.        *)
(***************************************************************************)
EXTENDS TrialDocket, SequenceTheorems, TLAPS

Last(c) == LastNumber(DOMAIN trials[c])

\* r holds the lock of its case and the number that comes next in it.
Opening(r) == r \in locked /\ num[r] = Last(req[r].case) + 1

\* r writes to a trial that is on the docket.
Amending(r) == r \notin locked /\ num[r] \in DOMAIN Docket(r)

\* Each docket is numbered 1 .. n.
Numbered ==
    \A c \in Cases : Last(c) \in Nat /\ DOMAIN trials[c] = 1 .. Last(c)

\* At most one request holds the row of a case.
LocksExclusive ==
    \A r, q \in locked : req[r].case = req[q].case => r = q

\* What a request holds at each stage.
StageOK(r) ==
    /\ pc[r] \in {"lock", "count", "insert", "fill", "assign", "dirty", "flush", "commit"}
         => req[r].case \in Cases
    /\ pc[r] = "count" => r \in locked
    /\ pc[r] = "insert" => Opening(r)
    /\ pc[r] \in {"fill", "commit"} =>
         (Opening(r) /\ write[r] \in Row) \/ (Amending(r) /\ write[r].hearing # Nil)
    /\ pc[r] \in {"assign", "dirty", "flush"} => Amending(r)
    /\ pc[r] \in {"dirty", "flush"} => req[r].judge \in Persons
    /\ pc[r] \notin {"fill", "commit"} => write[r] = NoChange
    /\ r \in locked => pc[r] \in {"count", "insert", "fill", "commit", "rollback"}
    /\ status[r] # "number_taken"

IInv ==
    /\ TypeOK
    /\ Numbered
    /\ LocksExclusive
    /\ \A r \in Requests : StageOK(r)
-----------------------------------------------------------------------------
\* max over the numbers 1 .. k, or 0 when there are none.
LEMMA LastOfInterval ==
    ASSUME NEW k \in Nat
    PROVE  LastNumber(1 .. k) = k
<1>1. k \in (1 .. k) \cup {0} /\ \A n \in 1 .. k : n =< k
  OBVIOUS
<1>2. \A m \in (1 .. k) \cup {0} : (\A n \in 1 .. k : n =< m) => m = k
  OBVIOUS
<1> QED
  BY <1>1, <1>2 DEF LastNumber

\* An UPDATE or INSERT leaves a well-formed row.
LEMMA ApplyType ==
    ASSUME NEW row \in Row, NEW chg \in Change
    PROVE  Apply(row, chg) \in Row
BY DEF Apply, Row, Change

LEMMA NoChangeType == NoChange \in Change
BY DEF NoChange, Change

LEMMA NullRowType == NullRow \in Row
BY DEF NullRow, Row, Given

LEMMA RowIsChange == Row \subseteq Change
BY DEF Row, Change

\* A full row is never mistaken for "no statement sent".
LEMMA RowIsSomeChange == \A row \in Row : row # NoChange
BY SentinelAssumption DEF Row, NoChange, Given

\* What a request asks for has the types of the columns it goes into.
LEMMA RequestType ==
    ASSUME NEW q \in Request
    PROVE  /\ q.case \in CaseIds
           /\ q.task \in Tasks
           /\ q.hearing \in Given(Dates)
           /\ q.court \in Given(Courts)
           /\ q.judge \in Given(PersonIds)
           /\ q.op \in {"trial", "hearing", "judge"}
           /\ q.op = "judge" => q.judge \in PersonIds
           /\ q.op # "trial" => q.trial \in Int
BY TrialIdsAssumption DEF Request, AddTrial, AddHearing, SetJudge, Given

LEMMA HearingChangeType ==
    ASSUME NEW r \in Requests, req[r] \in Request, NEW row
    PROVE  HearingChange(r, row) \in Change /\ HearingChange(r, row).hearing # Nil
BY RequestType, SentinelAssumption DEF HearingChange, Change, Differing, Given

\* "Not set" is not "set to NULL".
LEMMA NoChangeKeepsHearing == NoChange.hearing = Keep /\ Keep # Nil
BY SentinelAssumption DEF NoChange
-----------------------------------------------------------------------------
LEMMA InitIInv == Init => IInv
<1> SUFFICES ASSUME Init PROVE IInv
  OBVIOUS
<1>1. trials \in [Cases -> Seq(Row)]
  BY SeedAssumption DEF Init
<1>2. \A c \in Cases : \E k \in Nat : DOMAIN trials[c] = 1 .. k
  BY <1>1
<1>3. Numbered
  BY <1>2, LastOfInterval DEF Numbered, Last
<1>4. TypeOK
  <2>1. trials = [c \in Cases |-> [n \in DOMAIN trials[c] |-> trials[c][n]]]
    BY <1>1
  <2>2. \A c \in Cases : DOMAIN trials[c] \subseteq Int
    BY <1>2
  <2>3. \A c \in Cases : \A n \in DOMAIN trials[c] : trials[c][n] \in Row
    BY <1>1
  <2>4. seen \in [Requests -> Row] /\ write \in [Requests -> Change]
    BY NoChangeType, NullRowType DEF Init
  <2>5. /\ req \in [Requests -> Request]
        /\ pc \in [Requests -> Stages]
        /\ num \in [Requests -> Int]
        /\ locked \in SUBSET Requests
        /\ loop \in [Tasks -> Requests \cup {Free}]
        /\ status \in [Requests -> Statuses]
    BY DEF Init, Stages, Statuses
  <2> QED
    BY <2>1, <2>2, <2>3, <2>4, <2>5 DEF TypeOK
<1>5. LocksExclusive
  BY DEF Init, LocksExclusive
<1>6. \A r \in Requests : StageOK(r)
  BY DEF Init, StageOK
<1> QED
  BY <1>3, <1>4, <1>5, <1>6 DEF IInv
-----------------------------------------------------------------------------
\* A step of r that commits nothing leaves alone what other requests hold.
OthersKeep(r) ==
    \A q \in Requests \ {r} :
        /\ pc'[q] = pc[q] /\ num'[q] = num[q]
        /\ write'[q] = write[q] /\ status'[q] = status[q]
        /\ q \in locked' <=> q \in locked

LEMMA FrameStep ==
    ASSUME IInv, NEW r \in Requests,
           trials' = trials, req' = req, OthersKeep(r),
           TypeOK', LocksExclusive', StageOK(r)'
    PROVE  IInv'
<1>1. Numbered'
  BY DEF IInv, Numbered, Last
<1>2. ASSUME NEW q \in Requests PROVE StageOK(q)'
  <2>1. CASE q = r
    BY <2>1
  <2>2. CASE q # r
    BY <2>2 DEF IInv, StageOK, Opening, Amending, Docket, Last, OthersKeep
  <2> QED
    BY <2>1, <2>2
<1> QED
  BY <1>1, <1>2 DEF IInv

\* The types of everything the stages of a request read.
LEMMA StepTypes ==
    ASSUME IInv, NEW r \in Requests
    PROVE  /\ req[r] \in Request
           /\ req[r].task \in Tasks
           /\ seen[r] \in Row
           /\ num[r] \in Int
           /\ write[r] \in Change
           /\ pc[r] \in Stages
           /\ StageOK(r)
BY RequestType DEF IInv, TypeOK

LEMMA ReceiveStep ==
    ASSUME IInv, NEW r \in Requests, Receive(r)
    PROVE  IInv'
<1>1. TypeOK'
  BY DEF IInv, TypeOK, Receive, Goto, Stages
<1>2. OthersKeep(r)
  BY DEF IInv, TypeOK, Receive, Goto, OthersKeep
<1>3. LocksExclusive'
  BY DEF IInv, Receive, LocksExclusive
<1>4. StageOK(r)'
  BY DEF IInv, TypeOK, Receive, Goto, StageOK
<1> QED
  BY <1>1, <1>2, <1>3, <1>4, FrameStep DEF Receive

LEMMA FetchCaseStep ==
    ASSUME IInv, NEW r \in Requests, FetchCase(r)
    PROVE  IInv'
<1>1. TypeOK'
  BY DEF IInv, TypeOK, FetchCase, Fail, Goto, Stages, Statuses
<1>2. OthersKeep(r)
  BY DEF IInv, TypeOK, FetchCase, Fail, Goto, OthersKeep
<1>3. LocksExclusive'
  BY DEF IInv, FetchCase, LocksExclusive
<1>4. StageOK(r)'
  BY DEF IInv, TypeOK, FetchCase, Fail, Goto, StageOK
<1> QED
  BY <1>1, <1>2, <1>3, <1>4, FrameStep DEF FetchCase

LEMMA FetchTrialStep ==
    ASSUME IInv, NEW r \in Requests, FetchTrial(r)
    PROVE  IInv'
<1> DEFINE found == req[r].case \in Cases /\ req[r].trial \in DOMAIN Docket(r)
<1>0. req[r].trial \in Int
  BY RequestType, StepTypes DEF FetchTrial
<1>1. TypeOK'
  <2>1. CASE found
    <3>1. Docket(r)[req[r].trial] \in Row
      BY <2>1 DEF IInv, TypeOK, Docket
    <3>2. seen' \in [Requests -> Row] /\ num' \in [Requests -> Int]
      BY <1>0, <2>1, <3>1 DEF IInv, TypeOK, FetchTrial
    <3>3. pc' \in [Requests -> Stages] /\ status' = status
      BY <2>1 DEF IInv, TypeOK, FetchTrial, AfterFetch, Goto, Stages
    <3> QED
      BY <3>2, <3>3 DEF IInv, TypeOK, FetchTrial
  <2>2. CASE ~ found
    BY <2>2 DEF IInv, TypeOK, FetchTrial, Fail, Goto, Stages, Statuses
  <2> QED
    BY <2>1, <2>2
<1>2. OthersKeep(r)
  BY DEF IInv, TypeOK, FetchTrial, Fail, Goto, OthersKeep
<1>3. LocksExclusive'
  BY DEF IInv, FetchTrial, LocksExclusive
<1>4. StageOK(r)'
  <2>1. r \notin locked /\ write[r] = NoChange /\ status[r] # "number_taken"
    BY StepTypes DEF StageOK, FetchTrial
  <2>2. CASE found
    <3>1. num'[r] = req[r].trial /\ pc'[r] \in {"assign", "lock", "fill"}
      BY <2>2 DEF IInv, TypeOK, FetchTrial, AfterFetch, Goto
    <3>2. Amending(r)'
      BY <2>1, <2>2, <3>1 DEF Amending, Docket, FetchTrial
    <3>3. write'[r] = NoChange /\ r \notin locked' /\ status' = status
      BY <2>1, <2>2 DEF FetchTrial
    <3> QED
      BY <2>1, <2>2, <3>1, <3>2, <3>3, NoChangeKeepsHearing DEF StageOK, FetchTrial
  <2>3. CASE ~ found
    BY <2>1, <2>3 DEF IInv, TypeOK, FetchTrial, Fail, Goto, StageOK
  <2> QED
    BY <2>2, <2>3
<1> QED
  BY <1>1, <1>2, <1>3, <1>4, FrameStep DEF FetchTrial

LEMMA LockCaseStep ==
    ASSUME IInv, NEW r \in Requests, LockCase(r)
    PROVE  IInv'
<1>1. TypeOK'
  BY DEF IInv, TypeOK, LockCase, Goto, Stages
<1>2. OthersKeep(r)
  BY DEF IInv, TypeOK, LockCase, Goto, OthersKeep
<1>3. LocksExclusive'
  BY DEF IInv, LockCase, LocksExclusive
<1>4. StageOK(r)'
  BY DEF IInv, TypeOK, LockCase, Goto, StageOK
<1> QED
  BY <1>1, <1>2, <1>3, <1>4, FrameStep DEF LockCase

LEMMA CountTrialsStep ==
    ASSUME IInv, NEW r \in Requests, CountTrials(r)
    PROVE  IInv'
<1>0. req[r].case \in Cases /\ r \in locked /\ Last(req[r].case) \in Nat
  BY StepTypes DEF IInv, StageOK, CountTrials, Numbered
<1>1. TypeOK'
  BY <1>0 DEF IInv, TypeOK, CountTrials, Goto, Stages, Last, Docket
<1>2. OthersKeep(r)
  BY DEF IInv, TypeOK, CountTrials, Goto, OthersKeep
<1>3. LocksExclusive'
  BY DEF IInv, CountTrials, LocksExclusive
<1>4. StageOK(r)'
  BY <1>0 DEF IInv, TypeOK, CountTrials, Goto, StageOK, Opening, Last, Docket
<1> QED
  BY <1>1, <1>2, <1>3, <1>4, FrameStep DEF CountTrials

\* The number taken under the lock is free, so the INSERT never finds it taken.
LEMMA InsertTrialStep ==
    ASSUME IInv, NEW r \in Requests, InsertTrial(r)
    PROVE  IInv'
<1>0. /\ req[r].case \in Cases
      /\ Opening(r)
      /\ write[r] = NoChange
      /\ status[r] # "number_taken"
  BY StepTypes DEF StageOK, InsertTrial
<1>1. num[r] \notin DOMAIN Docket(r)
  BY <1>0 DEF IInv, Numbered, Opening, Last, Docket
<1>2. CASE NewRow(r).judge \in Given(Persons)
  <2>1. NewRow(r) \in Row
    BY <1>2, StepTypes, RequestType DEF NewRow, RowFromPayload, RowFromTrial, Row, Given
  <2>2. /\ write' = [write EXCEPT ![r] = NewRow(r)]
        /\ Goto(r, IF req[r].op = "trial" THEN "commit" ELSE "fill")
        /\ UNCHANGED <<trials, req, seen, num, locked, loop, status>>
    BY <1>1, <1>2 DEF InsertTrial
  <2>3. TypeOK'
    BY <2>1, <2>2, RowIsChange DEF IInv, TypeOK, Goto, Stages
  <2>4. OthersKeep(r)
    BY <2>2 DEF IInv, TypeOK, Goto, OthersKeep
  <2>5. LocksExclusive'
    BY <2>2 DEF IInv, LocksExclusive
  <2>6. StageOK(r)'
    BY <1>0, <2>1, <2>2 DEF IInv, TypeOK, Goto, StageOK, Opening, Last
  <2> QED
    BY <2>2, <2>3, <2>4, <2>5, <2>6, FrameStep
<1>3. CASE NewRow(r).judge \notin Given(Persons)
  <2>1. /\ Fail(r, "unknown_judge")
        /\ UNCHANGED <<trials, req, seen, num, write, locked, loop>>
    BY <1>1, <1>3 DEF InsertTrial
  <2>2. TypeOK'
    BY <2>1 DEF IInv, TypeOK, Fail, Goto, Stages, Statuses
  <2>3. OthersKeep(r)
    BY <2>1 DEF IInv, TypeOK, Fail, Goto, OthersKeep
  <2>4. LocksExclusive'
    BY <2>1 DEF IInv, LocksExclusive
  <2>5. StageOK(r)'
    BY <1>0, <2>1 DEF IInv, TypeOK, Fail, Goto, StageOK
  <2> QED
    BY <2>1, <2>2, <2>3, <2>4, <2>5, FrameStep
<1> QED
  BY <1>2, <1>3

LEMMA FillHearingStep ==
    ASSUME IInv, NEW r \in Requests, FillHearing(r)
    PROVE  IInv'
<1>0. /\ req[r].case \in Cases
      /\ (Opening(r) /\ write[r] \in Row) \/ (Amending(r) /\ write[r].hearing # Nil)
      /\ status[r] # "number_taken"
  BY StepTypes DEF StageOK, FillHearing
<1>1. write' \in [Requests -> Change] /\ \A q \in Requests \ {r} : write'[q] = write[q]
  <2>1. Apply(write[r], HearingChange(r, write[r])) \in Change
    BY StepTypes, HearingChangeType DEF Apply, Change
  <2>2. HearingChange(r, seen[r]) \in Change
    BY StepTypes, HearingChangeType
  <2> QED
    BY <2>1, <2>2 DEF IInv, TypeOK, FillHearing
<1>2. TypeOK'
  BY <1>1 DEF IInv, TypeOK, FillHearing, Goto, Stages
<1>3. OthersKeep(r)
  BY <1>1 DEF IInv, TypeOK, FillHearing, Goto, OthersKeep
<1>4. LocksExclusive'
  BY DEF IInv, FillHearing, LocksExclusive
<1>5. StageOK(r)'
  <2>1. pc'[r] = "commit"
    BY DEF IInv, TypeOK, FillHearing, Goto
  <2>2. CASE Opening(r) /\ write[r] \in Row
    <3>1. write'[r] = Apply(write[r], HearingChange(r, write[r]))
      BY <2>2, RowIsSomeChange DEF IInv, TypeOK, FillHearing
    <3>2. write'[r] \in Row
      BY <2>2, <3>1, StepTypes, HearingChangeType, ApplyType
    <3>3. Opening(r)'
      BY <2>2 DEF Opening, Last, FillHearing
    <3> QED
      BY <1>0, <2>1, <3>2, <3>3 DEF StageOK, FillHearing
  <2>3. CASE Amending(r) /\ write[r].hearing # Nil
    <3>1. Amending(r)'
      BY <2>3 DEF Amending, Docket, FillHearing
    <3>2. write'[r].hearing # Nil
      BY <2>3, StepTypes, HearingChangeType DEF IInv, TypeOK, FillHearing, Apply
    <3> QED
      BY <1>0, <2>1, <3>1, <3>2 DEF StageOK, FillHearing, Amending
  <2> QED
    BY <1>0, <2>2, <2>3
<1> QED
  BY <1>2, <1>3, <1>4, <1>5, FrameStep DEF FillHearing

LEMMA AssignJudgeStep ==
    ASSUME IInv, NEW r \in Requests, AssignJudge(r)
    PROVE  IInv'
<1>1. TypeOK'
  BY DEF IInv, TypeOK, AssignJudge, Fail, Goto, Stages, Statuses
<1>2. OthersKeep(r)
  BY DEF IInv, TypeOK, AssignJudge, Fail, Goto, OthersKeep
<1>3. LocksExclusive'
  BY DEF IInv, AssignJudge, LocksExclusive
<1>4. StageOK(r)'
  <2>1. Amending(r)' /\ write'[r] = NoChange /\ status[r] # "number_taken"
    BY StepTypes DEF StageOK, AssignJudge, Amending, Docket
  <2> QED
    BY <2>1, StepTypes, NoChangeKeepsHearing
       DEF IInv, TypeOK, AssignJudge, Fail, Goto, StageOK, Amending
<1> QED
  BY <1>1, <1>2, <1>3, <1>4, FrameStep DEF AssignJudge

LEMMA BeginCommitStep ==
    ASSUME IInv, NEW r \in Requests, BeginCommit(r)
    PROVE  IInv'
<1>1. TypeOK'
  BY DEF IInv, TypeOK, BeginCommit, Goto, Stages
<1>2. OthersKeep(r)
  BY DEF IInv, TypeOK, BeginCommit, Goto, OthersKeep
<1>3. LocksExclusive'
  BY DEF IInv, BeginCommit, LocksExclusive
<1>4. StageOK(r)'
  BY DEF IInv, TypeOK, BeginCommit, Goto, StageOK, Amending, Docket
<1> QED
  BY <1>1, <1>2, <1>3, <1>4, FrameStep DEF BeginCommit

LEMMA FlushJudgeStep ==
    ASSUME IInv, NEW r \in Requests, FlushJudge(r)
    PROVE  IInv'
<1>0. /\ Amending(r)
      /\ req[r].case \in Cases
      /\ req[r].judge \in Persons
      /\ status[r] # "number_taken"
  BY StepTypes DEF StageOK, FlushJudge
<1>1. [NoChange EXCEPT !.judge = req[r].judge] \in Change
  BY <1>0 DEF NoChange, Change, Given
<1>2. TypeOK'
  BY <1>1 DEF IInv, TypeOK, FlushJudge, Goto, Stages
<1>3. OthersKeep(r)
  BY DEF IInv, TypeOK, FlushJudge, Goto, OthersKeep
<1>4. LocksExclusive'
  BY DEF IInv, FlushJudge, LocksExclusive
<1>5. StageOK(r)'
  <2>1. pc'[r] = "commit" /\ write'[r].hearing # Nil
    BY NoChangeKeepsHearing DEF IInv, TypeOK, FlushJudge, Goto, NoChange
  <2>2. Amending(r)'
    BY <1>0 DEF FlushJudge, Amending, Docket
  <2> QED
    BY <1>0, <2>1, <2>2 DEF StageOK, FlushJudge, Amending
<1> QED
  BY <1>2, <1>3, <1>4, <1>5, FrameStep DEF FlushJudge

\* The end of a transaction gives back what it held and touches nobody else.
LEMMA EndTransactionFrame ==
    ASSUME IInv, NEW r \in Requests, EndTransaction(r), Goto(r, "reply"), req' = req,
           \A q \in Requests \ {r} : num'[q] = num[q] /\ status'[q] = status[q],
           status'[r] # "number_taken"
    PROVE  /\ write' \in [Requests -> Change]
           /\ pc' \in [Requests -> Stages]
           /\ locked' \in SUBSET Requests
           /\ loop' \in [Tasks -> Requests \cup {Free}]
           /\ OthersKeep(r)
           /\ LocksExclusive'
           /\ StageOK(r)'
<1>1. write' \in [Requests -> Change] /\ pc' \in [Requests -> Stages]
  BY NoChangeType DEF IInv, TypeOK, EndTransaction, Goto, Stages
<1>2. locked' \in SUBSET Requests /\ loop' \in [Tasks -> Requests \cup {Free}]
  BY DEF IInv, TypeOK, EndTransaction
<1>3. OthersKeep(r)
  BY DEF IInv, TypeOK, EndTransaction, Goto, OthersKeep
<1>4. LocksExclusive'
  BY DEF IInv, EndTransaction, LocksExclusive
<1>5. StageOK(r)'
  BY DEF IInv, TypeOK, EndTransaction, Goto, StageOK
<1> QED
  BY <1>1, <1>2, <1>3, <1>4, <1>5

LEMMA RollbackStep ==
    ASSUME IInv, NEW r \in Requests, Rollback(r)
    PROVE  IInv'
<1>1. status[r] # "number_taken"
  BY StepTypes DEF StageOK
<1>2. /\ EndTransaction(r) /\ Goto(r, "reply")
      /\ UNCHANGED <<trials, req, seen, num, status>>
  BY DEF Rollback
<1>3. /\ write' \in [Requests -> Change]
      /\ pc' \in [Requests -> Stages]
      /\ locked' \in SUBSET Requests
      /\ loop' \in [Tasks -> Requests \cup {Free}]
      /\ OthersKeep(r)
      /\ LocksExclusive'
      /\ StageOK(r)'
  BY <1>1, <1>2, EndTransactionFrame
<1>4. TypeOK'
  BY <1>2, <1>3 DEF IInv, TypeOK
<1> QED
  BY <1>2, <1>3, <1>4, FrameStep

LEMMA AnswerStep ==
    ASSUME IInv, NEW r \in Requests, Answer(r)
    PROVE  IInv'
<1>1. TypeOK'
  BY DEF IInv, TypeOK, Answer, Goto, Stages
<1>2. OthersKeep(r)
  BY DEF IInv, TypeOK, Answer, Goto, OthersKeep
<1>3. LocksExclusive'
  BY DEF IInv, Answer, LocksExclusive
<1>4. StageOK(r)'
  BY DEF IInv, TypeOK, Answer, Goto, StageOK
<1> QED
  BY <1>1, <1>2, <1>3, <1>4, FrameStep DEF Answer

\* What a commit that carries a write makes of the dockets: its own case gains
\* the number at its end or keeps its numbers, and no other case changes.
LEMMA CommitWrites ==
    ASSUME IInv, NEW r \in Requests, Commit(r), write[r] # NoChange
    PROVE  /\ req[r].case \in Cases
           /\ num[r] \in 1 .. Last(req[r].case) + 1
           /\ \/ num[r] \in 1 .. Last(req[r].case) /\ write[r].hearing # Nil
              \/ Opening(r) /\ write[r] \in Row
           /\ DOMAIN trials' = Cases
           /\ \A d \in Cases \ {req[r].case} : trials'[d] = trials[d]
           /\ DOMAIN trials'[req[r].case] = DOMAIN trials[req[r].case] \cup {num[r]}
           /\ \A n \in DOMAIN trials'[req[r].case] :
                trials'[req[r].case][n] =
                  IF n # num[r] THEN trials[req[r].case][n]
                  ELSE Apply(IF n \in DOMAIN trials[req[r].case]
                             THEN trials[req[r].case][n] ELSE NullRow, write[r])
           /\ trials' = [c \in Cases |-> [n \in DOMAIN trials'[c] |-> trials'[c][n]]]
<1> DEFINE c == req[r].case
<1>1. /\ c \in Cases
      /\ (Opening(r) /\ write[r] \in Row) \/ (Amending(r) /\ write[r].hearing # Nil)
  BY StepTypes DEF Commit, StageOK
<1>2. Last(c) \in Nat /\ DOMAIN trials[c] = 1 .. Last(c)
  BY <1>1 DEF IInv, Numbered
<1>3. /\ num[r] \in 1 .. Last(c) + 1
      /\ \/ num[r] \in 1 .. Last(c) /\ write[r].hearing # Nil
         \/ Opening(r) /\ write[r] \in Row
  BY <1>1, <1>2 DEF Opening, Amending, Docket
<1> DEFINE old(n) == IF n \in DOMAIN trials[c] THEN trials[c][n] ELSE NullRow
           new == [n \in DOMAIN trials[c] \cup {num[r]} |->
                     IF n = num[r] THEN Apply(old(n), write[r]) ELSE trials[c][n]]
<1>4. trials' = [trials EXCEPT ![c] = new]
  BY DEF Commit, Docket
<1>5. trials = [d \in Cases |-> [n \in DOMAIN trials[d] |-> trials[d][n]]]
  BY DEF IInv, TypeOK
<1>6. trials' = [d \in Cases |-> IF d = c THEN new ELSE trials[d]]
  BY <1>1, <1>4, <1>5
<1>7. trials'[c] = new /\ \A d \in Cases \ {c} : trials'[d] = trials[d]
  BY <1>1, <1>6
<1>8. trials' = [d \in Cases |-> [n \in DOMAIN trials'[d] |-> trials'[d][n]]]
  <2>1. \A d \in Cases : trials[d] = [n \in DOMAIN trials[d] |-> trials[d][n]]
    BY <1>5
  <2>2. \A d \in Cases : trials'[d] = [n \in DOMAIN trials'[d] |-> trials'[d][n]]
    BY <1>7, <2>1
  <2>3. trials' = [d \in Cases |-> trials'[d]]
    BY <1>6
  <2> QED
    BY <2>2, <2>3
<1>9. /\ DOMAIN trials'[c] = DOMAIN trials[c] \cup {num[r]}
      /\ \A n \in DOMAIN trials'[c] :
           trials'[c][n] = IF n # num[r] THEN trials[c][n] ELSE Apply(old(n), write[r])
  BY <1>7
<1> QED
  BY <1>1, <1>3, <1>6, <1>7, <1>8, <1>9

LEMMA CommitStep ==
    ASSUME IInv, NEW r \in Requests, Commit(r)
    PROVE  IInv'
<1>1. /\ EndTransaction(r) /\ Goto(r, "reply")
      /\ UNCHANGED <<req, seen, num>>
      /\ status' = [status EXCEPT ![r] = "ok"]
  BY DEF Commit
<1>2. /\ status' \in [Requests -> Statuses]
      /\ status'[r] = "ok"
      /\ \A q \in Requests \ {r} : num'[q] = num[q] /\ status'[q] = status[q]
  BY <1>1 DEF IInv, TypeOK, Statuses
<1>3. /\ write' \in [Requests -> Change]
      /\ pc' \in [Requests -> Stages]
      /\ locked' \in SUBSET Requests
      /\ loop' \in [Tasks -> Requests \cup {Free}]
      /\ OthersKeep(r)
      /\ LocksExclusive'
      /\ StageOK(r)'
  BY <1>1, <1>2, EndTransactionFrame
<1>4. CASE write[r] = NoChange
  <2>1. trials' = trials
    BY <1>4 DEF Commit
  <2>2. TypeOK'
    BY <1>1, <1>2, <1>3, <2>1 DEF IInv, TypeOK
  <2> QED
    BY <1>1, <1>3, <2>1, <2>2, FrameStep
<1>5. CASE write[r] # NoChange
  <2> DEFINE c == req[r].case
  <2>1. /\ c \in Cases
        /\ num[r] \in 1 .. Last(c) + 1
        /\ \/ num[r] \in 1 .. Last(c) /\ write[r].hearing # Nil
           \/ Opening(r) /\ write[r] \in Row
        /\ DOMAIN trials' = Cases
        /\ \A d \in Cases \ {c} : trials'[d] = trials[d]
        /\ DOMAIN trials'[c] = DOMAIN trials[c] \cup {num[r]}
        /\ \A n \in DOMAIN trials'[c] :
             trials'[c][n] =
               IF n # num[r] THEN trials[c][n]
               ELSE Apply(IF n \in DOMAIN trials[c] THEN trials[c][n] ELSE NullRow, write[r])
        /\ trials' = [d \in Cases |-> [n \in DOMAIN trials'[d] |-> trials'[d][n]]]
    BY <1>5, CommitWrites
  <2>2. Last(c) \in Nat /\ DOMAIN trials[c] = 1 .. Last(c)
    BY <2>1 DEF IInv, Numbered
  <2>3. \/ num[r] \in 1 .. Last(c) /\ DOMAIN trials'[c] = 1 .. Last(c)
        \/ Opening(r) /\ DOMAIN trials'[c] = 1 .. Last(c) + 1
    <3>1. CASE num[r] \in 1 .. Last(c)
      BY <2>1, <2>2, <3>1
    <3>2. CASE num[r] = Last(c) + 1
      <4>1. Opening(r)
        BY <2>1, <2>2, <3>2
      <4>2. DOMAIN trials'[c] = 1 .. Last(c) + 1
        BY <2>1, <2>2, <3>2
      <4> QED
        BY <4>1, <4>2
    <3> QED
      BY <2>1, <2>2, <3>1, <3>2
  <2>4. Numbered'
    <3>1. ASSUME NEW d \in Cases
          PROVE  Last(d)' \in Nat /\ DOMAIN trials'[d] = 1 .. Last(d)'
      <4>1. CASE d = c
        BY <2>2, <2>3, <4>1, LastOfInterval DEF Last
      <4>2. CASE d # c
        BY <2>1, <4>2 DEF IInv, Numbered, Last
      <4> QED
        BY <4>1, <4>2
    <3> QED
      BY <3>1 DEF Numbered
  <2>5. TypeOK'
    <3>1. \A d \in Cases : DOMAIN trials'[d] \subseteq Int
      BY <2>4 DEF Numbered
    <3>2. ASSUME NEW d \in Cases, NEW n \in DOMAIN trials'[d]
          PROVE  trials'[d][n] \in Row
      <4>1. CASE d # c
        BY <2>1, <3>2, <4>1 DEF IInv, TypeOK
      <4>2. CASE d = c /\ n # num[r]
        BY <2>1, <3>2, <4>2 DEF IInv, TypeOK
      <4>3. CASE d = c /\ n = num[r]
        <5>1. (IF n \in DOMAIN trials[c] THEN trials[c][n] ELSE NullRow) \in Row
          BY <2>1, NullRowType DEF IInv, TypeOK
        <5> QED
          BY <2>1, <3>2, <4>3, <5>1, StepTypes, ApplyType
      <4> QED
        BY <4>1, <4>2, <4>3
    <3> QED
      BY <1>1, <1>2, <1>3, <2>1, <3>1, <3>2 DEF IInv, TypeOK
  <2>6. ASSUME NEW q \in Requests PROVE StageOK(q)'
    <3>1. CASE q = r
      BY <1>3, <3>1
    <3>2. CASE q # r
      <4>1. StageOK(q) /\ req' = req
        BY <1>1 DEF IInv
      <4>2. /\ pc'[q] = pc[q] /\ num'[q] = num[q]
            /\ write'[q] = write[q] /\ status'[q] = status[q]
            /\ q \in locked' <=> q \in locked
        BY <1>3, <3>2 DEF OthersKeep
      <4>3. req[q].case \in Cases /\ Opening(q) => Opening(q)'
        <5> SUFFICES ASSUME req[q].case \in Cases, Opening(q) PROVE Opening(q)'
          OBVIOUS
        <5>1. CASE req[q].case = c
          <6>1. ~ Opening(r)
            BY <3>2, <5>1 DEF IInv, LocksExclusive, Opening
          <6>2. Last(c)' = Last(c)
            BY <1>1, <2>2, <2>3, <4>1, <6>1, LastOfInterval DEF Last
          <6> QED
            BY <4>1, <4>2, <5>1, <6>2 DEF Opening, Last
        <5>2. CASE req[q].case # c
          BY <2>1, <4>1, <4>2, <5>2 DEF Opening, Last
        <5> QED
          BY <5>1, <5>2
      <4>4. req[q].case \in Cases /\ Amending(q) => Amending(q)'
        BY <2>1, <4>1, <4>2 DEF Amending, Docket
      <4> QED
        BY <4>1, <4>2, <4>3, <4>4 DEF StageOK
    <3> QED
      BY <3>1, <3>2
  <2> QED
    BY <1>3, <2>4, <2>5, <2>6 DEF IInv
<1> QED
  BY <1>4, <1>5

LEMMA CrashStep ==
    ASSUME IInv, NEW t \in Tasks, Crash(t)
    PROVE  IInv'
<1>1. TypeOK'
  BY NoChangeType DEF IInv, TypeOK, Crash, Stages
<1>2. Numbered'
  BY DEF IInv, Numbered, Last, Crash
<1>3. LocksExclusive'
  BY DEF IInv, LocksExclusive, Crash
<1>4. ASSUME NEW q \in Requests PROVE StageOK(q)'
  <2>1. CASE q \in InFlight(t)
    <3>1. pc'[q] = "lost" /\ write'[q] = NoChange /\ q \notin locked' /\ status' = status
      BY <2>1 DEF Crash
    <3> QED
      BY <3>1 DEF IInv, StageOK
  <2>2. CASE q \notin InFlight(t)
    <3>1. pc'[q] = pc[q] /\ write'[q] = write[q] /\ (q \in locked' <=> q \in locked)
      BY <2>2 DEF Crash
    <3> QED
      BY <3>1 DEF IInv, StageOK, Opening, Amending, Docket, Last, Crash
  <2> QED
    BY <2>1, <2>2
<1> QED
  BY <1>1, <1>2, <1>3, <1>4 DEF IInv

LEMMA StepIInv == IInv /\ [Next]_vars => IInv'
<1> SUFFICES ASSUME IInv, [Next]_vars PROVE IInv'
  OBVIOUS
<1>1. ASSUME NEW r \in Requests, Serve(r) PROVE IInv'
  BY <1>1, ReceiveStep, FetchCaseStep, FetchTrialStep, LockCaseStep, CountTrialsStep,
     InsertTrialStep, FillHearingStep, AssignJudgeStep, BeginCommitStep,
     FlushJudgeStep, CommitStep, RollbackStep, AnswerStep DEF Serve
<1>2. ASSUME NEW t \in Tasks, Crash(t) PROVE IInv'
  BY <1>2, CrashStep
<1>3. CASE UNCHANGED vars
  BY <1>3 DEF vars, IInv, TypeOK, Numbered, Last, LocksExclusive, StageOK,
              Opening, Amending, Docket
<1> QED
  BY <1>1, <1>2, <1>3 DEF Next

THEOREM Invariance == Spec => []IInv
BY InitIInv, StepIInv, PTL DEF Spec

\* The variables of the service keep their types.
THEOREM TypeCorrect == Spec => []TypeOK
<1>1. IInv => TypeOK
  BY DEF IInv
<1> QED
  BY <1>1, Invariance, PTL

\* The row lock of a case is held by one request at a time.
THEOREM CaseLockExclusive == Spec => []LocksExclusive
<1>1. IInv => LocksExclusive
  BY DEF IInv
<1> QED
  BY <1>1, Invariance, PTL

\* Trials are numbered without a gap, for every number of requests and tasks.
THEOREM ContiguousNumbering == Spec => []NumbersContiguous
<1>1. IInv => NumbersContiguous
  BY DEF IInv, Numbered, NumbersContiguous, Last
<1> QED
  BY <1>1, Invariance, PTL

\* No request is refused because another took its number.
THEOREM NoNumberConflict == Spec => []NumberNeverTaken
<1>1. IInv => NumberNeverTaken
  BY DEF IInv, StageOK, NumberNeverTaken
<1> QED
  BY <1>1, Invariance, PTL
-----------------------------------------------------------------------------
\* A docket numbered 1 .. n is a sequence of rows.
LEMMA DocketsAreSequences ==
    ASSUME IInv, NEW c \in Cases
    PROVE  trials[c] \in Seq(Row) /\ Len(trials[c]) = Last(c)
<1>1. trials[c] = [n \in DOMAIN trials[c] |-> trials[c][n]]
  BY DEF IInv, TypeOK
<1>2. \A n \in DOMAIN trials[c] : trials[c][n] \in Row
  BY DEF IInv, TypeOK
<1>3. Last(c) \in Nat /\ DOMAIN trials[c] = 1 .. Last(c)
  BY DEF IInv, Numbered
<1> QED
  BY <1>1, <1>2, <1>3

\* Appending is extending the function by one place.
LEMMA AppendExtends ==
    ASSUME NEW S, NEW s \in Seq(S), NEW e \in S
    PROVE  Append(s, e) = [i \in 1 .. Len(s) + 1 |-> IF i = Len(s) + 1 THEN e ELSE s[i]]
<1> DEFINE f == [i \in 1 .. Len(s) + 1 |-> IF i = Len(s) + 1 THEN e ELSE s[i]]
<1>1. /\ Append(s, e) \in Seq(S)
      /\ Len(Append(s, e)) = Len(s) + 1
      /\ \A i \in 1 .. Len(s) : Append(s, e)[i] = s[i]
      /\ Append(s, e)[Len(s) + 1] = e
  BY AppendProperties
<1>2. Len(s) \in Nat /\ s \in [1 .. Len(s) -> S]
  BY LenProperties
<1>3. f \in [1 .. Len(s) + 1 -> S]
  BY <1>2
<1>4. Append(s, e) \in [1 .. Len(s) + 1 -> S]
  BY <1>1, LenProperties
<1>5. \A i \in 1 .. Len(s) + 1 : Append(s, e)[i] = f[i]
  BY <1>1, <1>2
<1> QED
  BY <1>3, <1>4, <1>5

LEMMA CommitImplementsDocket ==
    ASSUME IInv, NEW r \in Requests, Commit(r), write[r] # NoChange
    PROVE  D!Next
<1> DEFINE c == req[r].case
           old == IF num[r] \in DOMAIN trials[c] THEN trials[c][num[r]] ELSE NullRow
           row == Apply(old, write[r])
<1>1. /\ c \in Cases
      /\ \/ num[r] \in 1 .. Last(c) /\ write[r].hearing # Nil
         \/ Opening(r) /\ write[r] \in Row
      /\ \A d \in Cases \ {c} : trials'[d] = trials[d]
      /\ DOMAIN trials'[c] = DOMAIN trials[c] \cup {num[r]}
      /\ \A n \in DOMAIN trials'[c] :
           trials'[c][n] =
             IF n # num[r] THEN trials[c][n]
             ELSE Apply(IF n \in DOMAIN trials[c] THEN trials[c][n] ELSE NullRow, write[r])
      /\ trials' = [d \in Cases |-> [n \in DOMAIN trials'[d] |-> trials'[d][n]]]
  BY CommitWrites
<1>2. /\ trials[c] \in Seq(Row) /\ Len(trials[c]) = Last(c)
      /\ Last(c) \in Nat /\ DOMAIN trials[c] = 1 .. Last(c)
  BY <1>1, DocketsAreSequences DEF IInv, Numbered
<1>3. row \in Row
  BY <1>2, NullRowType, StepTypes, ApplyType
<1>4. trials = [d \in Cases |-> trials[d]]
  BY DEF IInv, TypeOK
<1>5. trials'[c] = [n \in DOMAIN trials'[c] |-> trials'[c][n]]
  BY <1>1
<1>6. CASE num[r] \in 1 .. Last(c) /\ write[r].hearing # Nil
  <2>1. trials'[c] = [trials[c] EXCEPT ![num[r]] = row]
    BY <1>1, <1>2, <1>5, <1>6
  <2>2. trials' = [trials EXCEPT ![c] = [trials[c] EXCEPT ![num[r]] = row]]
    BY <1>1, <1>4, <2>1
  <2>3. HasHearing(trials[c][num[r]]) => HasHearing(row)
    BY <1>2, <1>6 DEF HasHearing, Apply
  <2> QED
    BY <1>1, <1>2, <1>3, <1>6, <2>2, <2>3 DEF D!Next, D!AmendTrial
<1>7. CASE Opening(r)
  <2>1. num[r] = Len(trials[c]) + 1 /\ old = NullRow
    BY <1>2, <1>7 DEF Opening
  <2>2. trials'[c] = Append(trials[c], row)
    <3>1. DOMAIN trials'[c] = 1 .. Len(trials[c]) + 1
      BY <1>1, <1>2, <2>1
    <3>2. \A i \in DOMAIN trials'[c] :
            trials'[c][i] = IF i = Len(trials[c]) + 1 THEN row ELSE trials[c][i]
      BY <1>1, <2>1
    <3>3. trials'[c] = [i \in 1 .. Len(trials[c]) + 1 |->
                          IF i = Len(trials[c]) + 1 THEN row ELSE trials[c][i]]
      BY <1>5, <3>1, <3>2
    <3> QED
      BY <1>2, <1>3, <3>3, AppendExtends
  <2>3. trials' = [trials EXCEPT ![c] = Append(trials[c], row)]
    BY <1>1, <1>4, <2>2
  <2> QED
    BY <1>1, <1>3, <2>3 DEF D!Next, D!OpenTrial
<1> QED
  BY <1>1, <1>6, <1>7

LEMMA StepImplementsDocket == IInv /\ [Next]_vars => [D!Next]_trials
<1> SUFFICES ASSUME IInv, [Next]_vars PROVE [D!Next]_trials
  OBVIOUS
<1>1. ASSUME NEW r \in Requests, Serve(r) PROVE [D!Next]_trials
  <2>1. CASE Commit(r)
    <3>1. CASE write[r] = NoChange
      BY <2>1, <3>1 DEF Commit
    <3>2. CASE write[r] # NoChange
      BY <2>1, <3>2, CommitImplementsDocket
    <3> QED
      BY <3>1, <3>2
  <2>2. CASE ~ Commit(r)
    BY <1>1, <2>2 DEF Serve, Receive, FetchCase, FetchTrial, LockCase, CountTrials,
       InsertTrial, FillHearing, AssignJudge, BeginCommit, FlushJudge, Rollback, Answer
  <2> QED
    BY <2>1, <2>2
<1>2. ASSUME NEW t \in Tasks, Crash(t) PROVE [D!Next]_trials
  BY <1>2 DEF Crash
<1>3. CASE UNCHANGED vars
  BY <1>3 DEF vars
<1> QED
  BY <1>1, <1>2, <1>3 DEF Next

\* What other clients see of the three endpoints is the docket: whole trials
\* opened one at a time at the end, and trials amended one at a time in place.
THEOREM ImplementsDocket == Spec => DocketSpec
<1>1. Init => D!Init
  BY DEF Init, D!Init
<1> QED
  BY <1>1, StepImplementsDocket, Invariance, PTL DEF Spec, DocketSpec, D!Spec

\* Nothing a request does takes a trial or a hearing away.
THEOREM HearingsStay == Spec => HearingNeverErased
<1>1. IInv /\ [D!Next]_trials =>
        [\A c \in Cases : \A n \in DOMAIN trials[c] :
            /\ n \in DOMAIN trials'[c]
            /\ trials[c][n].hearing # Nil => trials'[c][n].hearing # Nil]_vars
  <2> SUFFICES ASSUME IInv, D!Next \/ trials' = trials,
                      NEW c \in Cases, NEW n \in DOMAIN trials[c]
               PROVE  /\ n \in DOMAIN trials'[c]
                      /\ trials[c][n].hearing # Nil => trials'[c][n].hearing # Nil
    OBVIOUS
  <2>1. trials = [d \in Cases |-> trials[d]] /\ trials[c] \in Seq(Row)
    BY DocketsAreSequences DEF IInv, TypeOK
  <2>2. ASSUME NEW d \in Cases, D!OpenTrial(d)
        PROVE  /\ n \in DOMAIN trials'[c]
               /\ trials'[c][n] = trials[c][n]
    BY <2>1, <2>2, DocketsAreSequences DEF D!OpenTrial
  <2>3. ASSUME NEW d \in Cases, D!AmendTrial(d)
        PROVE  /\ n \in DOMAIN trials'[c]
               /\ trials[c][n].hearing # Nil => trials'[c][n].hearing # Nil
    BY <2>1, <2>3 DEF D!AmendTrial, HasHearing
  <2> QED
    BY <2>2, <2>3 DEF D!Next
<1> QED
  BY <1>1, StepImplementsDocket, Invariance, PTL DEF Spec, HearingNeverErased
-----------------------------------------------------------------------------
Target(r) == Docket(r)[num[r]]

\* What the answer of r tells its client is on the docket.
Settled(r) ==
    /\ req[r].case \in Cases
    /\ num[r] \in DOMAIN Docket(r)
    /\ req[r].hearing # Nil => Target(r).hearing # Nil
    /\ req[r].op = "judge" => Target(r).judge # Nil

\* What r read of a trial that is not its own is no longer true of it only in
\* that it may have gained a date or a judge, or another one.
SeenStands(r) ==
    /\ seen[r].hearing # Nil => Target(r).hearing # Nil
    /\ seen[r].judge # Nil => Target(r).judge # Nil

\* The commit of r will leave its trial as the answer says.
Ready(r) ==
    /\ r \in locked => req[r].op # "judge" /\ (req[r].hearing # Nil => write[r].hearing # Nil)
    /\ r \notin locked =>
          /\ write[r].judge # Nil
          /\ req[r].hearing # Nil => write[r].hearing # Keep \/ Target(r).hearing # Nil
          /\ req[r].op = "judge" => write[r].judge # Keep \/ Target(r).judge # Nil

Promise(r) ==
    /\ pc[r] \in {"assign", "dirty", "flush"} => req[r].op = "judge"
    /\ pc[r] \in {"lock", "count", "insert", "fill"} => req[r].op # "judge"
    /\ pc[r] \in {"fill", "assign", "dirty", "flush"} /\ r \notin locked =>
          SeenStands(r) /\ write[r] = NoChange
    /\ pc[r] = "commit" => Ready(r)
    /\ status[r] = "ok" => pc[r] \in {"reply", "done", "lost"}
    /\ pc[r] \in {"reply", "done"} /\ status[r] = "ok" => Settled(r)

Promises == \A r \in Requests : Promise(r)

LEMMA InitPromises == Init => Promises
BY DEF Init, Promises, Promise

\* No commit takes a row, a date or a judge off a docket.
RowsGrow ==
    \A c \in Cases : \A n \in DOMAIN trials[c] :
        /\ n \in DOMAIN trials'[c]
        /\ trials[c][n].hearing # Nil => trials'[c][n].hearing # Nil
        /\ trials[c][n].judge # Nil => trials'[c][n].judge # Nil

LEMMA CommitGrows ==
    ASSUME IInv, Promises, NEW r \in Requests, Commit(r)
    PROVE  RowsGrow
<1>1. CASE write[r] = NoChange
  BY <1>1 DEF Commit, RowsGrow
<1>2. CASE write[r] # NoChange
  <2> DEFINE c == req[r].case
  <2>1. /\ c \in Cases
        /\ (num[r] \in 1 .. Last(c) /\ write[r].hearing # Nil) \/ Opening(r)
        /\ \A d \in Cases \ {c} : trials'[d] = trials[d]
        /\ DOMAIN trials'[c] = DOMAIN trials[c] \cup {num[r]}
        /\ \A n \in DOMAIN trials'[c] :
             trials'[c][n] =
               IF n # num[r] THEN trials[c][n]
               ELSE Apply(IF n \in DOMAIN trials[c] THEN trials[c][n] ELSE NullRow, write[r])
    BY <1>2, CommitWrites
  <2>2. ASSUME num[r] \in DOMAIN trials[c]
        PROVE  write[r].hearing # Nil /\ write[r].judge # Nil
    <3>1. ~ Opening(r)
      BY <2>1, <2>2 DEF IInv, Numbered, Opening
    <3>2. r \notin locked /\ write[r].hearing # Nil
      BY <2>1, <3>1, StepTypes DEF StageOK, Amending, Commit
    <3> QED
      BY <3>2 DEF Promises, Promise, Ready, Commit
  <2>3. ASSUME NEW n \in DOMAIN trials[c]
        PROVE  /\ n \in DOMAIN trials'[c]
               /\ trials[c][n].hearing # Nil => trials'[c][n].hearing # Nil
               /\ trials[c][n].judge # Nil => trials'[c][n].judge # Nil
    <3>1. CASE n # num[r]
      BY <2>1, <3>1
    <3>2. CASE n = num[r]
      <4>1. trials'[c][n] = Apply(trials[c][n], write[r])
        BY <2>1, <3>2
      <4> QED
        BY <2>1, <2>2, <3>2, <4>1 DEF Apply
    <3> QED
      BY <3>1, <3>2
  <2> QED
    BY <2>1, <2>3 DEF RowsGrow
<1> QED
  BY <1>1, <1>2

\* A request keeps its promise while others commit.
LEMMA PromiseKept ==
    ASSUME IInv, Promises, NEW q \in Requests, RowsGrow, req' = req,
           pc'[q] = pc[q], seen'[q] = seen[q], num'[q] = num[q], write'[q] = write[q],
           status'[q] = status[q], q \in locked' <=> q \in locked
    PROVE  Promise(q)'
<1>1. Promise(q) /\ StageOK(q)
  BY StepTypes DEF Promises
<1>2. ASSUME req[q].case \in Cases, num[q] \in DOMAIN Docket(q)
      PROVE  /\ num[q] \in DOMAIN Docket(q)'
             /\ Target(q).hearing # Nil => Target(q)'.hearing # Nil
             /\ Target(q).judge # Nil => Target(q)'.judge # Nil
  BY <1>2 DEF RowsGrow, Docket, Target
<1>3. Settled(q) => Settled(q)'
  BY <1>2 DEF Settled
<1>4. pc[q] \in {"fill", "assign", "dirty", "flush", "commit"} /\ q \notin locked =>
        req[q].case \in Cases /\ num[q] \in DOMAIN Docket(q)
  BY <1>1 DEF StageOK, Opening, Amending
<1>5. pc[q] \in {"fill", "assign", "dirty", "flush"} /\ q \notin locked => SeenStands(q)'
  BY <1>1, <1>2, <1>4 DEF Promise, SeenStands
<1>6. pc[q] = "commit" => Ready(q)'
  BY <1>1, <1>2, <1>4 DEF Promise, Ready
<1> QED
  BY <1>1, <1>3, <1>5, <1>6 DEF Promise

\* What the three kinds of request carry.
LEMMA PayloadShape ==
    ASSUME IInv, NEW r \in Requests
    PROVE  /\ req[r].op \in {"trial", "hearing", "judge"}
           /\ req[r].op = "judge" => req[r].hearing = Nil /\ req[r].judge \notin {Nil, Keep}
           /\ req[r].hearing # Keep
BY StepTypes, SentinelAssumption DEF Request, AddTrial, AddHearing, SetJudge, Given

\* The steps of r that leave its transaction as it was.
LEMMA PlainPromise ==
    ASSUME IInv, Promises, NEW r \in Requests,
           Receive(r) \/ FetchCase(r) \/ LockCase(r) \/ CountTrials(r) \/ BeginCommit(r)
             \/ Rollback(r) \/ Answer(r)
    PROVE  Promise(r)'
<1>1. Promise(r) /\ StageOK(r) /\ r \in DOMAIN pc /\ r \in DOMAIN status /\ r \in DOMAIN num
  BY StepTypes DEF Promises, IInv, TypeOK
<1>2. CASE Receive(r)
  BY <1>1, <1>2 DEF Receive, Goto, Promise
<1>3. CASE FetchCase(r)
  BY <1>1, <1>3 DEF FetchCase, Fail, Goto, Promise
<1>4. CASE LockCase(r)
  BY <1>1, <1>4 DEF LockCase, Goto, Promise
<1>5. CASE CountTrials(r)
  BY <1>1, <1>5 DEF CountTrials, Goto, Promise
<1>6. CASE BeginCommit(r)
  BY <1>1, <1>6 DEF BeginCommit, Goto, Promise, SeenStands, Target, Docket
<1>7. CASE Rollback(r)
  BY <1>1, <1>7 DEF Rollback, EndTransaction, Goto, Promise
<1>8. CASE Answer(r)
  BY <1>1, <1>8 DEF Answer, Goto, Promise, Settled, Target, Docket
<1> QED
  BY <1>2, <1>3, <1>4, <1>5, <1>6, <1>7, <1>8

LEMMA FetchTrialPromise ==
    ASSUME IInv, Promises, NEW r \in Requests, FetchTrial(r)
    PROVE  Promise(r)'
<1>1. /\ Promise(r) /\ StageOK(r) /\ r \in DOMAIN pc /\ r \in DOMAIN status
      /\ r \in DOMAIN num /\ r \in DOMAIN seen /\ pc[r] = "fetch"
  BY StepTypes DEF Promises, IInv, TypeOK, FetchTrial
<1>2. CASE req[r].case \in Cases /\ req[r].trial \in DOMAIN Docket(r)
  <2> DEFINE row == Docket(r)[req[r].trial]
  <2>1. /\ seen'[r] = row /\ num'[r] = req[r].trial /\ pc'[r] = AfterFetch(r, row)
        /\ UNCHANGED <<trials, req, write, locked, status>>
    BY <1>1, <1>2 DEF FetchTrial, Goto
  <2>2. SeenStands(r)'
    BY <2>1 DEF SeenStands, Target, Docket
  <2>3. write[r] = NoChange /\ status[r] # "ok"
    BY <1>1 DEF StageOK, Promise
  <2> QED
    BY <2>1, <2>2, <2>3 DEF Promise, AfterFetch
<1>3. CASE ~ (req[r].case \in Cases /\ req[r].trial \in DOMAIN Docket(r))
  BY <1>1, <1>3 DEF FetchTrial, Fail, Goto, Promise
<1> QED
  BY <1>2, <1>3

LEMMA InsertTrialPromise ==
    ASSUME IInv, Promises, NEW r \in Requests, InsertTrial(r)
    PROVE  Promise(r)'
<1>1. /\ Promise(r) /\ StageOK(r) /\ r \in DOMAIN pc /\ r \in DOMAIN status
      /\ r \in DOMAIN write /\ pc[r] = "insert"
  BY StepTypes DEF Promises, IInv, TypeOK, InsertTrial
<1>2. r \in locked /\ req[r].op \in {"trial", "hearing"} /\ status[r] # "ok"
  BY <1>1, PayloadShape DEF StageOK, Opening, Promise
<1>3. CASE pc'[r] = "rollback"
  BY <1>1, <1>2, <1>3 DEF InsertTrial, Fail, Promise
<1>4. CASE pc'[r] # "rollback"
  <2>1. /\ write'[r] = NewRow(r)
        /\ pc'[r] = IF req[r].op = "trial" THEN "commit" ELSE "fill"
        /\ UNCHANGED <<trials, req, seen, num, locked, status>>
    BY <1>1, <1>4 DEF InsertTrial, Fail, Goto
  <2>2. req[r].op = "trial" => write'[r].hearing = req[r].hearing
    BY <2>1 DEF NewRow, RowFromPayload
  <2> QED
    BY <1>2, <2>1, <2>2 DEF Promise, Ready
<1> QED
  BY <1>3, <1>4

LEMMA FillHearingPromise ==
    ASSUME IInv, Promises, NEW r \in Requests, FillHearing(r)
    PROVE  Promise(r)'
<1>1. /\ Promise(r) /\ StageOK(r) /\ r \in DOMAIN pc /\ r \in DOMAIN write /\ pc[r] = "fill"
      /\ pc'[r] = "commit" /\ status[r] # "ok" /\ req[r].op # "judge"
      /\ UNCHANGED <<trials, req, seen, num, locked, status>>
  BY StepTypes DEF Promises, Promise, IInv, TypeOK, FillHearing, Goto
<1>2. CASE r \in locked
  <2>1. write[r] # NoChange
    BY <1>1, <1>2, RowIsSomeChange DEF StageOK, Amending
  <2>2. write'[r] = Apply(write[r], HearingChange(r, write[r]))
    BY <1>1, <2>1 DEF FillHearing
  <2>3. req[r].hearing # Nil => write'[r].hearing # Nil
    BY <2>2, PayloadShape DEF Apply, HearingChange, Differing
  <2> QED
    BY <1>1, <1>2, <2>3 DEF Promise, Ready
<1>3. CASE r \notin locked
  <2>1. write'[r] = HearingChange(r, seen[r])
    BY <1>1, <1>3 DEF FillHearing, Promise
  <2>2. write'[r].judge = Keep /\ Keep # Nil
    BY <2>1, SentinelAssumption DEF HearingChange
  <2>3. req[r].hearing # Nil => write'[r].hearing # Keep \/ seen[r].hearing = req[r].hearing
    BY <2>1, PayloadShape DEF HearingChange, Differing
  <2>4. req[r].hearing # Nil => write'[r].hearing # Keep \/ Target(r).hearing # Nil
    BY <1>1, <1>3, <2>3 DEF Promise, SeenStands
  <2> QED
    BY <1>1, <1>3, <2>2, <2>4 DEF Promise, Ready, Target, Docket
<1> QED
  BY <1>2, <1>3

LEMMA JudgePromise ==
    ASSUME IInv, Promises, NEW r \in Requests, AssignJudge(r) \/ FlushJudge(r)
    PROVE  Promise(r)'
<1>1. /\ Promise(r) /\ StageOK(r) /\ r \in DOMAIN pc /\ r \in DOMAIN write /\ r \in DOMAIN status
      /\ pc[r] \in {"assign", "flush"} /\ status[r] # "ok" /\ r \notin locked
      /\ SeenStands(r) /\ write[r] = NoChange /\ req[r].op = "judge"
      /\ req[r].hearing = Nil /\ req[r].judge \notin {Nil, Keep}
      /\ UNCHANGED <<trials, req, seen, num, locked>>
  BY StepTypes, PayloadShape DEF Promises, Promise, IInv, TypeOK, StageOK, Amending,
     AssignJudge, FlushJudge
<1>2. NoChange.judge = Keep /\ Keep # Nil /\ [NoChange EXCEPT !.judge = req[r].judge].judge = req[r].judge
  BY SentinelAssumption DEF NoChange
<1>3. CASE FlushJudge(r)
  <2>1. write'[r].judge = req[r].judge /\ pc'[r] = "commit" /\ status' = status
    BY <1>1, <1>2, <1>3 DEF FlushJudge, Goto
  <2> QED
    BY <1>1, <2>1 DEF Promise, Ready
<1>4. CASE AssignJudge(r)
  <2>1. CASE req[r].judge \notin Persons
    BY <1>1, <1>4, <2>1 DEF AssignJudge, Fail, Goto, Promise
  <2>2. CASE req[r].judge \in Persons
    <3>1. /\ pc'[r] = IF seen[r].judge = req[r].judge THEN "commit" ELSE "dirty"
          /\ write' = write /\ status' = status
      BY <1>1, <1>4, <2>2 DEF AssignJudge, Goto
    <3>2. SeenStands(r)' /\ (seen[r].judge = req[r].judge => Target(r)'.judge # Nil)
      BY <1>1 DEF SeenStands, Target, Docket
    <3>3. seen[r].judge = req[r].judge => Ready(r)'
      BY <1>1, <1>2, <3>1, <3>2 DEF Ready
    <3> QED
      BY <1>1, <3>1, <3>2, <3>3 DEF Promise
  <2> QED
    BY <2>1, <2>2
<1> QED
  BY <1>3, <1>4

LEMMA CommitPromise ==
    ASSUME IInv, Promises, NEW r \in Requests, Commit(r)
    PROVE  Promise(r)'
<1> DEFINE c == req[r].case
<1>1. /\ Promise(r) /\ StageOK(r) /\ pc[r] = "commit" /\ c \in Cases /\ Ready(r)
      /\ (Opening(r) /\ write[r] \in Row) \/ (Amending(r) /\ write[r].hearing # Nil)
      /\ pc'[r] = "reply" /\ UNCHANGED <<req, num>>
  BY StepTypes DEF Promises, Promise, StageOK, Commit, Goto, IInv, TypeOK
<1>2. CASE write[r] = NoChange
  <2>1. r \notin locked /\ num[r] \in DOMAIN Docket(r)
    BY <1>1, <1>2, RowIsSomeChange DEF Amending
  <2>2. Settled(r)
    BY <1>1, <1>2, <2>1 DEF Ready, Settled, NoChange
  <2>3. trials' = trials
    BY <1>2 DEF Commit
  <2> QED
    BY <1>1, <2>2, <2>3 DEF Promise, Settled, Target, Docket
<1>3. CASE write[r] # NoChange
  <2>1. /\ DOMAIN trials'[c] = DOMAIN trials[c] \cup {num[r]}
        /\ trials'[c][num[r]] =
             Apply(IF num[r] \in DOMAIN trials[c] THEN trials[c][num[r]] ELSE NullRow, write[r])
    BY <1>1, <1>3, CommitWrites
  <2>2. CASE r \in locked
    <3>1. write[r].hearing # Keep
      BY <1>1, <2>2, SentinelAssumption DEF Amending, Row, Given
    <3>2. trials'[c][num[r]].hearing = write[r].hearing
      BY <2>1, <3>1 DEF Apply
    <3> QED
      BY <1>1, <2>1, <2>2, <3>2 DEF Promise, Ready, Settled, Target, Docket
  <2>3. CASE r \notin locked
    <3>1. num[r] \in DOMAIN trials[c] /\ write[r].hearing # Nil
      BY <1>1, <2>3 DEF Opening, Amending, Docket
    <3>2. trials'[c][num[r]] = Apply(trials[c][num[r]], write[r])
      BY <2>1, <3>1
    <3>3. /\ req[r].hearing # Nil => trials'[c][num[r]].hearing # Nil
          /\ req[r].op = "judge" => trials'[c][num[r]].judge # Nil
      BY <1>1, <2>3, <3>1, <3>2 DEF Apply, Ready, Target, Docket
    <3> QED
      BY <1>1, <2>1, <3>3 DEF Promise, Settled, Target, Docket
  <2> QED
    BY <2>2, <2>3
<1> QED
  BY <1>2, <1>3

LEMMA StepPromises == IInv /\ Promises /\ [Next]_vars => Promises'
<1> SUFFICES ASSUME IInv, Promises, [Next]_vars PROVE Promises'
  OBVIOUS
<1>1. ASSUME NEW r \in Requests, Serve(r) PROVE Promises'
  <2>1. Promise(r)'
    BY <1>1, PlainPromise, FetchTrialPromise, InsertTrialPromise, FillHearingPromise,
       JudgePromise, CommitPromise DEF Serve
  <2>2. RowsGrow
    <3>1. CASE Commit(r)
      BY <3>1, CommitGrows
    <3>2. CASE ~ Commit(r)
      <4>1. trials' = trials
        BY <1>1, <3>2 DEF Serve, Receive, FetchCase, FetchTrial, LockCase, CountTrials,
           InsertTrial, FillHearing, AssignJudge, BeginCommit, FlushJudge, Rollback, Answer
      <4> QED
        BY <4>1 DEF RowsGrow
    <3> QED
      BY <3>1, <3>2
  <2>3. ASSUME NEW q \in Requests \ {r} PROVE Promise(q)'
    <3>1. /\ req' = req /\ pc'[q] = pc[q] /\ seen'[q] = seen[q] /\ num'[q] = num[q]
          /\ write'[q] = write[q] /\ status'[q] = status[q] /\ (q \in locked' <=> q \in locked)
      BY <1>1 DEF IInv, TypeOK, Serve, Receive, FetchCase, FetchTrial, LockCase, CountTrials,
         InsertTrial, FillHearing, AssignJudge, BeginCommit, FlushJudge, Commit, Rollback, Answer,
         EndTransaction, Fail, Goto
    <3> QED
      BY <2>2, <3>1, PromiseKept
  <2> QED
    BY <2>1, <2>3 DEF Promises
<1>2. ASSUME NEW t \in Tasks, Crash(t) PROVE Promises'
  <2>1. RowsGrow
    BY <1>2 DEF Crash, RowsGrow
  <2>2. ASSUME NEW q \in Requests PROVE Promise(q)'
    <3>1. CASE q \in InFlight(t)
      BY <1>2, <3>1 DEF Crash, Promise
    <3>2. CASE q \notin InFlight(t)
      <4>1. /\ req' = req /\ pc'[q] = pc[q] /\ seen'[q] = seen[q] /\ num'[q] = num[q]
            /\ write'[q] = write[q] /\ status'[q] = status[q] /\ (q \in locked' <=> q \in locked)
        BY <1>2, <3>2 DEF Crash
      <4> QED
        BY <2>1, <4>1, PromiseKept
    <3> QED
      BY <3>1, <3>2
  <2> QED
    BY <2>2 DEF Promises
<1>3. CASE UNCHANGED vars
  <2>1. RowsGrow
    BY <1>3 DEF vars, RowsGrow
  <2>2. ASSUME NEW q \in Requests PROVE Promise(q)'
    BY <1>3, <2>1, PromiseKept DEF vars
  <2> QED
    BY <2>2 DEF Promises
<1> QED
  BY <1>1, <1>2, <1>3 DEF Next

\* A request answered with success has its effect on the docket: what it read
\* without a lock may have changed before its commit, but never by losing the
\* date or the judge it counted on (_finish_db before the response).
THEOREM AnswersAreKept == Spec => []AnsweredIsCommitted
<1>1. Promises => AnsweredIsCommitted
  BY DEF Promises, Promise, Settled, Target, AnsweredIsCommitted
<1>2. Spec => []Promises
  BY InitPromises, StepPromises, Invariance, PTL DEF Spec
<1> QED
  BY <1>1, <1>2, PTL
==============================================================================
