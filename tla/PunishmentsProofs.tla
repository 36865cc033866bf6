-------------------------- MODULE PunishmentsProofs --------------------------
(***************************************************************************)
(* Theorems about Punishments, for any requests, lists, persons and        *)
(* columns.  What a request has written is locked until it ends, and every *)
(* statement it sends gives a field the same value, so all that can happen *)
(* to a field between its being given and the commit is that another       *)
(* accepted request gave it too.                                           *)
(***************************************************************************)
EXTENDS Punishments, FiniteSetTheorems, WellFoundedInduction, TLAPS

\* The stages of an open transaction.
Busy == {"criminal", "enlist", "find", "sentence", "commit"}

ListedBefore(r) == {PersonAt(r, i) : i \in 1 .. at[r] - 1}

\* The persons r has sentenced so far.
Served(r) == IF pc[r] \in {"commit", "done"} THEN Listed(r) ELSE ListedBefore(r)

\* The row of p that r has written and not committed.
Holds(r, p) == p \in inserted[r] \/ wrote[r][p] # NoFields

OnFile(r, p) == p \in inserted[r] \/ punished[<<Case(r), p>>] # NoRow

\* Another accepted request gave p the field f.
GivenByOther(r, p, f) ==
    \E q \in Requests \ {r} :
        pc[q] = "done" /\ Case(q) = Case(r) /\ p \in Listed(q) /\ f \in DOMAIN req[q].given

\* The field f that r gives p is about to be written, or is on file, or another
\* accepted request gave it.
FieldKept(r, p, f) ==
    \/ f \in DOMAIN wrote[r][p]
    \/ punished[<<Case(r), p>>] # NoRow /\ punished[<<Case(r), p>>][f] = req[r].given[f]
    \/ GivenByOther(r, p, f)

\* Where r is in its list and what it holds.
PlaceOK(r) ==
    /\ at[r] \in 1 .. Len(req[r].persons)
    /\ pc[r] = "new" => at[r] = 1
    /\ pc[r] \in Busy \cup {"done"} => req[r].trial \in Trials
    /\ pc[r] \notin Busy =>
          enlisted[r] = {} /\ inserted[r] = {} /\ \A p \in Persons : wrote[r][p] = NoFields
    /\ pc[r] \in {"find", "sentence"} => Person(r) \in criminals \cup enlisted[r]
    /\ pc[r] \in Busy \cup {"done"} => Served(r) \subseteq criminals \cup enlisted[r]
    /\ enlisted[r] \subseteq Served(r) \cup IF pc[r] \in {"find", "sentence"} THEN {Person(r)} ELSE {}
    /\ pc[r] = "enlist" => Person(r) \notin Served(r)
    /\ \A p \in Persons : Holds(r, p) => p \in Served(r)

\* What r has written, and what it is about to write.
RowsOK(r) ==
    /\ \A p \in Persons : \A f \in DOMAIN wrote[r][p] :
          f \in DOMAIN req[r].given /\ wrote[r][p][f] = req[r].given[f]
    /\ \A p \in inserted[r] :
          punished[<<Case(r), p>>] = NoRow /\ DOMAIN req[r].given \subseteq DOMAIN wrote[r][p]
    /\ pc[r] \in Busy \cup {"done"} => \A p \in Served(r) :
          OnFile(r, p) /\ \A f \in DOMAIN req[r].given : FieldKept(r, p, f)
    /\ pc[r] = "sentence" /\ found[r] # NoRow =>
          /\ OnFile(r, Person(r))
          /\ \A f \in DOMAIN req[r].given :
                found[r][f] = req[r].given[f] => FieldKept(r, Person(r), f)

RowLocks ==
    \A r, q \in Requests : \A p \in Persons :
        r # q /\ Holds(r, p) /\ Holds(q, p) => Case(r) # Case(q)

\* A row that has changed stems from an accepted request.
Stems ==
    \A c \in Cases, p \in Persons : punished[<<c, p>>] # SeedPunished[<<c, p>>] =>
        \E r \in Requests : pc[r] = "done" /\ Case(r) = c /\ p \in Listed(r)

IInv ==
    /\ TypeOK /\ RowLocks /\ Stems
    /\ \A r \in Requests : PlaceOK(r) /\ RowsOK(r)
    /\ OrderedListsNeverDeadlock
-----------------------------------------------------------------------------
LEMMA FieldsShape ==
    ASSUME NEW w \in Fields
    PROVE  /\ DOMAIN w \subseteq Columns
           /\ w = [f \in DOMAIN w |-> w[f]]
           /\ \A f \in DOMAIN w : w[f] \in Values \cup {Nil}
<1> QED
  BY DEF Fields

LEMMA FieldsFromColumns ==
    ASSUME NEW w, w = [f \in DOMAIN w |-> w[f]], DOMAIN w \subseteq Columns,
           \A f \in DOMAIN w : w[f] \in Values \cup {Nil}
    PROVE  w \in Fields
<1>1. w \in [DOMAIN w -> Values \cup {Nil}]
  OBVIOUS
<1> QED
  BY <1>1 DEF Fields

LEMMA NoFieldsShape == NoFields \in Fields /\ DOMAIN NoFields = {}
<1>1. DOMAIN NoFields = {} /\ NoFields = [f \in DOMAIN NoFields |-> NoFields[f]]
  BY DEF NoFields
<1> QED
  BY <1>1, FieldsFromColumns

LEMMA EmptyFields ==
    ASSUME NEW w \in Fields, DOMAIN w = {}
    PROVE  w = NoFields
<1> QED
  BY FieldsShape DEF NoFields

\* A statement replaces the columns it carries and no others.
LEMMA SetColumns ==
    ASSUME NEW row \in Row, NEW w \in Fields
    PROVE  /\ Set(row, w) \in Row /\ Set(row, w) # NoRow
           /\ \A f \in Columns : Set(row, w)[f] = IF f \in DOMAIN w THEN w[f] ELSE row[f]
           /\ w = NoFields => Set(row, w) = row
<1>1. /\ Set(row, w) \in Row
      /\ \A f \in Columns : Set(row, w)[f] = IF f \in DOMAIN w THEN w[f] ELSE row[f]
  BY FieldsShape DEF Set, Row
<1>2. w = NoFields => Set(row, w) = row
  BY NoFieldsShape DEF Set, Row
<1> QED
  BY <1>1, <1>2, NoRowAssumption

LEMMA NullRowType == NullRow \in Row
<1> QED
  BY DEF NullRow, Row

LEMMA RequestType ==
    ASSUME NEW q \in Request
    PROVE  /\ q.trial \in TrialIds
           /\ q.persons \in Seq(PersonIds) /\ q.persons # << >> /\ Len(q.persons) \in Nat \ {0}
           /\ q.given \in Fields
<1>1. q.persons \in PersonLists /\ q.given \in Sentences /\ q.trial \in TrialIds
  BY DEF Request
<1>2. q.persons \in Seq(PersonIds) /\ q.persons # << >>
  BY <1>1, ListsAssumption
<1>3. Len(q.persons) \in Nat \ {0}
  BY <1>2
<1> QED
  BY <1>1, <1>2, <1>3, SentencesAssumption

LEMMA Facts ==
    ASSUME IInv, NEW r \in Requests
    PROVE  /\ req[r] \in Request /\ req[r].given \in Fields
           /\ req[r].persons \in Seq(PersonIds) /\ Len(req[r].persons) \in Nat \ {0}
           /\ at[r] \in Nat \ {0} /\ found[r] \in Row \cup {NoRow}
           /\ enlisted[r] \subseteq Persons /\ inserted[r] \subseteq Persons
           /\ \A p \in Persons : wrote[r][p] \in Fields
           /\ criminals \subseteq Persons
           /\ r \in DOMAIN pc /\ r \in DOMAIN at /\ r \in DOMAIN found /\ r \in DOMAIN enlisted
           /\ r \in DOMAIN inserted /\ r \in DOMAIN wrote
           /\ PlaceOK(r) /\ RowsOK(r)
           /\ pc[r] \in Busy \cup {"done"} => Case(r) \in Cases
<1>1. req[r] \in Request
  BY DEF IInv, TypeOK
<1>2. pc[r] \in Busy \cup {"done"} => Case(r) \in Cases
  BY CaseOfAssumption DEF IInv, PlaceOK, Case
<1> QED
  BY <1>1, <1>2, RequestType DEF IInv, TypeOK

\* The row of p as r sees it.
LEMMA VisibleRow ==
    ASSUME IInv, NEW r \in Requests, NEW p \in Persons, Case(r) \in Cases
    PROVE  /\ Visible(r, p) \in Row \cup {NoRow}
           /\ Visible(r, p) # NoRow <=> OnFile(r, p)
           /\ ~ Holds(r, p) => Visible(r, p) = punished[<<Case(r), p>>]
           /\ OnFile(r, p) => \A f \in DOMAIN req[r].given :
                /\ FieldKept(r, p, f) /\ ~ GivenByOther(r, p, f) =>
                     Visible(r, p)[f] = req[r].given[f]
                /\ Visible(r, p)[f] = req[r].given[f] => FieldKept(r, p, f)
<1>1. punished[<<Case(r), p>>] \in Row \cup {NoRow} /\ wrote[r][p] \in Fields /\ DOMAIN req[r].given \subseteq Columns
  BY Facts, FieldsShape DEF IInv, TypeOK
<1>2. RowsOK(r)
  BY Facts
<1>3. CASE p \in inserted[r]
  <2>1. Visible(r, p) = Set(NullRow, wrote[r][p])
    BY <1>3 DEF Visible
  <2>2. \A f \in DOMAIN req[r].given : f \in DOMAIN wrote[r][p] /\ wrote[r][p][f] = req[r].given[f]
    BY <1>2, <1>3 DEF RowsOK
  <2> QED
    BY <1>1, <1>3, <2>1, <2>2, NullRowType, SetColumns DEF OnFile, Holds, FieldKept
<1>4. CASE p \notin inserted[r] /\ punished[<<Case(r), p>>] = NoRow
  BY <1>4 DEF Visible, OnFile
<1>5. CASE p \notin inserted[r] /\ punished[<<Case(r), p>>] # NoRow
  <2>1. Visible(r, p) = Set(punished[<<Case(r), p>>], wrote[r][p]) /\ punished[<<Case(r), p>>] \in Row
    BY <1>1, <1>5 DEF Visible
  <2>2. \A f \in DOMAIN wrote[r][p] : wrote[r][p][f] = req[r].given[f]
    BY <1>2 DEF RowsOK
  <2> QED
    BY <1>1, <1>5, <2>1, <2>2, SetColumns DEF OnFile, Holds, FieldKept
<1> QED
  BY <1>3, <1>4, <1>5
-----------------------------------------------------------------------------
LEMMA InitIInv == Init => IInv
<1> SUFFICES ASSUME Init PROVE IInv
  OBVIOUS
<1> USE DEF Init
<1>1. TypeOK
  BY NoFieldsShape, SeedAssumption, SeedPunishedAssumption DEF TypeOK, Stages
<1>2. \A r \in Requests : req[r] \in Request /\ Len(req[r].persons) \in Nat \ {0}
  BY <1>1, RequestType DEF TypeOK
<1>3. ASSUME NEW r \in Requests, NEW p \in Persons PROVE ~ Holds(r, p)
  BY DEF Holds
<1>4. ASSUME NEW r \in Requests PROVE PlaceOK(r) /\ RowsOK(r)
  <2>1. PlaceOK(r)
    BY <1>2, <1>3 DEF PlaceOK, Busy
  <2>2. RowsOK(r)
    BY NoFieldsShape DEF RowsOK, Busy
  <2> QED
    BY <2>1, <2>2
<1>5. RowLocks
  BY <1>3 DEF RowLocks
<1>6. Stems
  BY DEF Stems
<1>7. OrderedListsNeverDeadlock
  BY DEF OrderedListsNeverDeadlock
<1> QED
  BY <1>1, <1>4, <1>5, <1>6, <1>7 DEF IInv

\* What everybody but r has is left alone.
Others(r) ==
    \A q \in Requests \ {r} :
        /\ pc'[q] = pc[q] /\ at'[q] = at[q] /\ found'[q] = found[q]
        /\ enlisted'[q] = enlisted[q] /\ inserted'[q] = inserted[q] /\ wrote'[q] = wrote[q]

LEMMA PlaceKept ==
    ASSUME NEW r, NEW q \in Requests \ {r}, Others(r), req' = req,
           criminals \subseteq criminals', PlaceOK(q)
    PROVE  PlaceOK(q)'
<1>1. /\ Served(q)' = Served(q) /\ Person(q)' = Person(q)
      /\ Listed(q)' = Listed(q)
  BY DEF Others, Served, Person, Listed, ListedBefore, PersonAt
<1>2. ASSUME NEW p \in Persons PROVE Holds(q, p)' <=> Holds(q, p)
  BY DEF Others, Holds
<1> QED
  BY <1>1, <1>2 DEF PlaceOK, Others

\* A step of r that neither commits nor answers with success.
LEMMA QuietStep ==
    ASSUME IInv, NEW r \in Requests, UNCHANGED <<criminals, punished, req>>, Others(r),
           pc[r] # "done", pc'[r] # "done", pc'[r] = "server_error" => ~ OrdersAgree,
           TypeOK', RowLocks', PlaceOK(r)', RowsOK(r)'
    PROVE  IInv'
<1> USE DEF IInv
<1>1. \A q \in Requests : pc'[q] = "done" <=> pc[q] = "done"
  BY DEF Others
<1>2. ASSUME NEW q \in Requests \ {r} PROVE RowsOK(q)'
  <2>1. /\ Served(q)' = Served(q) /\ Person(q)' = Person(q) /\ Case(q)' = Case(q)
        /\ pc'[q] = pc[q] /\ inserted'[q] = inserted[q] /\ wrote'[q] = wrote[q] /\ found'[q] = found[q]
    BY DEF Others, Served, Person, Listed, ListedBefore, PersonAt, Case
  <2>2. \A p : OnFile(q, p)' <=> OnFile(q, p)
    BY <2>1 DEF OnFile
  <2>3. \A p, f : FieldKept(q, p, f)' <=> FieldKept(q, p, f)
    BY <1>1, <2>1 DEF FieldKept, GivenByOther, Case, Listed, PersonAt
  <2>4. RowsOK(q)
    OBVIOUS
  <2> QED
    BY <2>1, <2>2, <2>3, <2>4 DEF RowsOK
<1>3. Stems'
  BY <1>1 DEF Stems, Case, Listed, PersonAt
<1>4. OrderedListsNeverDeadlock'
  BY DEF OrderedListsNeverDeadlock, OrdersAgree, Others
<1> QED
  BY <1>2, <1>3, <1>4, PlaceKept

\* The transaction of r ends without a commit.
LEMMA FailStep ==
    ASSUME IInv, NEW r \in Requests, NEW o \in {"not_found", "conflict", "server_error", "lost"},
           Fail(r, o), pc[r] # "done", o = "server_error" => ~ OrdersAgree
    PROVE  IInv'
<1> USE DEF IInv, Fail, Goto, Discard
<1>1. /\ Others(r) /\ pc'[r] = o /\ at'[r] = at[r] /\ o \notin Busy \cup {"done", "new"}
      /\ enlisted'[r] = {} /\ inserted'[r] = {} /\ wrote'[r] = [p \in Persons |-> NoFields]
  BY Facts DEF Others, Busy
<1>2. TypeOK'
  BY NoFieldsShape DEF TypeOK, Stages
<1>3. \A q \in Requests : \A p \in Persons : Holds(q, p)' => Holds(q, p)
  BY <1>1 DEF Holds, Others
<1>4. RowLocks'
  BY <1>3 DEF RowLocks, Case
<1>5. PlaceOK(r)'
  <2>1. \A p \in Persons : ~ Holds(r, p)'
    BY <1>1 DEF Holds
  <2>2. at[r] \in 1 .. Len(req[r].persons)
    BY Facts DEF PlaceOK
  <2> QED
    BY <1>1, <2>1, <2>2 DEF PlaceOK, Busy
<1>6. RowsOK(r)'
  BY <1>1, NoFieldsShape DEF RowsOK, Busy
<1> QED
  BY <1>1, <1>2, <1>4, <1>5, <1>6, QuietStep

\* A step that changes no more than how far r has got with the person it is at.
LEMMA MoveStep ==
    ASSUME IInv, NEW r \in Requests, NEW stage \in {"criminal", "find", "enlist"},
           OnlyMoves(r, stage), pc[r] \in {"new", "criminal"},
           req[r].trial \in Trials,
           stage = "find" => Person(r) \in criminals \cup enlisted[r],
           stage = "enlist" => Person(r) \notin criminals \cup enlisted[r] /\ pc[r] = "criminal"
    PROVE  IInv'
<1> USE DEF IInv, OnlyMoves, Goto
<1>1. Others(r) /\ pc'[r] = stage
  BY Facts DEF Others
<1>2. TypeOK'
  BY DEF TypeOK, Stages
<1>3. \A q \in Requests : \A p \in Persons : Holds(q, p)' <=> Holds(q, p)
  BY DEF Holds
<1>4. RowLocks'
  BY <1>3 DEF RowLocks, Case
<1>5. Served(r)' = Served(r) /\ Person(r)' = Person(r)
  BY <1>1 DEF Served, Person, ListedBefore, PersonAt
<1>6. pc[r] = "new" => Served(r) = {} /\ enlisted[r] = {}
  BY Facts DEF PlaceOK, Busy, Served, ListedBefore
<1>7. Served(r) \subseteq criminals \cup enlisted[r]
  BY <1>6, Facts DEF PlaceOK, Busy
<1>8. PlaceOK(r)'
  BY <1>1, <1>3, <1>5, <1>6, <1>7, Facts DEF PlaceOK, Busy
<1>9. RowsOK(r)'
  <2>1. \A p : OnFile(r, p)' <=> OnFile(r, p)
    BY DEF OnFile, Case
  <2>2. \A q \in Requests : pc'[q] = "done" <=> pc[q] = "done"
    BY <1>1 DEF Others
  <2>3. \A p, f : FieldKept(r, p, f)' <=> FieldKept(r, p, f)
    BY <2>2 DEF FieldKept, GivenByOther, Case, Listed, PersonAt
  <2> QED
    BY <1>1, <1>5, <1>6, <2>1, <2>3, Facts DEF RowsOK, Busy, Case
<1> QED
  BY <1>1, <1>2, <1>4, <1>8, <1>9, QuietStep

LEMMA FetchTrialStep ==
    ASSUME IInv, NEW r \in Requests, FetchTrial(r)
    PROVE  IInv'
<1> QED
  BY FailStep, MoveStep DEF FetchTrial

LEMMA GetCriminalStep ==
    ASSUME IInv, NEW r \in Requests, GetCriminal(r)
    PROVE  IInv'
<1>1. req[r].trial \in Trials /\ pc[r] = "criminal"
  BY Facts DEF GetCriminal, PlaceOK, Busy
<1>2. CASE Person(r) \in criminals \cup enlisted[r]
  BY <1>1, <1>2, MoveStep DEF GetCriminal
<1>3. CASE Person(r) \notin criminals \cup enlisted[r]
  BY <1>1, <1>3, MoveStep DEF GetCriminal
<1> QED
  BY <1>2, <1>3

LEMMA EnlistStep ==
    ASSUME IInv, NEW r \in Requests, Enlist(r)
    PROVE  IInv'
<1> USE DEF IInv, Goto
<1>1. pc[r] = "enlist" /\ Person(r) \notin Served(r) /\ PlaceOK(r)
  BY Facts DEF Enlist, PlaceOK
<1>2. CASE Person(r) \notin Persons \ criminals
  BY <1>1, <1>2, FailStep DEF Enlist
<1>3. CASE Person(r) \in Persons \ criminals
  <2>1. /\ enlisted' = [enlisted EXCEPT ![r] = @ \cup {Person(r)}]
        /\ pc' = [pc EXCEPT ![r] = "find"]
        /\ UNCHANGED <<criminals, punished, req, at, found, inserted, wrote>>
    BY <1>3 DEF Enlist
  <2>2. /\ Others(r) /\ pc'[r] = "find" /\ enlisted'[r] = enlisted[r] \cup {Person(r)}
        /\ inserted'[r] = inserted[r] /\ wrote'[r] = wrote[r]
    BY <2>1, Facts DEF Others
  <2>3. TypeOK'
    BY <2>1, <1>3 DEF TypeOK, Stages
  <2>4. \A q \in Requests : \A p \in Persons : Holds(q, p)' <=> Holds(q, p)
    BY <2>1 DEF Holds
  <2>5. RowLocks'
    BY <2>1, <2>4 DEF RowLocks, Case
  <2>6. Served(r)' = Served(r) /\ Person(r)' = Person(r)
    BY <1>1, <2>1, <2>2 DEF Served, Person, ListedBefore, PersonAt
  <2>7. PlaceOK(r)'
    BY <1>1, <2>1, <2>2, <2>4, <2>6 DEF PlaceOK, Busy
  <2>8. RowsOK(r)'
    <3>1. \A p : OnFile(r, p)' <=> OnFile(r, p)
      BY <2>1 DEF OnFile, Case
    <3>2. \A q \in Requests : pc'[q] = "done" <=> pc[q] = "done"
      BY <1>1, <2>1, <2>2 DEF Others
    <3>3. \A p, f : FieldKept(r, p, f)' <=> FieldKept(r, p, f)
      BY <2>1, <3>2 DEF FieldKept, GivenByOther, Case, Listed, PersonAt
    <3> QED
      BY <1>1, <2>1, <2>2, <2>6, <3>1, <3>3, Facts DEF RowsOK, Busy, Case
  <2> QED
    BY <1>1, <2>1, <2>2, <2>3, <2>5, <2>7, <2>8, QuietStep
<1> QED
  BY <1>2, <1>3

LEMMA FindPunishmentStep ==
    ASSUME IInv, NEW r \in Requests, FindPunishment(r)
    PROVE  IInv'
<1> USE DEF IInv, Goto
<1> DEFINE p == Person(r)
           row == Visible(r, p)
<1>1. /\ pc[r] = "find" /\ PlaceOK(r) /\ RowsOK(r) /\ Case(r) \in Cases
      /\ found' = [found EXCEPT ![r] = IF StillLoaded(r) THEN Set(row, req[r].given) ELSE row]
      /\ pc' = [pc EXCEPT ![r] = "sentence"]
      /\ UNCHANGED <<criminals, punished, req, at, enlisted, inserted, wrote>>
  BY Facts DEF FindPunishment, Busy
<1>2. /\ Others(r) /\ pc'[r] = "sentence" /\ enlisted'[r] = enlisted[r]
      /\ inserted'[r] = inserted[r] /\ wrote'[r] = wrote[r] /\ at'[r] = at[r]
      /\ found'[r] = IF StillLoaded(r) THEN Set(row, req[r].given) ELSE row
  BY <1>1, Facts DEF Others
<1>3. p \in Persons
  BY <1>1, Facts DEF PlaceOK
<1>4. StillLoaded(r) => p \in Served(r)
  <2> SUFFICES ASSUME StillLoaded(r) PROVE p \in Served(r)
    OBVIOUS
  <2>1. at[r] - 1 \in 1 .. at[r] - 1 /\ PersonAt(r, at[r] - 1) = p
    BY Facts DEF StillLoaded
  <2> QED
    BY <1>1, <2>1 DEF Served, ListedBefore
<1>5. row \in Row \cup {NoRow} /\ (row # NoRow <=> OnFile(r, p))
  BY <1>1, <1>3, VisibleRow
<1>6. StillLoaded(r) => OnFile(r, p) /\ \A f \in DOMAIN req[r].given : FieldKept(r, p, f)
  BY <1>1, <1>4 DEF RowsOK, Busy
<1>7. found'[r] \in Row \cup {NoRow}
  BY <1>2, <1>5, <1>6, Facts, SetColumns
<1>8. TypeOK'
  BY <1>1, <1>7 DEF TypeOK, Stages
<1>9. \A q \in Requests : \A k \in Persons : Holds(q, k)' <=> Holds(q, k)
  BY <1>1 DEF Holds
<1>10. RowLocks'
  BY <1>1, <1>9 DEF RowLocks, Case
<1>11. Served(r)' = Served(r) /\ Person(r)' = p
  BY <1>1, <1>2 DEF Served, Person, ListedBefore, PersonAt
<1>12. PlaceOK(r)'
  BY <1>1, <1>2, <1>9, <1>11 DEF PlaceOK, Busy
<1>13. RowsOK(r)'
  <2>1. \A k : OnFile(r, k)' <=> OnFile(r, k)
    BY <1>1 DEF OnFile, Case
  <2>2. \A q \in Requests : pc'[q] = "done" <=> pc[q] = "done"
    BY <1>1, <1>2 DEF Others
  <2>3. \A k, f : FieldKept(r, k, f)' <=> FieldKept(r, k, f)
    BY <1>1, <2>2 DEF FieldKept, GivenByOther, Case, Listed, PersonAt
  <2>4. found'[r] # NoRow => OnFile(r, p)
    BY <1>2, <1>5, <1>6
  <2>5. ASSUME found'[r] # NoRow, NEW f \in DOMAIN req[r].given, found'[r][f] = req[r].given[f]
        PROVE  FieldKept(r, p, f)
    BY <1>1, <1>2, <1>3, <1>6, <2>4, <2>5, VisibleRow
  <2> QED
    BY <1>1, <1>2, <1>11, <2>1, <2>3, <2>4, <2>5 DEF RowsOK, Busy, Case
<1> QED
  BY <1>1, <1>2, <1>8, <1>10, <1>12, <1>13, QuietStep

\* What the flush sends: given fields, and those that the row lacks.
LEMMA SentFields ==
    ASSUME NEW r, req[r].given \in Fields, found[r] \in Row \cup {NoRow}
    PROVE  /\ DOMAIN Sent(r) \subseteq DOMAIN req[r].given
           /\ \A f \in DOMAIN Sent(r) : Sent(r)[f] = req[r].given[f]
           /\ \A f \in DOMAIN req[r].given :
                f \in DOMAIN Sent(r) \/ (found[r] # NoRow /\ found[r][f] = req[r].given[f])
           /\ Sent(r) \in Fields
           /\ DOMAIN Sent(r) = {} => Sent(r) = NoFields
<1> DEFINE given == req[r].given
           cols  == IF found[r] = NoRow THEN DOMAIN given
                    ELSE {f \in DOMAIN given : given[f] # found[r][f]}
<1>1. Sent(r) = [f \in cols |-> given[f]]
  BY DEF Sent
<1>2. cols \subseteq DOMAIN given
  OBVIOUS
<1>3. DOMAIN Sent(r) = cols /\ \A f \in cols : Sent(r)[f] = given[f]
  BY <1>1
<1> HIDE DEF cols
<1>4. Sent(r) \in Fields
  BY <1>1, <1>2, <1>3, FieldsShape, FieldsFromColumns
<1>5. DOMAIN Sent(r) = {} => Sent(r) = NoFields
  BY <1>4, EmptyFields
<1>6. ASSUME NEW f \in DOMAIN given PROVE f \in cols \/ (found[r] # NoRow /\ found[r][f] = given[f])
  BY DEF cols
<1>7. DOMAIN Sent(r) \subseteq DOMAIN given /\ \A f \in DOMAIN Sent(r) : Sent(r)[f] = given[f]
  BY <1>2, <1>3
<1>8. \A f \in DOMAIN given : f \in DOMAIN Sent(r) \/ (found[r] # NoRow /\ found[r][f] = given[f])
  BY <1>3, <1>6
<1> QED
  BY <1>4, <1>5, <1>7, <1>8

LEMMA SentenceStep ==
    ASSUME IInv, NEW r \in Requests, Sentence(r)
    PROVE  IInv'
<1> USE DEF IInv, Goto
<1> SUFFICES ASSUME NEW p, p = Person(r) PROVE IInv'
  OBVIOUS
<1> DEFINE given == req[r].given
           before == wrote[r][p]
           after == [f \in DOMAIN before \cup DOMAIN Sent(r) |->
                       IF f \in DOMAIN Sent(r) THEN Sent(r)[f] ELSE before[f]]
<1>1. pc[r] = "sentence" /\ ~ Blocked(r) /\ PlaceOK(r) /\ RowsOK(r) /\ Case(r) \in Cases
  BY Facts DEF Sentence, Busy
<1>2. CASE found[r] = NoRow /\ punished[<<Case(r), p>>] # NoRow
  BY <1>1, <1>2, FailStep DEF Sentence
<1>3. CASE ~ (found[r] = NoRow /\ punished[<<Case(r), p>>] # NoRow)
  <2>1. /\ inserted' = IF found[r] = NoRow
                       THEN [inserted EXCEPT ![r] = @ \cup {p}] ELSE inserted
        /\ wrote' = [wrote EXCEPT ![r][p] = after]
        /\ IF at[r] < Len(req[r].persons)
           THEN at' = [at EXCEPT ![r] = @ + 1] /\ pc' = [pc EXCEPT ![r] = "criminal"]
           ELSE UNCHANGED at /\ pc' = [pc EXCEPT ![r] = "commit"]
        /\ UNCHANGED <<criminals, punished, req, found, enlisted>>
    BY <1>3 DEF Sentence
  <2>2. p \in Persons /\ p \in criminals \cup enlisted[r]
    BY <1>1, Facts DEF PlaceOK
  <2>3. before \in Fields
    BY <2>2, Facts
  <2>4. /\ DOMAIN Sent(r) \subseteq DOMAIN given
        /\ \A f \in DOMAIN Sent(r) : Sent(r)[f] = given[f]
        /\ \A f \in DOMAIN given : f \in DOMAIN Sent(r) \/ (found[r] # NoRow /\ found[r][f] = given[f])
        /\ Sent(r) \in Fields
        /\ DOMAIN Sent(r) = {} => Sent(r) = NoFields
    BY Facts, SentFields
  <2>5. DOMAIN after = DOMAIN before \cup DOMAIN Sent(r)
    OBVIOUS
  <2>6. \A f \in DOMAIN after : after[f] = IF f \in DOMAIN Sent(r) THEN Sent(r)[f] ELSE before[f]
    OBVIOUS
  <2>7. after \in Fields
    <3>1. DOMAIN after \subseteq Columns /\ \A f \in DOMAIN after : after[f] \in Values \cup {Nil}
      BY <2>3, <2>4, <2>5, <2>6, FieldsShape
    <3>2. after = [f \in DOMAIN after |-> after[f]]
      OBVIOUS
    <3> HIDE DEF after
    <3> QED
      BY <3>1, <3>2, FieldsFromColumns
  <2> HIDE DEF after
  <2>8. /\ inserted'[r] = inserted[r] \cup IF found[r] = NoRow THEN {p} ELSE {}
        /\ wrote'[r][p] = after /\ \A k \in Persons \ {p} : wrote'[r][k] = wrote[r][k]
        /\ Others(r) /\ pc'[r] \in {"criminal", "commit"} /\ enlisted'[r] = enlisted[r]
    <3>1. wrote'[r] = [wrote[r] EXCEPT ![p] = after] /\ DOMAIN wrote[r] = Persons
      BY <2>1, Facts DEF TypeOK
    <3>2. wrote'[r][p] = after /\ \A k \in Persons \ {p} : wrote'[r][k] = wrote[r][k]
      BY <2>2, <3>1
    <3>3. inserted'[r] = inserted[r] \cup IF found[r] = NoRow THEN {p} ELSE {}
      BY <2>1, Facts
    <3>4. Others(r) /\ pc'[r] \in {"criminal", "commit"} /\ enlisted'[r] = enlisted[r]
      BY <2>1, Facts DEF Others
    <3> QED
      BY <3>2, <3>3, <3>4
  <2>9. TypeOK'
    <3>1. wrote' \in [Requests -> [Persons -> Fields]]
      BY <2>1, <2>2, <2>7 DEF TypeOK
    <3>2. inserted' \in [Requests -> SUBSET Persons]
      BY <2>1, <2>2 DEF TypeOK
    <3>3. at' \in [Requests -> Nat \ {0}]
      <4>1. at[r] + 1 \in Nat \ {0}
        BY Facts
      <4> QED
        BY <2>1, <4>1 DEF TypeOK
    <3>4. pc' \in [Requests -> Stages]
      BY <2>1 DEF TypeOK, Stages
    <3> QED
      BY <2>1, <3>1, <3>2, <3>3, <3>4 DEF TypeOK
  <2>10. ASSUME NEW k \in Persons PROVE Holds(r, k)' => Holds(r, k) \/ k = p
    BY <2>8 DEF Holds
  <2>11. ASSUME NEW q \in Requests \ {r}, NEW k \in Persons PROVE Holds(q, k)' <=> Holds(q, k)
    BY <2>8 DEF Holds, Others
  <2>12. ASSUME Holds(r, p)', ~ Holds(r, p) PROVE found[r] = NoRow \/ Sent(r) # NoFields
    <3> SUFFICES ASSUME found[r] # NoRow, Sent(r) = NoFields PROVE FALSE
      OBVIOUS
    <3>1. before = NoFields /\ inserted'[r] = inserted[r] /\ p \notin inserted[r]
      BY <2>8, <2>12 DEF Holds
    <3>2. DOMAIN after = {}
      BY <2>5, <3>1, NoFieldsShape
    <3>3. after = NoFields
      BY <2>7, <3>2, EmptyFields
    <3> QED
      BY <2>8, <2>12, <3>1, <3>3 DEF Holds
  <2>13. ASSUME NEW q \in Requests \ {r}, Holds(r, p)', ~ Holds(r, p), Holds(q, p)
         PROVE  Case(q) # Case(r)
    <3>1. ~ HoldsRow(q, r, p)
      BY <1>1, <2>12, <2>13 DEF Blocked, WaitsFor
    <3>2. pc[q] \in Busy
      BY <2>2, <2>13, Facts DEF PlaceOK, Holds
    <3> QED
      BY <2>13, <3>1, <3>2 DEF HoldsRow, Holds, Busy
  <2>14. RowLocks'
    <3> SUFFICES ASSUME NEW q \in Requests, NEW s \in Requests, NEW k \in Persons,
                        q # s, Holds(q, k)', Holds(s, k)'
                 PROVE  Case(q) # Case(s)
      BY <2>1 DEF RowLocks, Case
    <3> QED
      BY <2>2, <2>10, <2>11, <2>13 DEF RowLocks
  <2>15. Served(r)' = Served(r) \cup {p}
    <3>1. at[r] \in 1 .. Len(req[r].persons) /\ Len(req[r].persons) \in Nat
      BY <1>1, Facts DEF PlaceOK
    <3>2. Served(r) = {PersonAt(r, i) : i \in 1 .. at[r] - 1} /\ p = PersonAt(r, at[r])
      BY <1>1 DEF Served, ListedBefore, Person
    <3>3. Served(r)' = {PersonAt(r, i) : i \in 1 .. at[r]}
      <4>1. CASE at[r] < Len(req[r].persons)
        <5>1. pc'[r] = "criminal" /\ at'[r] = at[r] + 1
          BY <2>1, <4>1, Facts
        <5>2. Served(r)' = {PersonAt(r, i) : i \in 1 .. at'[r] - 1}
          BY <2>1, <5>1 DEF Served, ListedBefore, PersonAt
        <5> QED
          BY <3>1, <5>1, <5>2
      <4>2. CASE ~ at[r] < Len(req[r].persons)
        <5>1. pc'[r] = "commit" /\ at[r] = Len(req[r].persons)
          BY <2>1, <3>1, <4>2, Facts
        <5> QED
          BY <2>1, <5>1 DEF Served, Listed, PersonAt
      <4> QED
        BY <4>1, <4>2
    <3>4. 1 .. at[r] = (1 .. at[r] - 1) \cup {at[r]}
      BY <3>1
    <3> QED
      BY <3>2, <3>3, <3>4
  <2>16. PlaceOK(r)'
    <3>1. at'[r] \in 1 .. Len(req[r].persons)
      BY <1>1, <2>1, Facts DEF PlaceOK
    <3>2. Served(r)' \subseteq criminals \cup enlisted[r] /\ enlisted[r] \subseteq Served(r)'
      BY <1>1, <2>2, <2>15 DEF PlaceOK, Busy
    <3>3. \A k \in Persons : Holds(r, k)' => k \in Served(r)'
      BY <1>1, <2>10, <2>15 DEF PlaceOK
    <3>4. req[r].trial \in Trials
      BY <1>1 DEF PlaceOK, Busy
    <3> QED
      BY <2>1, <2>8, <3>1, <3>2, <3>3, <3>4 DEF PlaceOK, Busy
  <2>17. /\ \A k : OnFile(r, k) => OnFile(r, k)'
         /\ \A k \in Persons : \A f : FieldKept(r, k, f) => FieldKept(r, k, f)'
    <3>1. \A k : OnFile(r, k) => OnFile(r, k)'
      BY <2>1, <2>8 DEF OnFile, Case
    <3>2. \A q \in Requests : pc[q] = "done" => pc'[q] = "done"
      BY <1>1, <2>8 DEF Others
    <3>3. \A k \in Persons : DOMAIN wrote[r][k] \subseteq DOMAIN wrote'[r][k]
      BY <2>5, <2>8
    <3> QED
      BY <2>1, <3>1, <3>2, <3>3 DEF FieldKept, GivenByOther, Case, Listed, PersonAt
  <2>18. RowsOK(r)'
    <3>1. ASSUME NEW k \in Persons, NEW f \in DOMAIN wrote'[r][k]
          PROVE  f \in DOMAIN given /\ wrote'[r][k][f] = given[f]
      BY <1>1, <2>2, <2>4, <2>5, <2>6, <2>8 DEF RowsOK
    <3>2. ASSUME NEW k \in inserted'[r]
          PROVE  punished[<<Case(r), k>>] = NoRow /\ DOMAIN given \subseteq DOMAIN wrote'[r][k]
      <4>1. CASE k \in inserted[r]
        BY <1>1, <2>5, <2>8, <4>1, Facts DEF RowsOK
      <4>2. CASE k \notin inserted[r]
        BY <1>3, <2>4, <2>5, <2>8, <3>2, <4>2
      <4> QED
        BY <4>1, <4>2
    <3>3. OnFile(r, p)' /\ \A f \in DOMAIN given : FieldKept(r, p, f)'
      <4>1. CASE found[r] = NoRow
        <5>1. p \in inserted'[r] /\ DOMAIN given \subseteq DOMAIN wrote'[r][p]
          BY <2>4, <2>5, <2>8, <4>1
        <5> QED
          BY <2>1, <5>1 DEF OnFile, FieldKept
      <4>2. CASE found[r] # NoRow
        <5>1. OnFile(r, p) /\ \A f \in DOMAIN given : found[r][f] = given[f] => FieldKept(r, p, f)
          BY <1>1, <4>2 DEF RowsOK
        <5>2. ASSUME NEW f \in DOMAIN given, f \in DOMAIN Sent(r) PROVE FieldKept(r, p, f)'
          <6>1. f \in DOMAIN wrote'[r][p]
            BY <2>5, <2>8, <5>2
          <6> QED
            BY <2>1, <6>1 DEF FieldKept
        <5> QED
          BY <2>2, <2>4, <2>17, <5>1, <5>2
      <4> QED
        BY <4>1, <4>2
    <3>4. ASSUME NEW k \in Served(r)
          PROVE  OnFile(r, k)' /\ \A f \in DOMAIN given : FieldKept(r, k, f)'
      <4>1. k \in Persons
        BY <1>1, Facts DEF PlaceOK, Busy
      <4> QED
        BY <1>1, <2>17, <4>1 DEF RowsOK, Busy
    <3>5. \A k \in Served(r)' : OnFile(r, k)' /\ \A f \in DOMAIN given : FieldKept(r, k, f)'
      BY <2>15, <3>3, <3>4
    <3> QED
      BY <2>1, <2>8, <3>1, <3>2, <3>5 DEF RowsOK, Case
  <2> QED
    BY <1>1, <2>1, <2>8, <2>9, <2>14, <2>16, <2>18, QuietStep
<1> QED
  BY <1>2, <1>3

LEMMA CrashStep ==
    ASSUME IInv, NEW r \in Requests, Crash(r)
    PROVE  IInv'
<1> QED
  BY FailStep DEF Crash

\* A commit changes a field of a row only if the request had written it.
LEMMA CommittedRow ==
    ASSUME IInv, NEW r \in Requests, NEW p \in Persons, Case(r) \in Cases,
           punished[<<Case(r), p>>] # NoRow, NEW f \in Columns
    PROVE  f \notin DOMAIN wrote[r][p] => Visible(r, p)[f] = punished[<<Case(r), p>>][f]
<1>1. punished[<<Case(r), p>>] \in Row /\ wrote[r][p] \in Fields
  BY Facts DEF IInv, TypeOK
<1>2. p \notin inserted[r]
  BY Facts DEF RowsOK
<1>3. Visible(r, p) = Set(punished[<<Case(r), p>>], wrote[r][p])
  BY <1>2 DEF Visible
<1> QED
  BY <1>1, <1>3, SetColumns

LEMMA CommitStep ==
    ASSUME IInv, NEW r \in Requests, Commit(r)
    PROVE  IInv'
<1> USE DEF IInv, Goto, Discard
<1>1. /\ pc[r] = "commit" /\ PlaceOK(r) /\ RowsOK(r) /\ Case(r) \in Cases
      /\ Served(r) = Listed(r) /\ Listed(r) \subseteq criminals \cup enlisted[r]
      /\ criminals \cup enlisted[r] \subseteq Persons
  BY Facts DEF Commit, Busy, Served, PlaceOK
<1>2. /\ criminals' = criminals \cup enlisted[r]
      /\ punished' = [k \in Cases \X Persons |->
                        IF k[1] = Case(r) THEN Visible(r, k[2]) ELSE punished[k]]
      /\ UNCHANGED <<req, at, found>>
  BY DEF Commit
<1>3. /\ Others(r) /\ pc'[r] = "done" /\ enlisted'[r] = {} /\ inserted'[r] = {}
      /\ wrote'[r] = [p \in Persons |-> NoFields]
  BY Facts DEF Commit, Others
<1>4. ASSUME NEW c \in Cases, NEW p \in Persons
      PROVE  punished'[<<c, p>>] = IF c = Case(r) THEN Visible(r, p) ELSE punished[<<c, p>>]
  BY <1>2
<1>5. TypeOK'
  <2>1. punished' \in [Cases \X Persons -> Row \cup {NoRow}]
    BY <1>1, <1>2, VisibleRow DEF TypeOK
  <2>2. /\ pc' \in [Requests -> Stages] /\ enlisted' \in [Requests -> SUBSET Persons]
        /\ inserted' \in [Requests -> SUBSET Persons] /\ wrote' \in [Requests -> [Persons -> Fields]]
    BY NoFieldsShape DEF Commit, TypeOK, Stages
  <2> QED
    BY <1>1, <1>2, <2>1, <2>2 DEF TypeOK
<1>6. \A p \in Persons : ~ Holds(r, p)'
  BY <1>3 DEF Holds
<1>7. ASSUME NEW q \in Requests \ {r}, NEW p \in Persons PROVE Holds(q, p)' <=> Holds(q, p)
  BY <1>3 DEF Holds, Others
<1>8. RowLocks'
  BY <1>2, <1>6, <1>7 DEF RowLocks, Case
<1>9. \A q \in Requests : pc[q] = "done" => pc'[q] = "done" /\ q # r
  BY <1>1, <1>3 DEF Others
<1>10. \A q \in Requests : Listed(q)' = Listed(q) /\ Case(q)' = Case(q) /\ Person(q)' = Person(q)
  BY <1>2 DEF Listed, Case, PersonAt, Person
<1>11. Stems'
  <2> SUFFICES ASSUME NEW c \in Cases, NEW p \in Persons, punished'[<<c, p>>] # SeedPunished[<<c, p>>]
               PROVE  \E q \in Requests : pc'[q] = "done" /\ Case(q) = c /\ p \in Listed(q)
    BY <1>10 DEF Stems
  <2>1. CASE c = Case(r) /\ Holds(r, p)
    BY <1>1, <1>3, <2>1 DEF PlaceOK
  <2>2. CASE ~ (c = Case(r) /\ Holds(r, p))
    <3>1. punished'[<<c, p>>] = punished[<<c, p>>]
      BY <1>1, <1>4, <2>2, VisibleRow
    <3> QED
      BY <1>9, <3>1 DEF Stems
  <2> QED
    BY <2>1, <2>2
<1>12. PlaceOK(r)'
  <2>1. Served(r)' = Listed(r)
    BY <1>2, <1>3, <1>10 DEF Served
  <2> QED
    BY <1>1, <1>2, <1>3, <1>6, <2>1 DEF PlaceOK, Busy
<1>13. ASSUME NEW q \in Requests, NEW p, NEW f
       PROVE  GivenByOther(q, p, f) => GivenByOther(q, p, f)'
  BY <1>2, <1>9, <1>10 DEF GivenByOther
<1>14. RowsOK(r)'
  <2>1. Served(r)' = Listed(r) /\ Listed(r) \subseteq Persons
    BY <1>1, <1>2, <1>3, <1>10 DEF Served
  <2>2. ASSUME NEW p \in Listed(r)
        PROVE  OnFile(r, p)' /\ \A f \in DOMAIN req[r].given : FieldKept(r, p, f)'
    <3>1. p \in Persons /\ OnFile(r, p) /\ \A f \in DOMAIN req[r].given : FieldKept(r, p, f)
      BY <1>1, <2>1 DEF RowsOK, Busy
    <3>2. punished'[<<Case(r), p>>] = Visible(r, p) /\ Visible(r, p) # NoRow
      BY <1>1, <1>4, <3>1, VisibleRow
    <3>3. OnFile(r, p)'
      BY <1>2, <1>10, <3>2 DEF OnFile
    <3>4. ASSUME NEW f \in DOMAIN req[r].given PROVE FieldKept(r, p, f)'
      <4>1. CASE GivenByOther(r, p, f)
        BY <1>13, <4>1 DEF FieldKept
      <4>2. CASE ~ GivenByOther(r, p, f)
        <5>1. Visible(r, p)[f] = req[r].given[f]
          BY <1>1, <3>1, <4>2, VisibleRow
        <5> QED
          BY <1>2, <1>10, <3>2, <5>1 DEF FieldKept
      <4> QED
        BY <4>1, <4>2
    <3> QED
      BY <3>3, <3>4
  <2> QED
    BY <1>2, <1>3, <2>1, <2>2, NoFieldsShape DEF RowsOK
<1>15. ASSUME NEW q \in Requests \ {r}, Case(q) \in Cases, NEW p \in Persons
       PROVE  /\ ~ Holds(r, p) \/ Case(q) # Case(r) =>
                   punished'[<<Case(q), p>>] = punished[<<Case(q), p>>]
              /\ OnFile(q, p) => OnFile(q, p)'
              /\ \A f \in DOMAIN req[q].given : FieldKept(q, p, f) => FieldKept(q, p, f)'
  <2>1. ~ Holds(r, p) \/ Case(q) # Case(r) => punished'[<<Case(q), p>>] = punished[<<Case(q), p>>]
    BY <1>1, <1>4, <1>15, VisibleRow
  <2>2. punished[<<Case(q), p>>] # NoRow => punished'[<<Case(q), p>>] # NoRow
    BY <1>1, <1>4, <1>15, VisibleRow DEF OnFile
  <2>3. OnFile(q, p) => OnFile(q, p)'
    BY <1>3, <1>10, <2>2 DEF OnFile, Others
  <2>4. ASSUME NEW f \in DOMAIN req[q].given, FieldKept(q, p, f) PROVE FieldKept(q, p, f)'
    <3>1. CASE f \in DOMAIN wrote[q][p]
      BY <1>3, <3>1 DEF FieldKept, Others
    <3>2. CASE GivenByOther(q, p, f)
      BY <1>13, <3>2 DEF FieldKept
    <3>3. CASE /\ punished[<<Case(q), p>>] # NoRow
               /\ punished[<<Case(q), p>>][f] = req[q].given[f]
      <4>1. CASE Case(q) = Case(r) /\ f \in DOMAIN wrote[r][p]
        <5>1. f \in DOMAIN req[r].given
          BY <1>1, <4>1 DEF RowsOK
        <5>2. p \in Listed(r)
          BY <1>1, <4>1, NoFieldsShape DEF PlaceOK, Holds
        <5>3. GivenByOther(q, p, f)'
          BY <1>2, <1>3, <1>10, <4>1, <5>1, <5>2 DEF GivenByOther
        <5> QED
          BY <5>3 DEF FieldKept
      <4>2. CASE ~ (Case(q) = Case(r) /\ f \in DOMAIN wrote[r][p])
        <5>1. f \in Columns
          BY Facts, FieldsShape
        <5>2. punished'[<<Case(q), p>>][f] = punished[<<Case(q), p>>][f]
          BY <1>1, <1>4, <1>15, <3>3, <4>2, <5>1, CommittedRow
        <5> QED
          BY <1>2, <1>10, <2>2, <3>3, <5>2 DEF FieldKept
      <4> QED
        BY <4>1, <4>2
    <3> QED
      BY <2>4, <3>1, <3>2, <3>3 DEF FieldKept
  <2> QED
    BY <2>1, <2>3, <2>4
<1>16. ASSUME NEW q \in Requests \ {r} PROVE RowsOK(q)'
  <2>1. RowsOK(q) /\ PlaceOK(q) /\ inserted[q] \subseteq Persons /\ criminals \cup enlisted[q] \subseteq Persons
    BY Facts
  <2>2. /\ Served(q)' = Served(q) /\ Person(q)' = Person(q) /\ Case(q)' = Case(q)
        /\ pc'[q] = pc[q] /\ inserted'[q] = inserted[q] /\ wrote'[q] = wrote[q] /\ found'[q] = found[q]
    BY <1>2, <1>3, <1>10 DEF Others, Served, ListedBefore, PersonAt
  <2>3. ASSUME NEW p \in inserted[q] PROVE punished'[<<Case(q), p>>] = NoRow
    <3>1. Case(q) \in Cases /\ Holds(q, p) /\ punished[<<Case(q), p>>] = NoRow
      BY <2>1, Facts DEF Holds, PlaceOK, RowsOK
    <3>2. ~ Holds(r, p) \/ Case(q) # Case(r)
      BY <2>1, <3>1 DEF RowLocks
    <3> QED
      BY <1>15, <2>1, <3>1, <3>2
  <2>4. ASSUME pc[q] \in Busy \cup {"done"}, NEW p \in Served(q)
        PROVE  OnFile(q, p)' /\ \A f \in DOMAIN req[q].given : FieldKept(q, p, f)'
    <3>1. Case(q) \in Cases /\ p \in Persons
      BY <2>1, <2>4, Facts DEF PlaceOK
    <3> QED
      BY <1>15, <2>1, <2>4, <3>1 DEF RowsOK
  <2>5. ASSUME pc[q] = "sentence", found[q] # NoRow, NEW p, p = Person(q)
        PROVE  /\ OnFile(q, p)'
               /\ \A f \in DOMAIN req[q].given : found[q][f] = req[q].given[f] => FieldKept(q, p, f)'
    <3>1. Case(q) \in Cases /\ p \in Persons
      BY <2>1, <2>5, Facts DEF PlaceOK, Busy
    <3> QED
      BY <1>15, <2>1, <2>5, <3>1 DEF RowsOK
  <2>6. /\ \A p \in Persons : \A f \in DOMAIN wrote'[q][p] :
               f \in DOMAIN req'[q].given /\ wrote'[q][p][f] = req'[q].given[f]
        /\ \A p \in inserted'[q] :
               punished'[<<Case(q)', p>>] = NoRow /\ DOMAIN req'[q].given \subseteq DOMAIN wrote'[q][p]
    <3>1. /\ \A p \in Persons : \A f \in DOMAIN wrote[q][p] :
                f \in DOMAIN req[q].given /\ wrote[q][p][f] = req[q].given[f]
          /\ \A p \in inserted[q] : DOMAIN req[q].given \subseteq DOMAIN wrote[q][p]
      BY <2>1 DEF RowsOK
    <3>2. \A p \in inserted[q] : punished'[<<Case(q)', p>>] = NoRow
      <4> SUFFICES ASSUME NEW p \in inserted[q] PROVE punished'[<<Case(q)', p>>] = NoRow
        OBVIOUS
      <4>1. punished'[<<Case(q), p>>] = NoRow
        BY <2>3
      <4>2. Case(q)' = Case(q)
        BY <2>2
      <4> QED
        BY <4>1, <4>2
    <3> QED
      BY <1>2, <2>2, <3>1, <3>2
  <2>7. pc'[q] \in Busy \cup {"done"} => \A p \in Served(q)' :
             OnFile(q, p)' /\ \A f \in DOMAIN req'[q].given : FieldKept(q, p, f)'
    BY <1>2, <2>2, <2>4
  <2>8. pc'[q] = "sentence" /\ found'[q] # NoRow => \A p : p = Person(q)' =>
          /\ OnFile(q, p)'
          /\ \A f \in DOMAIN req'[q].given : found'[q][f] = req'[q].given[f] => FieldKept(q, p, f)'
    BY <1>2, <2>2, <2>5
  <2> QED
    BY <2>6, <2>7, <2>8 DEF RowsOK, OnFile, FieldKept, GivenByOther
<1>17. OrderedListsNeverDeadlock'
  BY <1>2, <1>3 DEF OrderedListsNeverDeadlock, OrdersAgree, Others
<1>18. ASSUME NEW q \in Requests \ {r} PROVE PlaceOK(q)'
  BY <1>2, <1>3, PlaceKept
<1> QED
  BY <1>5, <1>8, <1>11, <1>12, <1>14, <1>16, <1>17, <1>18
-----------------------------------------------------------------------------
\* A bounded set of numbers has a greatest.
LEMMA Greatest ==
    ASSUME NEW M \in SUBSET Nat, M # {}, NEW k \in Nat, \A m \in M : m =< k
    PROVE  \E m \in M : \A n \in M : n =< m
<1> DEFINE T == {k - m : m \in M}
<1>9. \A m \in M : k - m \in Nat
  OBVIOUS
<1>1. T \subseteq Nat /\ T # {}
  BY <1>9
<1>2. \A n \in M : k - n \in T
  OBVIOUS
<1>3. \A x \in T : \E m \in M : x = k - m
  OBVIOUS
<1> HIDE DEF T
<1>4. PICK x \in T : \A y \in T : <<y, x>> \notin OpToRel(<, Nat)
  BY <1>1, WFMin, NatLessThanWellFounded, Zenon
<1>5. \A y \in T : <<y, x>> \in Nat \X Nat => ~ (<<y, x>>[1] < <<y, x>>[2])
  BY <1>4, Zenon DEF OpToRel
<1>6. \A y \in T : ~ (y < x)
  BY <1>1, <1>5
<1>7. PICK m \in M : x = k - m
  BY <1>3
<1>8. ASSUME NEW n \in M PROVE n =< m
  <2>1. ~ (k - n < k - m)
    BY <1>2, <1>6, <1>7
  <2> QED
    BY <2>1
<1> QED
  BY <1>8

\* The persons r holds a lock for are those before the one it is at, and that
\* one itself once its Criminal row is there.
LEMMA LockedSoFar ==
    ASSUME IInv, NEW r \in Requests, pc[r] \in {"enlist", "sentence"}
    PROVE  /\ Person(r) \in PersonIds
           /\ Served(r) = ListedBefore(r)
           /\ \A p \in enlisted[r] :
                p \in ListedBefore(r) \/ (pc[r] = "sentence" /\ p = Person(r))
           /\ \A p \in Persons : Holds(r, p) => p \in ListedBefore(r)
           /\ pc[r] = "enlist" => Person(r) \notin ListedBefore(r)
<1>1. PlaceOK(r) /\ at[r] \in 1 .. Len(req[r].persons) /\ req[r].persons \in Seq(PersonIds)
  BY Facts DEF PlaceOK
<1>2. Served(r) = ListedBefore(r)
  BY DEF Served
<1>3. Person(r) \in PersonIds
  BY <1>1 DEF Person, PersonAt
<1>4. \A p \in enlisted[r] : p \in ListedBefore(r) \/ (pc[r] = "sentence" /\ p = Person(r))
  BY <1>1, <1>2 DEF PlaceOK
<1> QED
  BY <1>1, <1>2, <1>3, <1>4 DEF PlaceOK

\* The measure that grows along a chain of waits: the place of the person in
\* the common order, and whether its Criminal row is there.
Height(r, rank) == 2 * rank[Person(r)] + IF pc[r] = "sentence" THEN 1 ELSE 0

LEMMA WaitsClimb ==
    ASSUME IInv, NEW rank \in [PersonIds -> Nat],
           \A r \in Requests : \A i, j \in 1 .. Len(req[r].persons) :
               i < j /\ req[r].persons[i] # req[r].persons[j] =>
                   rank[req[r].persons[i]] < rank[req[r].persons[j]],
           NEW r \in Requests, NEW q \in Requests, NEW s \in Requests,
           WaitsFor(r, q), WaitsFor(q, s)
    PROVE  Height(r, rank) < Height(q, rank)
<1> SUFFICES ASSUME NEW p, p = Person(r), NEW k, k = Person(q)
             PROVE  Height(r, rank) < Height(q, rank)
  OBVIOUS
<1>1. pc[r] \in {"enlist", "sentence"} /\ pc[q] \in {"enlist", "sentence"}
  BY DEF WaitsFor
<1>2. rank[p] \in Nat /\ rank[k] \in Nat
  BY <1>1, LockedSoFar
<1>3. p \in ListedBefore(q) \/ (pc[r] = "enlist" /\ pc[q] = "sentence" /\ p = k)
  <2>1. CASE pc[r] = "enlist"
    BY <1>1, <2>1, LockedSoFar DEF WaitsFor
  <2>2. CASE pc[r] = "sentence"
    <3>1. p \in Persons
      BY <2>2, Facts DEF PlaceOK
    <3>2. Holds(q, p)
      BY <2>2 DEF WaitsFor, HoldsRow, Holds
    <3> QED
      BY <1>1, <3>1, <3>2, LockedSoFar
  <2> QED
    BY <1>1, <2>1, <2>2
<1>4. p \in ListedBefore(q) /\ p # k => rank[p] < rank[k]
  <2> SUFFICES ASSUME p \in ListedBefore(q), p # k PROVE rank[p] < rank[k]
    OBVIOUS
  <2>1. at[q] \in 1 .. Len(req[q].persons) /\ Len(req[q].persons) \in Nat
    BY Facts DEF PlaceOK
  <2>2. PICK i \in 1 .. at[q] - 1 : p = req[q].persons[i]
    BY DEF ListedBefore, PersonAt
  <2>3. i \in 1 .. Len(req[q].persons) /\ i < at[q] /\ k = req[q].persons[at[q]]
    BY <2>1 DEF Person, PersonAt
  <2> QED
    BY <2>1, <2>2, <2>3
<1>5. p \in ListedBefore(q) /\ p = k => pc[r] = "enlist" /\ pc[q] = "sentence"
  <2> SUFFICES ASSUME p \in ListedBefore(q), p = k, pc[r] = "sentence" PROVE FALSE
    BY <1>1, LockedSoFar
  <2>1. pc[q] = "sentence"
    BY <1>1, LockedSoFar
  <2>2. p \in Persons
    BY Facts DEF PlaceOK
  <2>3. Holds(q, p) /\ Case(q) = Case(r)
    BY DEF WaitsFor, HoldsRow, Holds
  <2>4. Holds(s, p) /\ Case(s) = Case(q) /\ s # q
    BY <2>1 DEF WaitsFor, HoldsRow, Holds
  <2> QED
    BY <2>2, <2>3, <2>4 DEF IInv, RowLocks
<1>6. p # k \/ (pc[r] = "enlist" /\ pc[q] = "sentence")
  BY <1>3, <1>5
<1>7. CASE p # k
  BY <1>2, <1>3, <1>4, <1>7 DEF Height
<1>8. CASE p = k
  BY <1>2, <1>6, <1>8 DEF Height
<1> QED
  BY <1>7, <1>8

\* Requests whose lists follow one order are never on a cycle of waits.
LEMMA NoCycle ==
    ASSUME IInv, OrdersAgree, NEW r \in Requests
    PROVE  ~ Deadlocked(r)
<1> DEFINE n == Cardinality(PersonIds)
<1>1. n \in Nat
  BY FiniteAssumption, FS_CardinalityType
<1> SUFFICES ASSUME NEW S \in SUBSET Requests, r \in S,
                    \A q \in S : \E s \in S : WaitsFor(q, s)
             PROVE  FALSE
  BY DEF Deadlocked
<1>2. PICK rank \in [PersonIds -> 1 .. n] :
        \A q \in Requests : \A i, j \in 1 .. Len(req[q].persons) :
            i < j /\ req[q].persons[i] # req[q].persons[j] =>
                rank[req[q].persons[i]] < rank[req[q].persons[j]]
  BY DEF OrdersAgree
<1>3. rank \in [PersonIds -> Nat]
  BY <1>1
<1> DEFINE M == {Height(q, rank) : q \in S}
<1>4. ASSUME NEW q \in S PROVE Height(q, rank) \in Nat /\ Height(q, rank) =< 2 * n + 1
  <2>1. pc[q] \in {"enlist", "sentence"}
    BY DEF WaitsFor
  <2>2. Person(q) \in PersonIds
    BY <2>1, LockedSoFar
  <2>3. rank[Person(q)] \in Nat /\ rank[Person(q)] =< n
    BY <1>1, <2>2
  <2> QED
    BY <1>1, <2>3 DEF Height
<1>5. M \in SUBSET Nat /\ M # {} /\ 2 * n + 1 \in Nat /\ \A m \in M : m =< 2 * n + 1
  BY <1>1, <1>4
<1>6. PICK q \in S : \A s \in S : Height(s, rank) =< Height(q, rank)
  <2> HIDE DEF M
  <2>1. PICK m \in M : \A k \in M : k =< m
    BY <1>5, Greatest
  <2> QED
    BY <2>1 DEF M
<1>7. PICK s \in S : WaitsFor(q, s)
  OBVIOUS
<1>8. PICK t \in S : WaitsFor(s, t)
  OBVIOUS
<1>9. Height(q, rank) < Height(s, rank)
  BY <1>2, <1>3, <1>7, <1>8, WaitsClimb
<1> QED
  BY <1>4, <1>6, <1>9

LEMMA BreakDeadlockStep ==
    ASSUME IInv, NEW r \in Requests, BreakDeadlock(r)
    PROVE  IInv'
<1>1. ~ OrdersAgree
  BY NoCycle DEF BreakDeadlock
<1>2. pc[r] # "done"
  BY DEF BreakDeadlock, Deadlocked, WaitsFor
<1> QED
  BY <1>1, <1>2, FailStep DEF BreakDeadlock
-----------------------------------------------------------------------------
LEMMA Inductive == IInv /\ [Next]_vars => IInv'
<1> SUFFICES ASSUME IInv, [Next]_vars PROVE IInv'
  OBVIOUS
<1>1. ASSUME NEW r \in Requests, Serve(r) PROVE IInv'
  BY <1>1, FetchTrialStep, GetCriminalStep, EnlistStep, FindPunishmentStep, SentenceStep,
     CommitStep, BreakDeadlockStep DEF Serve
<1>2. ASSUME NEW r \in Requests, Crash(r) PROVE IInv'
  BY <1>2, CrashStep
<1>3. CASE UNCHANGED vars
  <2> USE <1>3 DEF vars
  <2>1. \A r \in Requests : PlaceOK(r) /\ RowsOK(r)
    BY DEF IInv
  <2>2. ASSUME NEW r \in Requests PROVE PlaceOK(r)' /\ RowsOK(r)'
    <3>1. /\ Served(r)' = Served(r) /\ Person(r)' = Person(r)
          /\ \A p : OnFile(r, p)' <=> OnFile(r, p)
          /\ \A p : Holds(r, p)' <=> Holds(r, p)
          /\ \A p, f : FieldKept(r, p, f)' <=> FieldKept(r, p, f)
      BY DEF Served, Listed, ListedBefore, PersonAt, Person, OnFile, Holds, FieldKept,
             GivenByOther, Case
    <3>2. PlaceOK(r)'
      BY <2>1, <3>1 DEF PlaceOK
    <3>3. RowsOK(r)'
      BY <2>1, <3>1 DEF RowsOK, Case
    <3> QED
      BY <3>2, <3>3
  <2>3. RowLocks'
    BY DEF IInv, RowLocks, Holds, Case
  <2>4. Stems'
    BY DEF IInv, Stems, Listed, PersonAt, Case
  <2>5. TypeOK' /\ OrderedListsNeverDeadlock'
    BY DEF IInv, TypeOK, OrderedListsNeverDeadlock, OrdersAgree
  <2> QED
    BY <2>2, <2>3, <2>4, <2>5 DEF IInv
<1> QED
  BY <1>1, <1>2, <1>3 DEF Next

LEMMA Invariance == Spec => []IInv
<1> QED
  BY InitIInv, Inductive, PTL DEF Spec

\* Every variable keeps to the values the tables and the handler can hold.
THEOREM TypeCorrect == Spec => []TypeOK
<1>1. IInv => TypeOK
  BY DEF IInv
<1> QED
  BY <1>1, Invariance, PTL

\* A request sentences everyone on its list or nobody: the handler flushes
\* each row and the middleware commits them together (CRUD/trial.py:171).
THEOREM SentencesAllOrNone == Spec => []EveryoneOrNobody
<1>1. IInv => EveryoneOrNobody
  <2> SUFFICES ASSUME IInv PROVE EveryoneOrNobody
    OBVIOUS
  <2>1. ASSUME NEW r \in Requests, pc[r] = "done", NEW p \in Listed(r)
        PROVE  punished[<<Case(r), p>>] # NoRow
    <3>1. PlaceOK(r) /\ RowsOK(r) /\ Served(r) = Listed(r) /\ criminals \cup enlisted[r] \subseteq Persons
      BY <2>1, Facts DEF Served
    <3>2. OnFile(r, p) /\ p \notin inserted[r]
      BY <2>1, <3>1 DEF PlaceOK, RowsOK, Busy
    <3> QED
      BY <3>2 DEF OnFile
  <2> QED
    BY <2>1 DEF IInv, Stems, EveryoneOrNobody
<1> QED
  BY <1>1, Invariance, PTL

\* What an answered request gave stands until another answered request gives
\* it: the flush of one session sends only the columns it changes, under the
\* lock of the row (CRUD/trial.py:171).
THEOREM GivenFieldsDoStand == Spec => []GivenFieldsStand
<1>1. IInv => GivenFieldsStand
  <2> SUFFICES ASSUME IInv, NEW r \in Requests, pc[r] = "done", NEW p \in Listed(r),
                      NEW f \in DOMAIN req[r].given
               PROVE  \/ punished[<<Case(r), p>>][f] = req[r].given[f]
                      \/ GivenByOther(r, p, f)
    BY DEF GivenFieldsStand, GivenByOther
  <2>1. PlaceOK(r) /\ RowsOK(r) /\ Served(r) = Listed(r) /\ criminals \cup enlisted[r] \subseteq Persons
    BY Facts DEF Served
  <2>2. FieldKept(r, p, f) /\ p \in Persons /\ wrote[r][p] = NoFields
    BY <2>1 DEF PlaceOK, RowsOK, Busy
  <2> QED
    BY <2>2, NoFieldsShape DEF FieldKept
<1> QED
  BY <1>1, Invariance, PTL

\* Requests whose lists follow one order of the persons never deadlock: the
\* locks of a request pile up in the order of its list (CRUD/trial.py:171).
THEOREM OrderedListsDoNotDeadlock == Spec => []OrderedListsNeverDeadlock
<1>1. IInv => OrderedListsNeverDeadlock
  BY DEF IInv
<1> QED
  BY <1>1, Invariance, PTL
==============================================================================
